--------------------------- MODULE GoogleDocsProofs ---------------------------
(***************************************************************************)
(* Proofs about the Google Docs client.  TypeCorrectness holds of every    *)
(* configuration.  The others are of tools that are called one after the   *)
(* other (~Overlap; with overlapping calls TLC finds each of them          *)
(* violated), whatever other people do to the document meanwhile and       *)
(* whichever answers are lost or refused:                                  *)
(*   AppliedOnceHolds             from EditsAreCounted: an edit that was   *)
(*                                applied requires a revision that is gone *)
(*   CacheMatchesRevisionHolds    from CacheInv: what an answer will make  *)
(*                                of the cache is what the service has     *)
(*   AnchorsAreUniqueHolds        from NamesInv: the session knows every   *)
(*                                name of the revision it requires         *)
(*   OnlyTornCachesMissHolds      from TargetInv: a request that may still *)
(*                                be accepted hits what it was made for;   *)
(*                                of documents without inline objects      *)
(* Shape is the type invariant with what an answer holds; Serial says that *)
(* one call at most is under way.  A step is first shown to be one of a    *)
(* few kinds of step of that call (StepsWithoutOverlap), and each kind to  *)
(* keep the invariants.                                                    *)
(***************************************************************************)
EXTENDS GoogleDocs, FiniteSetTheorems, WellFoundedInduction, SequenceTheorems, TLAPS

(***************************************************************************)
(* Sets of naturals                                                        *)
(***************************************************************************)

(* Induction over finite sets: a smallest set of naturals that is not      *)
(* bounded would be bounded without one of its members.                    *)
LEMMA GreatestNatural ==
  ASSUME NEW S \in SUBSET Nat, IsFiniteSet(S), S # {}
  PROVE  \E m \in S : \A n \in S : n <= m
<1> DEFINE Bounded(T) == \E x \in T : \A y \in T : x >= y
           Bad == {T \in FiniteSubsetsOf(Nat) : T # {} /\ ~Bounded(T)}
<1>1. ASSUME Bad # {} PROVE FALSE
  <2>1. PICK T \in Bad : \A U \in Bad : ~(<<U, T>> \in StrictSubsetOrdering(Nat))
    <3>1. Bad \subseteq FiniteSubsetsOf(Nat)
      OBVIOUS
    <3>2. IsWellFoundedOn(StrictSubsetOrdering(Nat), FiniteSubsetsOf(Nat))
      BY FS_StrictSubsetOrderingWellFounded
    <3> HIDE DEF Bad
    <3> QED BY <1>1, <3>1, <3>2, WFMin
  <2>2. T \subseteq Nat /\ IsFiniteSet(T) /\ T # {} /\ ~Bounded(T)
    BY <2>1 DEF FiniteSubsetsOf
  <2>3. PICK e \in T : TRUE
    BY <2>2
  <2> DEFINE U == T \ {e}
  <2>4. U # {}
    <3> SUFFICES ASSUME U = {} PROVE FALSE
      OBVIOUS
    <3>1. T = {e} /\ e \in Nat
      BY <2>2, <2>3
    <3> QED BY <3>1, <2>2
  <2>5. IsFiniteSet(U)
    BY <2>2, FS_RemoveElement
  <2>6. U \in FiniteSubsetsOf(Nat) /\ <<U, T>> \in StrictSubsetOrdering(Nat)
    BY <2>2, <2>3, <2>5 DEF FiniteSubsetsOf, StrictSubsetOrdering
  <2>7. Bounded(U)
    BY <2>1, <2>4, <2>6
  <2>8. PICK x \in U : \A y \in U : x >= y
    BY <2>7
  <2>9. Bounded(T)
    <3>1. CASE x >= e
      BY <3>1, <2>8, <2>2
    <3>2. CASE e >= x
      BY <3>2, <2>8, <2>2, <2>3
    <3> QED BY <3>1, <3>2, <2>2, <2>3, <2>8
  <2> QED BY <2>2, <2>9
<1>2. S \in FiniteSubsetsOf(Nat)
  BY DEF FiniteSubsetsOf
<1>3. Bounded(S)
  BY <1>1, <1>2
<1> QED BY <1>3

(* What is left of a finite set below one of its members is finite, so the *)
(* least member is the greatest distance from that member.                 *)
LEMMA LeastNatural ==
  ASSUME NEW S \in SUBSET Nat, IsFiniteSet(S), S # {}
  PROVE  \E m \in S : \A n \in S : m <= n
<1>1. PICK top \in S : \A n \in S : n <= top
  BY GreatestNatural
<1> DEFINE gap == [n \in S |-> top - n]
           gaps == {gap[n] : n \in S}
<1>2. \A n \in S : gap[n] \in Nat /\ n = top - gap[n]
  BY <1>1
<1>3. gaps \in SUBSET Nat /\ gaps # {}
  BY <1>2
<1>4. IsFiniteSet(gaps)
  <2>1. gap \in Surjection(S, gaps)
    BY DEF Surjection
  <2> QED BY <2>1, FS_Surjection
<1>5. PICK g \in gaps : \A h \in gaps : h <= g
  BY <1>3, <1>4, GreatestNatural
<1>6. PICK m \in S : g = gap[m]
  BY <1>5
<1>7. \A n \in S : gap[n] <= gap[m]
  BY <1>5, <1>6
<1> QED BY <1>2, <1>7, <1>1

(* Induction up to a number, for the set of the numbers that satisfy what  *)
(* is to be shown: the least number left out would have none before it.    *)
LEMMA InductionUpTo ==
  ASSUME NEW n \in Nat, NEW G, 0 \in G, \A m \in 1..n : m - 1 \in G => m \in G
  PROVE  \A m \in 0..n : m \in G
<1> DEFINE Bad == (0..n) \ G
<1> SUFFICES ASSUME Bad # {} PROVE FALSE
  OBVIOUS
<1>1. Bad \in SUBSET Nat /\ IsFiniteSet(Bad)
  <2>1. IsFiniteSet(0..n)
    BY FS_Interval
  <2>2. Bad \in SUBSET (0..n) /\ 0..n \subseteq Nat
    OBVIOUS
  <2> HIDE DEF Bad
  <2> QED BY <2>1, <2>2, FS_Subset
<1>2. PICK m \in Bad : \A k \in Bad : m <= k
  <2> HIDE DEF Bad
  <2> QED BY <1>1, LeastNatural
<1>3. m \in 1..n /\ m - 1 \in 0..n
  <2>1. m \in 0..n /\ m # 0
    BY <1>2
  <2> QED BY <2>1
<1>4. m - 1 \notin Bad
  BY <1>2, <1>3
<1> QED BY <1>2, <1>3, <1>4

(* Ranks are places. *)
LEMMA RankIsTyped ==
  ASSUME NEW S \in SUBSET Nat, IsFiniteSet(S), NEW i \in S
  PROVE  Rank(S, i) \in 1..Cardinality(S)
<1> DEFINE below == {j \in S : j <= i}
<1>1. IsFiniteSet(below) /\ Cardinality(below) <= Cardinality(S)
  BY FS_Subset
<1>2. Cardinality(below) \in Nat /\ Cardinality(S) \in Nat
  BY <1>1, FS_CardinalityType
<1>3. below # {}
  <2>1. i \in below
    OBVIOUS
  <2> QED BY <2>1
<1>4. Cardinality(below) # 0
  BY <1>1, <1>3, FS_EmptySet
<1> QED BY <1>1, <1>2, <1>4 DEF Rank

(* A greater member has a greater rank. *)
LEMMA RankAscends ==
  ASSUME NEW S \in SUBSET Nat, IsFiniteSet(S), NEW i \in S, NEW j \in S, i < j
  PROVE  Rank(S, i) < Rank(S, j)
<1> DEFINE A == {n \in S : n <= i}
           B == {n \in S : n <= j}
<1>1. IsFiniteSet(A) /\ IsFiniteSet(B)
  BY FS_Subset
<1>0. i \in Nat /\ j \in Nat
  OBVIOUS
<1>2. A \subseteq B /\ j \in B /\ j \notin A
  <2>1. \A n \in Nat : n <= i => n <= j
    BY <1>0
  <2>2. j <= j /\ ~(j <= i)
    BY <1>0
  <2> QED BY <2>1, <2>2
<1>3. Cardinality(A) \in Nat /\ Cardinality(B) \in Nat
  BY <1>1, FS_CardinalityType
<1> HIDE DEF A, B
<1>4. Cardinality(A) <= Cardinality(B) /\ (Cardinality(A) = Cardinality(B) => A = B)
  <2>1. A \in SUBSET B
    BY <1>2
  <2> QED BY <1>1, <2>1, FS_Subset
<1>5. Cardinality(A) < Cardinality(B)
  BY <1>2, <1>3, <1>4
<1> QED BY <1>5 DEF Rank, A, B

(* No two members have one rank. *)
LEMMA RankIsOneToOne ==
  ASSUME NEW S \in SUBSET Nat, IsFiniteSet(S), NEW i \in S, NEW j \in S, Rank(S, i) = Rank(S, j)
  PROVE  i = j
<1>1. Rank(S, i) \in Nat /\ Rank(S, j) \in Nat
  BY RankIsTyped
<1>2. ~(i < j)
  BY <1>1, RankAscends
<1>3. ~(j < i)
  BY <1>1, RankAscends
<1> QED BY <1>2, <1>3

(* Every number up to the size of the set is the rank of a member, because *)
(* the ranks are as many as the members.                                   *)
LEMMA EveryRankIsTaken ==
  ASSUME NEW S \in SUBSET Nat, IsFiniteSet(S), NEW k \in 1..Cardinality(S)
  PROVE  \E i \in S : Rank(S, i) = k
<1> DEFINE n == Cardinality(S)
           rank == [i \in S |-> Rank(S, i)]
           ranks == {rank[i] : i \in S}
<1>0. n \in Nat
  BY FS_CardinalityType
<1>1. rank \in Bijection(S, ranks)
  <2>1. rank \in Surjection(S, ranks)
    BY DEF Surjection
  <2>2. \A i, j \in S : rank[i] = rank[j] => i = j
    BY RankIsOneToOne
  <2>3. rank \in Injection(S, ranks)
    BY <2>1, <2>2 DEF Injection, Surjection, IsInjective
  <2> QED BY <2>1, <2>3 DEF Bijection
<1>2. IsFiniteSet(ranks) /\ Cardinality(ranks) = n
  BY <1>1, FS_Bijection DEF ExistsBijection
<1>3. ranks \subseteq 1..n
  BY RankIsTyped
<1>4. IsFiniteSet(1..n) /\ Cardinality(1..n) = n
  BY <1>0, FS_Interval
<1>5. ranks = 1..n
  <2> HIDE DEF ranks, n
  <2> QED BY <1>2, <1>3, <1>4, FS_Subset
<1> HIDE DEF rank
<1>6. k \in ranks
  BY <1>5
<1> QED BY <1>6 DEF rank

(* Ascending(S) is a sequence of all members of S, each once and in order. *)
LEMMA AscendingListsAll ==
  ASSUME NEW S \in SUBSET Nat, IsFiniteSet(S)
  PROVE  /\ Cardinality(S) \in Nat
         /\ Ascending(S) \in [1..Cardinality(S) -> S]
         /\ \A i \in S : \E k \in 1..Cardinality(S) : Ascending(S)[k] = i
         /\ \A k, l \in 1..Cardinality(S) : k < l => Ascending(S)[k] < Ascending(S)[l]
<1> DEFINE n == Cardinality(S)
<1>0. n \in Nat
  BY FS_CardinalityType
<1>1. \A k \in 1..n : Ascending(S)[k] \in S /\ Rank(S, Ascending(S)[k]) = k
  BY EveryRankIsTaken DEF Ascending
<1>2. Ascending(S) \in [1..n -> S]
  BY <1>1 DEF Ascending
<1>3. ASSUME NEW i \in S PROVE \E k \in 1..n : Ascending(S)[k] = i
  <2>1. Rank(S, i) \in 1..n
    BY RankIsTyped
  <2>2. PICK k \in 1..n : k = Rank(S, i)
    BY <2>1
  <2> DEFINE m == Ascending(S)[k]
  <2>3. m \in S /\ Rank(S, m) = Rank(S, i)
    BY <2>2, <1>1
  <2> HIDE DEF m
  <2>4. m = i
    BY <2>3, RankIsOneToOne
  <2> QED BY <2>2, <2>4 DEF m
<1>4. ASSUME NEW k \in 1..n, NEW l \in 1..n, k < l PROVE Ascending(S)[k] < Ascending(S)[l]
  <2> DEFINE i == Ascending(S)[k]
             j == Ascending(S)[l]
  <2>1. i \in S /\ j \in S /\ Rank(S, i) = k /\ Rank(S, j) = l
    BY <1>1
  <2> HIDE DEF i, j
  <2>2. ~(j < i)
    <3> SUFFICES ASSUME j < i PROVE FALSE
      OBVIOUS
    <3>1. Rank(S, j) < Rank(S, i)
      BY <2>1, RankAscends
    <3> QED BY <3>1, <2>1, <1>4
  <2>3. i # j
    BY <2>1, <1>4
  <2>4. i \in Nat /\ j \in Nat
    BY <2>1
  <2>5. i < j
    BY <2>2, <2>3, <2>4
  <2> QED BY <2>5 DEF i, j
<1> QED BY <1>0, <1>2, <1>3, <1>4

(***************************************************************************)
(* Concatenations                                                          *)
(***************************************************************************)

Joins(f, seqs, n) == \A i \in 1..n : f[i] = IF i = 1 THEN seqs[i] ELSE f[i - 1] \o seqs[i]

(* A function defined by recursion up to n exists: the pieces are joined   *)
(* one after the other.                                                    *)
LEMMA JoinedExists ==
  ASSUME NEW T, NEW n \in Nat, NEW seqs \in [1..n -> Seq(T)]
  PROVE  \E f \in [1..n -> Seq(T)] : Joins(f, seqs, n)
<1> DEFINE G == {k \in 0..n : \E f \in [1..k -> Seq(T)] : Joins(f, seqs, k)}
<1>1. 0 \in G
  <2> DEFINE none == [i \in 1..0 |-> <<>>]
  <2>1. none \in [1..0 -> Seq(T)]
    OBVIOUS
  <2>2. Joins(none, seqs, 0)
    BY DEF Joins
  <2> HIDE DEF none
  <2>3. \E f \in [1..0 -> Seq(T)] : Joins(f, seqs, 0)
    BY <2>1, <2>2
  <2>4. 0 \in 0..n
    OBVIOUS
  <2> QED BY <2>3, <2>4
<1>2. ASSUME NEW k \in 1..n, k - 1 \in G PROVE k \in G
  <2>1. PICK f \in [1..(k - 1) -> Seq(T)] : Joins(f, seqs, k - 1)
    BY <1>2
  <2> DEFINE e == IF k = 1 THEN seqs[1] ELSE f[k - 1] \o seqs[k]
             g == [i \in 1..k |-> IF i < k THEN f[i] ELSE e]
  <2>2. e \in Seq(T)
    <3>1. seqs[1] \in Seq(T) /\ seqs[k] \in Seq(T)
      OBVIOUS
    <3>2. k # 1 => f[k - 1] \in Seq(T)
      OBVIOUS
    <3> QED BY <3>1, <3>2
  <2> HIDE DEF e
  <2>3. g \in [1..k -> Seq(T)]
    BY <2>2
  <2>4. ASSUME NEW i \in 1..k, i < k PROVE g[i] = IF i = 1 THEN seqs[i] ELSE g[i - 1] \o seqs[i]
    <3>1. i \in 1..(k - 1) /\ g[i] = f[i] /\ (i # 1 => g[i - 1] = f[i - 1])
      BY <2>4
    <3>2. f[i] = IF i = 1 THEN seqs[i] ELSE f[i - 1] \o seqs[i]
      BY <2>1, <3>1 DEF Joins
    <3> QED BY <3>1, <3>2
  <2>5. g[k] = IF k = 1 THEN seqs[k] ELSE g[k - 1] \o seqs[k]
    <3>1. g[k] = e /\ (k # 1 => g[k - 1] = f[k - 1])
      OBVIOUS
    <3> QED BY <3>1 DEF e
  <2>6. Joins(g, seqs, k)
    <3> HIDE DEF g
    <3>1. \A i \in 1..k : i < k \/ i = k
      OBVIOUS
    <3> QED BY <3>1, <2>4, <2>5 DEF Joins
  <2> HIDE DEF g
  <2> QED BY <2>3, <2>6
<1> HIDE DEF G
<1>3. \A k \in 0..n : k \in G
  BY <1>1, <1>2, InductionUpTo
<1>4. n \in G
  BY <1>3
<1> QED BY <1>4 DEF G

(* What FlattenSeq gives is a sequence.                                    *)
LEMMA FlattenSeqIsTyped ==
  ASSUME NEW T, NEW n \in Nat, NEW seqs \in [1..n -> Seq(T)]
  PROVE  FlattenSeq(seqs) \in Seq(T)
<1>0. \E f \in [1..n -> Seq(T)] : Joins(f, seqs, n)
  BY JoinedExists
<1> DEFINE all == CHOOSE f : f = [i \in 1..n |-> IF i = 1 THEN seqs[i] ELSE f[i - 1] \o seqs[i]]
<1>1. Len(seqs) = n
  OBVIOUS
<1>2. CASE n = 0
  <2>1. FlattenSeq(seqs) = seqs
    BY <1>1, <1>2 DEF FlattenSeq
  <2> QED BY <2>1, <1>2
<1>3. CASE n # 0
  <2>1. FlattenSeq(seqs) = all[n]
    BY <1>1, <1>3 DEF FlattenSeq
  <2>2. PICK f \in [1..n -> Seq(T)] : Joins(f, seqs, n)
    BY <1>0
  <2>3. f = [i \in 1..n |-> IF i = 1 THEN seqs[i] ELSE f[i - 1] \o seqs[i]]
    BY <2>2 DEF Joins
  <2>4. all = [i \in 1..n |-> IF i = 1 THEN seqs[i] ELSE all[i - 1] \o seqs[i]]
    BY <2>3
  <2> HIDE DEF all
  <2>5. \A i \in 1..n : all[i] = IF i = 1 THEN seqs[i] ELSE all[i - 1] \o seqs[i]
    BY <2>4
  <2> DEFINE G == {i \in 0..n : i = 0 \/ all[i] \in Seq(T)}
  <2>6. 0 \in G
    OBVIOUS
  <2>7. ASSUME NEW i \in 1..n, i - 1 \in G PROVE i \in G
    <3>1. i # 1 => all[i - 1] \in Seq(T)
      BY <2>7
    <3>2. seqs[i] \in Seq(T)
      OBVIOUS
    <3>3. all[i] = IF i = 1 THEN seqs[i] ELSE all[i - 1] \o seqs[i]
      BY <2>5
    <3>4. all[i] \in Seq(T)
      BY <3>1, <3>2, <3>3
    <3> QED BY <3>4
  <2> HIDE DEF G
  <2>8. \A i \in 0..n : i \in G
    BY <2>6, <2>7, InductionUpTo
  <2> QED BY <2>1, <2>8, <1>3 DEF G
<1> QED BY <1>2, <1>3
(***************************************************************************)
(* Types                                                                   *)
(***************************************************************************)

Text == Tokens \cup {NL, Obj}
Items == [id : Nat, tok : Text]
Ranges == [rid : Nat, name : Nat, at : Nat]
Services == [doc : Seq(Items), rev : Nat, names : SUBSET Ranges, next : Nat]
Paragraphs == [start : Nat, end : Nat, text : Seq(Text), anchor : Nat \cup {None}]
Sessions == [open : BOOLEAN, cache : Seq(Paragraphs), required : Nat \cup {None},
             mapping : SUBSET [rid : Nat, name : Nat]]
Requests == [at : Nat, cut : Nat, put : Seq(Text), names : Seq([at : Nat, name : Nat])]
Kinds == {"ok", "lost", "busy", "down", "conflict", "refused"}
Answers == [kind : Kinds, rev : Nat \cup {None}, got : {None} \cup Seq(Nat) \cup Services]
CallRecords ==
  [op : {None, "open", "replace", "insert", "format", "lines"},
   pc : {"idle", "send", "answer", "ok", "error"},
   stage : {"edit", "load", "names", "reload"},
   aim : Nat \cup {None}, find : Tokens \cup {None, "BEFORE", "AFTER"},
   request : Requests, attempt : Nat, answer : Answers \cup {None},
   paras : Seq(Nat), own : BOOLEAN, occupied : SUBSET Nat]

(* A document with ids of its own, ranges attached to it, and a last       *)
(* newline.                                                                *)
WellFormed(srv) ==
  /\ srv \in Services
  /\ srv.doc # <<>> /\ srv.doc[Len(srv.doc)].tok = NL
  /\ \A i, j \in DOMAIN srv.doc : srv.doc[i].id = srv.doc[j].id => i = j
  /\ \A i \in DOMAIN srv.doc : srv.doc[i].id <= srv.next
  /\ IsFiniteSet(srv.names)
  /\ \A n \in srv.names : n.rid <= srv.next /\ \E i \in DOMAIN srv.doc : srv.doc[i].id = n.at
  /\ \A m, n \in srv.names : m.rid = n.rid => m = n

-------------------------------------------------------------------------------
(***************************************************************************)
(* Paragraphs                                                              *)
(***************************************************************************)

(* The newlines of a document are finitely many of its indices. *)
LEMMA EndsAreFinite ==
  ASSUME NEW doc \in Seq(Items)
  PROVE  Ends(doc) \in SUBSET (1..Len(doc)) /\ IsFiniteSet(Ends(doc))
<1>1. Ends(doc) \in SUBSET (1..Len(doc))
  BY DEF Ends
<1>2. IsFiniteSet(1..Len(doc))
  BY FS_Interval
<1> QED BY <1>1, <1>2, FS_Subset

(* The first item of a paragraph comes right behind the newline before it, *)
(* or is the first of the document.                                        *)
LEMMA StartIsFirst ==
  ASSUME NEW doc \in Seq(Items), NEW e \in Ends(doc)
  PROVE  /\ StartOf(doc, e) \in 1..e
         /\ StartOf(doc, e) - 1 \in Ends(doc) \cup {0}
         /\ \A i \in StartOf(doc, e)..(e - 1) : i \notin Ends(doc)
<1> DEFINE before == {i \in Ends(doc) : i < e} \cup {0}
<1>0. e \in Nat /\ Ends(doc) \in SUBSET Nat /\ IsFiniteSet(Ends(doc))
  BY EndsAreFinite
<1>1. before \in SUBSET Nat /\ before # {}
  BY <1>0
<1>2. IsFiniteSet(before)
  <2>1. {i \in Ends(doc) : i < e} \in SUBSET Ends(doc)
    OBVIOUS
  <2>2. IsFiniteSet({i \in Ends(doc) : i < e})
    BY <1>0, <2>1, FS_Subset
  <2> QED BY <2>2, FS_AddElement
<1>3. PICK m \in before : \A n \in before : n <= m
  <2> HIDE DEF before
  <2> QED BY <1>1, <1>2, GreatestNatural
<1>4. m \in Nat /\ m < e /\ m \in Ends(doc) \cup {0} /\ \A n \in Ends(doc) : n < e => n <= m
  <2>1. e # 0
    BY EndsAreFinite
  <2> QED BY <1>0, <1>3, <2>1
<1>5. m + 1 \in 1..e /\ (m + 1) - 1 \in Ends(doc) \cup {0}
  BY <1>0, <1>4
<1>6. \A i \in (m + 1)..(e - 1) : i \notin Ends(doc)
  BY <1>0, <1>4
<1> QED BY <1>5, <1>6 DEF StartOf

(* Two paragraphs have no item in common.                                  *)
LEMMA ParagraphsAreDisjoint ==
  ASSUME NEW doc \in Seq(Items), NEW e \in Ends(doc), NEW f \in Ends(doc), e < f
  PROVE  e < StartOf(doc, f)
<1>0. e \in Nat /\ f \in Nat
  BY EndsAreFinite
<1>1. StartOf(doc, f) \in 1..f /\ \A i \in StartOf(doc, f)..(f - 1) : i \notin Ends(doc)
  BY StartIsFirst
<1>2. e \notin StartOf(doc, f)..(f - 1)
  BY <1>1
<1> QED BY <1>0, <1>1, <1>2

(* The text of a paragraph is a sequence of tokens. *)
LEMMA TextIsTyped ==
  ASSUME NEW doc \in Seq(Items), NEW s \in Nat, NEW e \in 1..Len(doc), 1 <= s, s <= e
  PROVE  TextOf(doc, s, e) \in Seq(Text)
<1> DEFINE pieces == [i \in 1..(e - s) |-> Shown(doc[s + i - 1].tok)]
<1>1. e - s \in Nat
  OBVIOUS
<1>2. ASSUME NEW i \in 1..(e - s) PROVE Shown(doc[s + i - 1].tok) \in Seq(Text)
  <2>1. s + i - 1 \in 1..Len(doc)
    OBVIOUS
  <2>2. doc[s + i - 1] \in Items
    BY <2>1
  <2> DEFINE tok == doc[s + i - 1].tok
  <2>3. tok \in Text /\ Obj \in Text
    BY <2>2 DEF Items, Text
  <2> HIDE DEF tok
  <2>4. <<Obj, Obj>> \in Seq(Text) /\ <<tok>> \in Seq(Text)
    BY <2>3
  <2>5. Shown(tok) \in Seq(Text)
    BY <2>4 DEF Shown
  <2> QED BY <2>5 DEF tok
<1>3. pieces \in [1..(e - s) -> Seq(Text)]
  BY <1>2
<1> QED BY <1>1, <1>3, FlattenSeqIsTyped DEF TextOf

(* A paragraph has an anchor just if a named range starts in it.           *)
LEMMA AnchorIsThere ==
  ASSUME NEW srv \in Services, IsFiniteSet(srv.names), NEW s \in Nat, NEW e \in Nat
  PROVE  /\ NamesIn(srv, s, e) = {} => AnchorIn(srv, s, e) = None
         /\ NamesIn(srv, s, e) # {} => AnchorIn(srv, s, e) \in {r.name : r \in NamesIn(srv, s, e)}
         /\ AnchorIn(srv, s, e) \in Nat \cup {None}
<1> DEFINE R == NamesIn(srv, s, e)
           names == {r.name : r \in R}
           name == [r \in R |-> r.name]
<1>1. R \in SUBSET srv.names /\ srv.names \in SUBSET Ranges
  BY DEF NamesIn, Services
<1>2. names \in SUBSET Nat
  BY <1>1 DEF Ranges
<1>3. IsFiniteSet(names)
  <2>1. IsFiniteSet(R)
    BY <1>1, FS_Subset
  <2>2. name \in Surjection(R, names)
    BY DEF Surjection
  <2> QED BY <2>1, <2>2, FS_Surjection
<1>4. CASE R = {}
  <2>1. names = {}
    BY <1>4
  <2> QED BY <1>4, <2>1 DEF AnchorIn
<1>5. CASE R # {}
  <2>1. names # {}
    BY <1>5
  <2> DEFINE anchor == CHOOSE n \in names : \A m \in names : n <= m
  <2>2. AnchorIn(srv, s, e) = anchor
    BY <2>1 DEF AnchorIn
  <2> HIDE DEF names
  <2>3. \E n \in names : \A m \in names : n <= m
    BY <1>2, <1>3, <2>1, LeastNatural
  <2>4. anchor \in names
    BY <2>3
  <2> QED BY <1>5, <2>2, <2>4, <1>2 DEF names
<1> QED BY <1>4, <1>5

(* Parse gives one paragraph for every newline, in the order of the text.  *)
LEMMA ParseIsTyped ==
  ASSUME NEW srv \in Services, IsFiniteSet(srv.names)
  PROVE  /\ Parse(srv) \in Seq(Paragraphs)
         /\ Len(Parse(srv)) = Cardinality(Ends(srv.doc))
         /\ \A k \in 1..Len(Parse(srv)) :
              LET e == Ascending(Ends(srv.doc))[k]
                  s == StartOf(srv.doc, e)
              IN /\ e \in Ends(srv.doc)
                 /\ Parse(srv)[k] = [start |-> s, end |-> e, text |-> TextOf(srv.doc, s, e),
                                     anchor |-> AnchorIn(srv, s, e)]
<1> DEFINE E == Ends(srv.doc)
           n == Cardinality(E)
           para(e) == [start |-> StartOf(srv.doc, e), end |-> e,
                       text |-> TextOf(srv.doc, StartOf(srv.doc, e), e),
                       anchor |-> AnchorIn(srv, StartOf(srv.doc, e), e)]
<1>0. srv.doc \in Seq(Items)
  BY DEF Services
<1>1. E \in SUBSET (1..Len(srv.doc)) /\ IsFiniteSet(E) /\ E \in SUBSET Nat
  BY <1>0, EndsAreFinite
<1>2. n \in Nat /\ Ascending(E) \in [1..n -> E]
  <2> HIDE DEF E
  <2> QED BY <1>1, AscendingListsAll
<1>3. Parse(srv) = [k \in 1..n |-> para(Ascending(E)[k])]
  <2>1. DOMAIN Ascending(E) = 1..n
    BY <1>2
  <2> QED BY <2>1 DEF Parse
<1>4. ASSUME NEW e \in E PROVE para(e) \in Paragraphs
  <2>1. StartOf(srv.doc, e) \in 1..e
    BY <1>0, StartIsFirst
  <2>2. e \in 1..Len(srv.doc) /\ StartOf(srv.doc, e) \in Nat /\ 1 <= StartOf(srv.doc, e) /\ StartOf(srv.doc, e) <= e
    BY <1>1, <2>1
  <2>3. TextOf(srv.doc, StartOf(srv.doc, e), e) \in Seq(Text)
    BY <1>0, <2>2, TextIsTyped
  <2>4. e \in Nat
    BY <1>1
  <2>5. AnchorIn(srv, StartOf(srv.doc, e), e) \in Nat \cup {None}
    BY <2>2, <2>4, AnchorIsThere
  <2> QED BY <2>2, <2>3, <2>4, <2>5 DEF Paragraphs
<1> HIDE DEF E, n, para
<1>5. Parse(srv) \in [1..n -> Paragraphs]
  BY <1>2, <1>3, <1>4
<1>6. Parse(srv) \in Seq(Paragraphs) /\ Len(Parse(srv)) = n
  BY <1>2, <1>5
<1>7. \A k \in 1..n : Ascending(E)[k] \in E /\ Parse(srv)[k] = para(Ascending(E)[k])
  BY <1>2, <1>3
<1> QED BY <1>6, <1>7 DEF E, n, para

(* Allocated names are numbers that are not in use, each given once.       *)
LEMMA AllocateIsFree ==
  ASSUME NEW count \in Nat, NEW start \in Nat, NEW occupied \in SUBSET Nat, IsFiniteSet(occupied)
  PROVE  /\ Allocate(count, start, occupied) \in [1..count -> Nat \ occupied]
         /\ \A i, j \in 1..count : Allocate(count, start, occupied)[i] = Allocate(count, start, occupied)[j] => i = j
<1> DEFINE top == start + count + Cardinality(occupied)
           free == {n \in start..top : n \notin occupied}
           n == Cardinality(free)
<1>0. Cardinality(occupied) \in Nat /\ top \in Nat
  BY FS_CardinalityType
<1>1. IsFiniteSet(start..top) /\ Cardinality(start..top) = count + Cardinality(occupied) + 1
  <2>1. start \in Int /\ top \in Int /\ ~(start > top) /\ top - start + 1 = count + Cardinality(occupied) + 1
    BY <1>0
  <2> HIDE DEF top
  <2> QED BY <2>1, FS_Interval
<1>2. free \in SUBSET Nat /\ IsFiniteSet(free) /\ free \subseteq Nat \ occupied
  <2>1. free \in SUBSET (start..top) /\ start..top \subseteq Nat
    BY <1>0
  <2>2. IsFiniteSet(free)
    <3> HIDE DEF free, top
    <3> QED BY <1>1, <2>1, FS_Subset
  <2> QED BY <2>1, <2>2
<1>3. n \in Nat /\ count <= n
  <2>1. start..top \subseteq free \cup occupied
    OBVIOUS
  <2>2. IsFiniteSet(free \cup occupied) /\ Cardinality(free \cup occupied) <= n + Cardinality(occupied)
    <3> HIDE DEF free
    <3>1. /\ IsFiniteSet(free \cup occupied) /\ IsFiniteSet(free \cap occupied)
          /\ Cardinality(free \cup occupied) = n + Cardinality(occupied) - Cardinality(free \cap occupied)
      BY <1>2, FS_Union, FS_Intersection
    <3>2. Cardinality(free \cap occupied) \in Nat /\ n \in Nat
      BY <3>1, <1>2, FS_CardinalityType
    <3> HIDE DEF n
    <3> QED BY <3>1, <3>2, <1>0
  <2>3. Cardinality(start..top) <= Cardinality(free \cup occupied) /\ Cardinality(free \cup occupied) \in Nat
    <3> HIDE DEF free, top
    <3> QED BY <2>1, <2>2, FS_Subset, FS_CardinalityType
  <2>4. n \in Nat
    BY <1>2, FS_CardinalityType
  <2> HIDE DEF free, n, top
  <2> QED BY <2>2, <2>3, <2>4, <1>0, <1>1
<1> HIDE DEF free, n, top
<1>4. /\ Ascending(free) \in [1..n -> free]
      /\ \A k, l \in 1..n : k < l => Ascending(free)[k] < Ascending(free)[l]
  BY <1>2, AscendingListsAll DEF n
<1>5. Allocate(count, start, occupied) = SubSeq(Ascending(free), 1, count)
  BY DEF Allocate, free, top
<1>6. Allocate(count, start, occupied) = [i \in 1..count |-> Ascending(free)[i]]
  <2>1. Ascending(free) \in Seq(free)
    BY <1>3, <1>4
  <2> QED BY <1>5, <2>1, <1>3
<1>7. \A i \in 1..count : i \in 1..n
  BY <1>3
<1>8. \A i \in 1..count : Ascending(free)[i] \in free
  BY <1>4, <1>7
<1>9. \A i, j \in 1..count : Ascending(free)[i] = Ascending(free)[j] => i = j
  <2> SUFFICES ASSUME NEW i \in 1..count, NEW j \in 1..count, Ascending(free)[i] = Ascending(free)[j], i # j
               PROVE  FALSE
    OBVIOUS
  <2>1. Ascending(free)[i] \in Nat /\ Ascending(free)[j] \in Nat
    BY <1>2, <1>8
  <2>2. i < j \/ j < i
    OBVIOUS
  <2> QED BY <2>1, <2>2, <1>4, <1>7
<1> QED BY <1>2, <1>6, <1>8, <1>9

-------------------------------------------------------------------------------
(***************************************************************************)
(* Batches                                                                 *)
(***************************************************************************)

Spliced(old, at, cut, new) == SubSeq(old, 1, at - 1) \o new \o SubSeq(old, at + cut, Len(old))

(* Where the items of a sequence come from when some of old, from index at *)
(* on, are replaced by new: from before the cut, from what was put, or     *)
(* from behind the cut.                                                    *)
SplicedAs(doc, old, at, cut, new) ==
  /\ doc \in Seq(Items)
  /\ Len(doc) = Len(old) - cut + Len(new)
  /\ \A i \in 1..(at - 1) : doc[i] = old[i]
  /\ \A i \in at..(at + Len(new) - 1) : doc[i] = new[i - at + 1]
  /\ \A i \in (at + Len(new))..(Len(old) - cut + Len(new)) : doc[i] = old[i - Len(new) + cut]

(* The spliced sequence takes each of its items from where SplicedAs says. *)
LEMMA Splice ==
  ASSUME NEW old \in Seq(Items), NEW new \in Seq(Items), NEW at \in 1..Len(old), NEW cut \in Nat,
         at + cut <= Len(old)
  PROVE  SplicedAs(Spliced(old, at, cut, new), old, at, cut, new)
<1> DEFINE A == SubSeq(old, 1, at - 1)
           B == SubSeq(old, at + cut, Len(old))
           G == A \o new
           doc == G \o B
<1>0. PICK n \in Nat, put \in Nat : n = Len(old) /\ put = Len(new)
  OBVIOUS
<1>1. A \in Seq(Items) /\ Len(A) = at - 1 /\ \A i \in 1..(at - 1) : A[i] = old[i]
  <2>1. \A i \in 1..(at - 1) : old[i] \in Items
    BY <1>0
  <2>2. at - 1 \in Int /\ 1 \in Int
    OBVIOUS
  <2>3. /\ A \in Seq(Items) /\ Len(A) = IF 1 <= at - 1 THEN at - 1 - 1 + 1 ELSE 0
        /\ \A i \in 1..(at - 1 - 1 + 1) : A[i] = old[1 + i - 1]
    BY <2>1, <2>2, SubSeqProperties
  <2>4. \A i \in 1..(at - 1) : i \in 1..(at - 1 - 1 + 1) /\ 1 + i - 1 = i
    OBVIOUS
  <2> HIDE DEF A
  <2> QED BY <2>3, <2>4, <1>0
<1>2. B \in Seq(Items) /\ Len(B) = n - (at + cut) + 1
      /\ \A i \in 1..(n - (at + cut) + 1) : B[i] = old[at + cut + i - 1]
  <2>1. \A i \in (at + cut)..n : old[i] \in Items
    BY <1>0
  <2>2. at + cut \in Int /\ n \in Int /\ at + cut <= n
    BY <1>0
  <2>3. B = SubSeq(old, at + cut, n)
    BY <1>0
  <2>4. /\ B \in Seq(Items) /\ Len(B) = IF at + cut <= n THEN n - (at + cut) + 1 ELSE 0
        /\ \A i \in 1..(n - (at + cut) + 1) : B[i] = old[at + cut + i - 1]
    BY <2>1, <2>2, <2>3, SubSeqProperties
  <2> HIDE DEF B
  <2> QED BY <2>4, <2>2
<1> HIDE DEF A, B
<1>3. /\ G \in Seq(Items) /\ Len(G) = (at - 1) + put
      /\ \A i \in 1..((at - 1) + put) : G[i] = IF i <= at - 1 THEN A[i] ELSE new[i - (at - 1)]
  <2>1. A \in Seq(Items) /\ new \in Seq(Items)
    BY <1>1
  <2>2. /\ G \in Seq(Items) /\ Len(G) = Len(A) + Len(new)
        /\ \A i \in 1..(Len(A) + Len(new)) : G[i] = IF i <= Len(A) THEN A[i] ELSE new[i - Len(A)]
    BY <2>1, ConcatProperties
  <2> HIDE DEF G
  <2>3. Len(A) = at - 1 /\ Len(new) = put
    BY <1>0, <1>1
  <2> QED BY <2>2, <2>3
<1> HIDE DEF G
<1>4. /\ doc \in Seq(Items) /\ Len(doc) = (at - 1 + put) + (n - (at + cut) + 1)
      /\ \A i \in 1..((at - 1 + put) + (n - (at + cut) + 1)) :
           doc[i] = IF i <= at - 1 + put THEN G[i] ELSE B[i - (at - 1 + put)]
  <2>1. G \in Seq(Items) /\ B \in Seq(Items)
    BY <1>2, <1>3
  <2>2. /\ doc \in Seq(Items) /\ Len(doc) = Len(G) + Len(B)
        /\ \A i \in 1..(Len(G) + Len(B)) : doc[i] = IF i <= Len(G) THEN G[i] ELSE B[i - Len(G)]
    BY <2>1, ConcatProperties
  <2> HIDE DEF doc
  <2>3. Len(G) = at - 1 + put /\ Len(B) = n - (at + cut) + 1
    BY <1>2, <1>3
  <2> QED BY <2>2, <2>3
<1>5. Len(doc) = n - cut + put /\ at + cut <= n /\ 1 <= at
  BY <1>0, <1>4
<1> HIDE DEF doc
<1>6. ASSUME NEW i \in 1..(at - 1) PROVE doc[i] = old[i]
  <2>1. i \in 1..((at - 1 + put) + (n - (at + cut) + 1)) /\ i <= at - 1 + put /\ i \in 1..((at - 1) + put)
    BY <1>5, <1>0
  <2>2. doc[i] = G[i] /\ G[i] = A[i]
    BY <2>1, <1>3, <1>4
  <2> QED BY <2>2, <1>1
<1>7. ASSUME NEW i \in at..(at + put - 1) PROVE doc[i] = new[i - at + 1]
  <2>1. i \in 1..((at - 1 + put) + (n - (at + cut) + 1)) /\ i <= at - 1 + put /\ i \in 1..((at - 1) + put)
    BY <1>5, <1>0
  <2>2. ~(i <= at - 1) /\ i - (at - 1) = i - at + 1
    OBVIOUS
  <2>3. doc[i] = G[i] /\ G[i] = new[i - (at - 1)]
    BY <2>1, <2>2, <1>3, <1>4
  <2> QED BY <2>2, <2>3
<1>8. ASSUME NEW i \in (at + put)..(n - cut + put) PROVE doc[i] = old[i - put + cut]
  <2>1. i \in 1..((at - 1 + put) + (n - (at + cut) + 1)) /\ ~(i <= at - 1 + put)
    BY <1>5, <1>0
  <2>2. i - (at - 1 + put) \in 1..(n - (at + cut) + 1)
    BY <1>5, <1>0
  <2>3. doc[i] = B[i - (at - 1 + put)]
    BY <2>1, <1>4
  <2>4. B[i - (at - 1 + put)] = old[at + cut + (i - (at - 1 + put)) - 1]
    BY <2>2, <1>2
  <2>5. at + cut + (i - (at - 1 + put)) - 1 = i - put + cut
    BY <1>0
  <2> QED BY <2>3, <2>4, <2>5
<1>9. Spliced(old, at, cut, new) = doc
  BY DEF A, B, G, doc, Spliced
<1> QED BY <1>0, <1>4, <1>5, <1>6, <1>7, <1>8, <1>9 DEF SplicedAs

(* A batch puts new items in the place of those it cuts.                   *)
LEMMA AppliedDocument ==
  ASSUME NEW srv \in Services, NEW r \in Requests,
         r.at \in DOMAIN srv.doc, r.at + r.cut <= Len(srv.doc)
  PROVE  LET doc == Applied(srv, r).doc
             put == Len(r.put)
         IN /\ put \in Nat
            /\ doc \in Seq(Items)
            /\ Len(doc) = Len(srv.doc) - r.cut + put
            /\ \A i \in 1..(r.at - 1) : doc[i] = srv.doc[i]
            /\ \A i \in r.at..(r.at + put - 1) :
                 doc[i] = [id |-> srv.next + (i - r.at + 1), tok |-> r.put[i - r.at + 1]]
            /\ \A i \in (r.at + put)..(Len(srv.doc) - r.cut + put) : doc[i] = srv.doc[i - put + r.cut]
<1> DEFINE new == Fresh(srv, r.put)
           put == Len(r.put)
<1>0. /\ srv.doc \in Seq(Items) /\ r.at \in 1..Len(srv.doc) /\ r.cut \in Nat /\ r.put \in Seq(Text)
      /\ put \in Nat /\ srv.next \in Nat
  BY DEF Services, Requests
<1>1. new \in Seq(Items) /\ Len(new) = put /\ \A i \in 1..put : new[i] = [id |-> srv.next + i, tok |-> r.put[i]]
  <2>1. new = [i \in 1..put |-> [id |-> srv.next + i, tok |-> r.put[i]]]
    BY <1>0 DEF Fresh
  <2>2. \A i \in 1..put : [id |-> srv.next + i, tok |-> r.put[i]] \in Items
    BY <1>0 DEF Items
  <2> QED BY <1>0, <2>1, <2>2
<1>2. Applied(srv, r).doc = SubSeq(srv.doc, 1, r.at - 1) \o new \o SubSeq(srv.doc, r.at + r.cut, Len(srv.doc))
  BY DEF Applied
<1> HIDE DEF new, put
<1>3. /\ Applied(srv, r).doc \in Seq(Items)
      /\ Len(Applied(srv, r).doc) = Len(srv.doc) - r.cut + put
      /\ \A i \in 1..(r.at - 1) : Applied(srv, r).doc[i] = srv.doc[i]
      /\ \A i \in r.at..(r.at + put - 1) : Applied(srv, r).doc[i] = new[i - r.at + 1]
      /\ \A i \in (r.at + put)..(Len(srv.doc) - r.cut + put) : Applied(srv, r).doc[i] = srv.doc[i - put + r.cut]
  <2>1. new \in Seq(Items)
    BY <1>1
  <2>2. PICK old, at, cut :
            /\ old = srv.doc /\ at = r.at /\ cut = r.cut
            /\ old \in Seq(Items) /\ at \in 1..Len(old) /\ cut \in Nat /\ at + cut <= Len(old)
    BY <1>0
  <2> DEFINE doc == Spliced(old, at, cut, new)
  <2>3. SplicedAs(doc, old, at, cut, new)
    BY <2>1, <2>2, Splice
  <2>4. Applied(srv, r).doc = doc
    BY <1>2, <2>2 DEF Spliced
  <2> HIDE DEF doc
  <2> QED BY <1>1, <2>2, <2>3, <2>4 DEF SplicedAs
<1>4. \A i \in r.at..(r.at + put - 1) : i - r.at + 1 \in 1..put
  BY <1>0
<1> QED BY <1>0, <1>1, <1>3, <1>4 DEF put

(* A batch the service accepts leaves a document with ids of its own and a *)
(* last newline; its ranges are those that are still attached, and new     *)
(* ones with new ids.                                                      *)
LEMMA AppliedIsWellFormed ==
  ASSUME NEW srv, WellFormed(srv), NEW r \in Requests, Fits(srv, r)
  PROVE  /\ WellFormed(Applied(srv, r))
         /\ Applied(srv, r).rev = srv.rev + 1
         /\ Len(r.put) \in Nat /\ Len(r.names) \in Nat
         /\ Applied(srv, r).next = srv.next + Len(r.put) + Len(r.names)
         /\ \A n \in Applied(srv, r).names :
              \/ n \in srv.names
              \/ \E i \in DOMAIN r.names : n.rid = srv.next + Len(r.put) + i /\ n.name = r.names[i].name
<1> DEFINE new == Applied(srv, r)
           doc == new.doc
           old == srv.doc
           at == r.at
           cut == r.cut
           put == Len(r.put)
           n == Len(old)
           m == Len(doc)
           naming == {[rid |-> srv.next + Len(r.put) + i, name |-> r.names[i].name,
                       at |-> srv.doc[r.names[i].at].id] : i \in DOMAIN r.names}
<1>1. /\ old \in Seq(Items) /\ srv.rev \in Nat /\ srv.next \in Nat /\ srv.names \in SUBSET Ranges
      /\ n \in Nat /\ put \in Nat /\ cut \in Nat /\ at \in 1..n /\ at + cut <= n
      /\ r.put \in Seq(Text) /\ r.names \in Seq([at : Nat, name : Nat]) /\ Len(r.names) \in Nat
  BY DEF WellFormed, Services, Requests, Fits
<1>2. /\ new = [doc |-> doc, rev |-> srv.rev + 1,
                names |-> {x \in srv.names \cup naming : \E i \in DOMAIN doc : doc[i].id = x.at},
                next |-> srv.next + put + Len(r.names)]
  BY DEF Applied
<1>3. /\ doc \in Seq(Items) /\ m = n - cut + put
      /\ \A i \in 1..(at - 1) : doc[i] = old[i]
      /\ \A i \in at..(at + put - 1) : doc[i] = [id |-> srv.next + (i - at + 1), tok |-> r.put[i - at + 1]]
      /\ \A i \in (at + put)..m : doc[i] = old[i - put + cut]
  <2>1. srv \in Services /\ r.at \in DOMAIN srv.doc /\ r.at + r.cut <= Len(srv.doc)
    BY DEF WellFormed, Fits
  <2> HIDE DEF new
  <2> QED BY <2>1, AppliedDocument DEF new
<1>4. /\ \A i, j \in 1..n : old[i].id = old[j].id => i = j
      /\ \A i \in 1..n : old[i].id \in Nat /\ old[i].id <= srv.next
      /\ old[n].tok = NL
  <2>1. \A i \in 1..n : old[i] \in Items
    BY <1>1
  <2>2. \A i \in 1..n : old[i].id \in Nat
    BY <2>1 DEF Items
  <2>3. DOMAIN old = 1..n
    BY <1>1
  <2>4. \A i, j \in 1..n : old[i].id = old[j].id => i = j
    BY <2>3 DEF WellFormed
  <2>5. \A i \in 1..n : old[i].id <= srv.next
    BY <2>3 DEF WellFormed
  <2>6. old[n].tok = NL
    BY DEF WellFormed
  <2> QED BY <2>2, <2>4, <2>5, <2>6
<1>5. m \in Nat /\ 1 <= m
  BY <1>1, <1>3
<1> HIDE DEF new, doc, old, at, cut, put, n, m, naming
<1> DEFINE from(i) == IF i < at THEN i ELSE i - put + cut
           kept(i) == i < at \/ at + put <= i
<1>6. ASSUME NEW i \in 1..m, kept(i) PROVE doc[i] = old[from(i)] /\ from(i) \in 1..n
  BY <1>1, <1>3, <1>6
<1>7. ASSUME NEW i \in 1..m, ~kept(i)
      PROVE  doc[i].id = srv.next + (i - at + 1) /\ srv.next < doc[i].id /\ doc[i].id <= srv.next + put
  <2>1. i \in at..(at + put - 1)
    BY <1>1, <1>7
  <2>2. doc[i] = [id |-> srv.next + (i - at + 1), tok |-> r.put[i - at + 1]]
    BY <2>1, <1>3
  <2>3. doc[i].id = srv.next + (i - at + 1)
    BY <2>2
  <2> QED BY <2>1, <2>3, <1>1
<1>8. ASSUME NEW i \in 1..m, NEW j \in 1..m, doc[i].id = doc[j].id PROVE i = j
  <2>1. CASE kept(i) /\ kept(j)
    <3>1. old[from(i)].id = old[from(j)].id /\ from(i) \in 1..n /\ from(j) \in 1..n
      BY <2>1, <1>6, <1>8
    <3> HIDE DEF from
    <3>2. from(i) = from(j)
      BY <3>1, <1>4
    <3> QED BY <3>2, <2>1, <1>1 DEF from
  <2>2. CASE kept(i) /\ ~kept(j)
    <3>1. doc[i].id <= srv.next /\ doc[i].id \in Nat
      BY <2>2, <1>6, <1>4
    <3>2. srv.next < doc[j].id
      BY <2>2, <1>7
    <3> QED BY <3>1, <3>2, <1>1, <1>8
  <2>3. CASE ~kept(i) /\ kept(j)
    <3>1. doc[j].id <= srv.next /\ doc[j].id \in Nat
      BY <2>3, <1>6, <1>4
    <3>2. srv.next < doc[i].id
      BY <2>3, <1>7
    <3> QED BY <3>1, <3>2, <1>1, <1>8
  <2>4. CASE ~kept(i) /\ ~kept(j)
    <3>1. srv.next + (i - at + 1) = srv.next + (j - at + 1)
      BY <2>4, <1>7, <1>8
    <3> QED BY <3>1, <1>1, <1>5
  <2> QED BY <2>1, <2>2, <2>3, <2>4
<1>9. \A i \in 1..m : doc[i].id \in Nat /\ doc[i].id <= srv.next + put
  <2> SUFFICES ASSUME NEW i \in 1..m PROVE doc[i].id \in Nat /\ doc[i].id <= srv.next + put
    OBVIOUS
  <2>1. CASE kept(i)
    <3>1. doc[i].id \in Nat /\ doc[i].id <= srv.next
      BY <2>1, <1>6, <1>4
    <3> QED BY <3>1, <1>1
  <2>2. CASE ~kept(i)
    BY <2>2, <1>7, <1>1
  <2> QED BY <2>1, <2>2
<1>10. doc[m].tok = NL
  <2>1. at + put <= m /\ m \in (at + put)..m /\ m - put + cut = n
    BY <1>1, <1>3, <1>5
  <2>2. doc[m] = old[n]
    BY <2>1, <1>3
  <2> QED BY <2>2, <1>4
<1>11. DOMAIN doc = 1..m /\ doc # <<>> /\ DOMAIN r.names = 1..Len(r.names)
  BY <1>1, <1>3, <1>5 DEF m
<1>12. ASSUME NEW i \in DOMAIN r.names
       PROVE  /\ [rid |-> srv.next + Len(r.put) + i, name |-> r.names[i].name,
                  at |-> srv.doc[r.names[i].at].id] \in Ranges
              /\ srv.next < srv.next + Len(r.put) + i
              /\ srv.next + Len(r.put) + i <= srv.next + put + Len(r.names)
  <2>1. r.names[i].at \in 1..n
    BY DEF Fits, n, old
  <2>2. old[r.names[i].at].id \in Nat
    BY <2>1, <1>4
  <2>3. i \in 1..Len(r.names) /\ r.names[i].name \in Nat
    <3>1. i \in 1..Len(r.names)
      BY <1>11
    <3>2. r.names[i] \in [at : Nat, name : Nat]
      <4> DEFINE R == [at : Nat, name : Nat]
      <4>1. r.names \in Seq(R)
        BY <1>1
      <4> HIDE DEF R
      <4>2. r.names[i] \in R
        BY <3>1, <4>1, ElementOfSeq
      <4> QED BY <4>2 DEF R
    <3> QED BY <3>1, <3>2
  <2>4. srv.next + put + i \in Nat
    BY <1>1, <2>3
  <2> QED BY <2>2, <2>3, <2>4, <1>1 DEF Ranges, put, old
<1>13. naming \in SUBSET Ranges /\ IsFiniteSet(naming)
  <2>1. naming \in SUBSET Ranges
    BY <1>12 DEF naming
  <2> DEFINE named == [i \in DOMAIN r.names |->
                         [rid |-> srv.next + Len(r.put) + i, name |-> r.names[i].name,
                          at |-> srv.doc[r.names[i].at].id]]
  <2>2. named \in Surjection(DOMAIN r.names, naming)
    BY DEF naming, Surjection
  <2>3. IsFiniteSet(DOMAIN r.names)
    BY <1>1, <1>11, FS_Interval
  <2> QED BY <2>1, <2>2, <2>3, FS_Surjection
<1>14. new.names \in SUBSET (srv.names \cup naming) /\ IsFiniteSet(new.names)
  <2>1. new.names \in SUBSET (srv.names \cup naming)
    BY <1>2
  <2>2. IsFiniteSet(srv.names \cup naming)
    BY <1>13, FS_Union DEF WellFormed
  <2> QED BY <2>1, <2>2, FS_Subset
<1>15. \A x \in srv.names : x.rid \in Nat /\ x.rid <= srv.next
  BY <1>1 DEF WellFormed, Ranges
<1>16. ASSUME NEW x \in naming
       PROVE  \E i \in DOMAIN r.names : x.rid = srv.next + put + i /\ x.name = r.names[i].name
  BY DEF naming, put
<1>17. \A x \in naming : srv.next < x.rid /\ x.rid <= srv.next + put + Len(r.names)
  BY <1>12 DEF naming
<1>18. ASSUME NEW x \in srv.names \cup naming, NEW y \in srv.names \cup naming, x.rid = y.rid
       PROVE  x = y
  <2>1. CASE x \in srv.names /\ y \in srv.names
    BY <2>1, <1>18 DEF WellFormed
  <2>2. CASE x \in naming /\ y \in naming
    <3>1. PICK i \in DOMAIN r.names :
            x = [rid |-> srv.next + Len(r.put) + i, name |-> r.names[i].name, at |-> srv.doc[r.names[i].at].id]
      BY <2>2 DEF naming
    <3>2. PICK j \in DOMAIN r.names :
            y = [rid |-> srv.next + Len(r.put) + j, name |-> r.names[j].name, at |-> srv.doc[r.names[j].at].id]
      BY <2>2 DEF naming
    <3>3. srv.next + put + i = srv.next + put + j
      BY <3>1, <3>2, <1>18 DEF put
    <3>4. i \in 1..Len(r.names) /\ j \in 1..Len(r.names)
      BY <1>11
    <3>5. i \in Nat /\ j \in Nat /\ srv.next \in Nat /\ put \in Nat
      BY <3>4, <1>1
    <3>6. i = j
      BY <3>3, <3>5
    <3> QED BY <3>1, <3>2, <3>6
  <2>3. CASE x \in srv.names /\ y \in naming
    BY <2>3, <1>15, <1>17, <1>18, <1>1
  <2>4. CASE x \in naming /\ y \in srv.names
    BY <2>4, <1>15, <1>17, <1>18, <1>1
  <2> QED BY <2>1, <2>2, <2>3, <2>4
<1>19. new \in Services
  <2>1. srv.rev + 1 \in Nat /\ srv.next + put + Len(r.names) \in Nat
    BY <1>1
  <2>2. new.names \in SUBSET Ranges
    BY <1>1, <1>13, <1>14
  <2>3. new = [doc |-> doc, rev |-> srv.rev + 1, names |-> new.names, next |-> srv.next + put + Len(r.names)]
    BY <1>2
  <2> QED BY <2>1, <2>2, <2>3, <1>3 DEF Services
<1>20. new.doc = doc /\ new.rev = srv.rev + 1 /\ new.next = srv.next + put + Len(r.names)
  BY <1>2
<1>21. WellFormed(new)
  <2>1. \A x \in new.names : x.rid <= new.next /\ \E i \in DOMAIN doc : doc[i].id = x.at
    <3> SUFFICES ASSUME NEW x \in new.names PROVE x.rid <= new.next /\ \E i \in DOMAIN doc : doc[i].id = x.at
      OBVIOUS
    <3>1. \E i \in DOMAIN doc : doc[i].id = x.at
      BY <1>2
    <3>2. CASE x \in srv.names
      BY <3>1, <3>2, <1>15, <1>20, <1>1
    <3>3. CASE x \in naming
      BY <3>1, <3>3, <1>17, <1>20
    <3> QED BY <3>2, <3>3, <1>14
  <2>2. \A x, y \in new.names : x.rid = y.rid => x = y
    BY <1>14, <1>18
  <2>3. \A i \in DOMAIN doc : doc[i].id <= new.next
    BY <1>1, <1>9, <1>11, <1>20
  <2>4. \A i, j \in DOMAIN doc : doc[i].id = doc[j].id => i = j
    BY <1>8, <1>11
  <2> QED BY <2>1, <2>2, <2>3, <2>4, <1>10, <1>11, <1>14, <1>19, <1>20 DEF WellFormed, m
<1> QED BY <1>1, <1>14, <1>16, <1>20, <1>21 DEF new, put

-------------------------------------------------------------------------------
(***************************************************************************)
(* Type correctness.  Besides the sets of the variables it takes what an   *)
(* answer holds, which is read when it arrives: a well-formed document for *)
(* a fetch, an id for every named paragraph for a naming batch.            *)
(***************************************************************************)
Types ==
  /\ WellFormed(service)
  /\ session \in Sessions /\ IsFiniteSet(session.mapping)
  /\ calls \in [Calls -> CallRecords]
  /\ outside \in 0..MaxOutside /\ torn \in BOOLEAN
  /\ applied \in [Calls -> Nat]

Staged(call, rev) ==
  /\ \E kind \in {"busy", "down", "conflict"} : call.attempt <= Retries(kind)
  /\ IsFiniteSet(call.occupied)
  /\ call.stage = "names" => Len(call.request.names) = Len(call.paras)
  /\ call.pc = "answer" => call.answer \in Answers
  /\ call.pc = "answer" /\ call.answer.kind = "ok" =>
       /\ call.answer.rev \in Nat /\ call.answer.rev <= rev
       /\ call.stage \in {"load", "reload"} =>
            WellFormed(call.answer.got) /\ call.answer.rev = call.answer.got.rev
       /\ call.stage = "names" =>
            call.answer.got \in Seq(Nat) /\ Len(call.answer.got) = Len(call.paras)

Shape == Types /\ \A c \in Calls : Staged(calls[c], service.rev)

(* What holds of a call and the revision holds of later revisions too. *)
LEMMA StagedLater ==
  ASSUME NEW call, NEW rev \in Nat, NEW later \in Nat, rev <= later, Staged(call, rev)
  PROVE  Staged(call, later)
BY DEF Staged

(* A call that has not begun is in its domain. *)
LEMMA IdleIsTyped == Idle \in CallRecords /\ NoRequest \in Requests /\ IsFiniteSet({})
<1>1. NoRequest \in Requests
  BY DEF NoRequest, Requests
<1>2. <<>> \in Seq(Nat) /\ {} \in SUBSET Nat
  OBVIOUS
<1>3. Idle = [op |-> None, pc |-> "idle", stage |-> "edit", aim |-> None, find |-> None,
              request |-> NoRequest, attempt |-> 0, answer |-> None, paras |-> <<>>, own |-> TRUE,
              occupied |-> {}]
  BY DEF Idle
<1>4. Idle \in CallRecords
  BY <1>1, <1>2, <1>3 DEF CallRecords
<1> QED BY <1>1, <1>4, FS_EmptySet

(* A call that begins, ends or waits holds no answer.                      *)
LEMMA ResetIsStaged ==
  ASSUME NEW call \in CallRecords, NEW rev \in Nat,
         call.attempt = 0, call.occupied = {}, call.stage # "names", call.pc # "answer"
  PROVE  Staged(call, rev)
<1>1. 0 <= Retries("busy")
  BY GoogleDocsAssumption DEF Retries
<1>2. IsFiniteSet({})
  BY FS_EmptySet
<1> QED BY <1>1, <1>2 DEF Staged

(* The first state has the types, and no call holds an answer. *)
LEMMA InitShape == Init => Shape
<1> SUFFICES ASSUME Init PROVE Shape
  OBVIOUS
<1> DEFINE n == Len(Doc0)
           doc == [i \in DOMAIN Doc0 |-> [id |-> i, tok |-> Doc0[i]]]
<1>1. n \in Nat /\ 1 <= n /\ DOMAIN Doc0 = 1..n /\ \A i \in 1..n : Doc0[i] \in Text
  BY GoogleDocsAssumption DEF Text
<1>2. doc \in Seq(Items) /\ Len(doc) = n /\ \A i \in 1..n : doc[i] = [id |-> i, tok |-> Doc0[i]]
  <2>1. doc = [i \in 1..n |-> [id |-> i, tok |-> Doc0[i]]]
    BY <1>1
  <2>2. \A i \in 1..n : [id |-> i, tok |-> Doc0[i]] \in Items
    BY <1>1 DEF Items
  <2> HIDE DEF n
  <2> QED BY <1>1, <2>1, <2>2
<1>3. Doc0[n] = NL
  BY GoogleDocsAssumption DEF Last
<1>4. service = [doc |-> doc, rev |-> 0, names |-> {}, next |-> n]
  BY DEF Init
<1> HIDE DEF doc, n
<1>5. WellFormed(service)
  <2>1. service \in Services
    BY <1>1, <1>2, <1>4 DEF Services
  <2>2. service.doc = doc /\ service.names = {} /\ service.next = n /\ DOMAIN doc = 1..n
    BY <1>1, <1>2, <1>4
  <2>3. doc # <<>> /\ doc[Len(doc)].tok = NL
    BY <1>1, <1>2, <1>3
  <2>4. \A i \in 1..n : doc[i].id = i /\ i <= n
    BY <1>2
  <2> QED BY <2>1, <2>2, <2>3, <2>4, FS_EmptySet DEF WellFormed
<1>6. session \in Sessions /\ IsFiniteSet(session.mapping)
  <2>1. session = [open |-> FALSE, cache |-> <<>>, required |-> None, mapping |-> {}]
    BY DEF Init, Closed
  <2>2. <<>> \in Seq(Paragraphs)
    OBVIOUS
  <2> QED BY <2>1, <2>2, FS_EmptySet DEF Sessions
<1>7. calls \in [Calls -> CallRecords] /\ \A c \in Calls : calls[c] = Idle
  BY IdleIsTyped DEF Init
<1>8. \A c \in Calls : Staged(calls[c], service.rev)
  <2>1. Idle.attempt = 0 /\ Idle.occupied = {} /\ Idle.stage # "names" /\ Idle.pc # "answer"
    BY DEF Idle
  <2>2. service.rev \in Nat
    BY <1>4
  <2> QED BY <1>7, <2>1, <2>2, IdleIsTyped, ResetIsStaged
<1>9. outside \in 0..MaxOutside /\ torn \in BOOLEAN /\ applied \in [Calls -> Nat]
  <2>1. outside = 0 /\ torn = FALSE /\ applied = [c \in Calls |-> 0]
    BY DEF Init
  <2>2. 0 \in 0..MaxOutside
    BY GoogleDocsAssumption
  <2>3. torn \in BOOLEAN
    BY <2>1
  <2>4. applied \in [Calls -> Nat]
    BY <2>1
  <2> QED BY <2>1, <2>2, <2>3, <2>4
<1> QED BY <1>5, <1>6, <1>7, <1>8, <1>9 DEF Shape, Types

(* A step that changes one call, and the revision only upwards.            *)
LEMMA OneCallChanges ==
  ASSUME Shape, NEW c \in Calls, NEW call \in CallRecords,
         calls' = [calls EXCEPT ![c] = call], WellFormed(service)', service.rev <= service'.rev,
         Staged(call, service'.rev),
         session' \in Sessions, IsFiniteSet(session'.mapping),
         outside' = outside, torn' \in BOOLEAN, applied' \in [Calls -> Nat]
  PROVE  Shape'
<1>1. calls' \in [Calls -> CallRecords]
  BY DEF Shape, Types
<1>2. service.rev \in Nat /\ service'.rev \in Nat
  BY DEF Shape, Types, WellFormed, Services
<1>3. \A d \in Calls : Staged(calls'[d], service'.rev)
  <2> SUFFICES ASSUME NEW d \in Calls PROVE Staged(calls'[d], service'.rev)
    OBVIOUS
  <2>1. CASE d = c
    BY <2>1 DEF Shape, Types
  <2>2. CASE d # c
    <3>1. calls'[d] = calls[d] /\ Staged(calls[d], service.rev)
      BY <2>2 DEF Shape, Types
    <3> QED BY <3>1, <1>2, StagedLater
  <2> QED BY <2>1, <2>2
<1> QED BY <1>1, <1>3 DEF Shape, Types

-------------------------------------------------------------------------------
(***************************************************************************)
(* The steps keep the shape                                                *)
(***************************************************************************)

(* Every tool begins its call by the same step. *)
LEMMA BeginKeepsShape ==
  ASSUME Shape, NEW c \in Calls, NEW op \in {"open", "replace", "insert", "format"},
         NEW stage \in {"edit", "load"}, NEW aim \in Nat \cup {None},
         NEW find \in Tokens \cup {None, "BEFORE", "AFTER"}, NEW request \in Requests,
         Begin(c, op, stage, aim, find, request),
         session' \in Sessions, IsFiniteSet(session'.mapping),
         UNCHANGED <<service, outside, applied, torn>>
  PROVE  Shape'
<1> DEFINE call == [Idle EXCEPT !.op = op, !.pc = "send", !.stage = stage,
                                !.aim = aim, !.find = find, !.request = request]
<1>1. call \in CallRecords
  <2>1. Idle \in CallRecords
    BY IdleIsTyped
  <2> QED BY <2>1 DEF CallRecords
<1>2. call.attempt = 0 /\ call.occupied = {} /\ call.stage = stage /\ call.pc = "send"
  BY DEF Idle
<1>3. calls' = [calls EXCEPT ![c] = call]
  BY DEF Begin
<1>4. service.rev \in Nat /\ service'.rev = service.rev /\ WellFormed(service)'
  BY DEF Shape, Types, WellFormed, Services
<1> HIDE DEF call
<1>5. Staged(call, service'.rev)
  BY <1>1, <1>2, <1>4, ResetIsStaged
<1>6. torn' \in BOOLEAN /\ applied' \in [Calls -> Nat] /\ outside' = outside
  BY DEF Shape, Types
<1>7. service.rev <= service'.rev
  BY <1>4
<1> QED BY <1>1, <1>3, <1>4, <1>5, <1>6, <1>7, OneCallChanges

(* A session that is not open is in its domain, without names. *)
LEMMA ClosedIsTyped == Closed \in Sessions /\ IsFiniteSet(Closed.mapping) /\ Closed.mapping = {}
<1>1. Closed = [open |-> FALSE, cache |-> <<>>, required |-> None, mapping |-> {}]
  BY DEF Closed
<1>2. <<>> \in Seq(Paragraphs)
  OBVIOUS
<1> QED BY <1>1, <1>2, FS_EmptySet DEF Sessions

(* open_google_doc. *)
LEMMA OpenKeepsShape ==
  ASSUME Shape, NEW c \in Calls, Open(c) PROVE Shape'
<1>1. Begin(c, "open", "load", None, None, NoRequest) /\ session' = Closed
      /\ UNCHANGED <<service, outside, applied, torn>>
  BY DEF Open
<1> QED BY <1>1, BeginKeepsShape, IdleIsTyped, ClosedIsTyped

(* The request of an edit.                                                 *)
LEMMA EditRequest ==
  ASSUME NEW at \in Nat, NEW put \in Seq(Text)
  PROVE  /\ [NoRequest EXCEPT !.at = at] \in Requests
         /\ [NoRequest EXCEPT !.at = at, !.put = put] \in Requests
         /\ [NoRequest EXCEPT !.at = at, !.cut = 1] \in Requests
         /\ [NoRequest EXCEPT !.at = at, !.cut = 1, !.put = put] \in Requests
<1> DEFINE R == [at : Nat, name : Nat]
<1>1. NoRequest \in [at : Nat, cut : Nat, put : Seq(Text), names : Seq(R)]
  BY IdleIsTyped DEF Requests
<1>2. Requests = [at : Nat, cut : Nat, put : Seq(Text), names : Seq(R)] /\ 1 \in Nat
  BY DEF Requests
<1> HIDE DEF R
<1> QED BY <1>1, <1>2

(* The paragraph a tool names has an anchor.                               *)
LEMMA AnchoredIsTyped ==
  ASSUME Shape, NEW k \in Anchored
  PROVE  session.cache[k] \in Paragraphs
<1>1. session.cache \in Seq(Paragraphs) /\ k \in DOMAIN session.cache
  BY DEF Shape, Types, Sessions, Anchored
<1> QED BY <1>1

(* The first occurrence of a token that occurs in a text. *)
LEMMA FirstOccurrence ==
  ASSUME NEW text \in Seq(Text), NEW find \in Range(text)
  PROVE  LET o == CHOOSE o \in DOMAIN text : text[o] = find /\ \A p \in 1..(o - 1) : text[p] # find
         IN o \in DOMAIN text /\ text[o] = find
<1> DEFINE found == {o \in DOMAIN text : text[o] = find}
<1>1. DOMAIN text = 1..Len(text) /\ Len(text) \in Nat
  OBVIOUS
<1>2. found \in SUBSET (1..Len(text)) /\ found \in SUBSET Nat /\ found # {}
  BY <1>1 DEF Range
<1>3. IsFiniteSet(found)
  <2>1. IsFiniteSet(1..Len(text))
    BY <1>1, FS_Interval
  <2> HIDE DEF found
  <2> QED BY <1>2, <2>1, FS_Subset
<1>4. PICK o \in found : \A p \in found : o <= p
  <2> HIDE DEF found
  <2> QED BY <1>2, <1>3, LeastNatural
<1>5. o \in DOMAIN text /\ text[o] = find /\ \A p \in 1..(o - 1) : text[p] # find
  BY <1>1, <1>4
<1> QED BY <1>5

(* replace_text: the batch puts text where the old one was found. *)
LEMMA ReplaceTextKeepsShape ==
  ASSUME Shape, NEW c \in Calls, ReplaceText(c) PROVE Shape'
<1>1. PICK k \in Anchored, find \in Tokens, put \in {<<>>} \cup (Tokens \X Tokens) :
        LET para == session.cache[k] IN
        /\ find \in Range(para.text)
        /\ LET o == CHOOSE o \in DOMAIN para.text :
                      para.text[o] = find /\ \A p \in 1..(o - 1) : para.text[p] # find
           IN Begin(c, "replace", "edit", para.anchor, find,
                    [NoRequest EXCEPT !.at = MatchAt(para, o), !.cut = 1, !.put = put])
  BY DEF ReplaceText
<1> DEFINE para == session.cache[k]
           o == CHOOSE o \in DOMAIN para.text :
                  para.text[o] = find /\ \A p \in 1..(o - 1) : para.text[p] # find
           request == [NoRequest EXCEPT !.at = MatchAt(para, o), !.cut = 1, !.put = put]
<1>2. para \in Paragraphs
  BY AnchoredIsTyped
<1>3. para.text \in Seq(Text) /\ para.start \in Nat /\ para.anchor \in Nat \cup {None}
  BY <1>2 DEF Paragraphs
<1>4. o \in DOMAIN para.text
  BY <1>1, <1>3, FirstOccurrence
<1>5. o \in Nat /\ 1 <= o
  BY <1>3, <1>4
<1>6. Begin(c, "replace", "edit", para.anchor, find, request)
  BY <1>1
<1> HIDE DEF para, o
<1>7. MatchAt(para, o) \in Nat
  BY <1>3, <1>5 DEF MatchAt
<1>8. put \in Seq(Text)
  <2>1. CASE put = <<>>
    BY <2>1
  <2>2. CASE put \in Tokens \X Tokens
    <3>1. PICK s \in Tokens, t \in Tokens : put = <<s, t>>
      BY <2>2
    <3>2. s \in Text /\ t \in Text
      BY DEF Text
    <3> QED BY <3>1, <3>2
  <2> QED BY <2>1, <2>2
<1>10. request \in Requests
  BY <1>7, <1>8, EditRequest
<1> HIDE DEF request
<1>11. /\ session' \in Sessions /\ IsFiniteSet(session'.mapping)
       /\ UNCHANGED <<service, outside, applied, torn>>
  BY DEF ReplaceText, Shape, Types
<1> QED BY <1>3, <1>6, <1>10, <1>11, BeginKeepsShape

(* insert_paragraph, before or after its anchor. *)
LEMMA InsertParagraphKeepsShape ==
  ASSUME Shape, NEW c \in Calls, InsertParagraph(c) PROVE Shape'
<1>1. PICK k \in Anchored, t \in Tokens, position \in {"BEFORE", "AFTER"} :
        LET para == session.cache[k] IN
        Begin(c, "insert", "edit", para.anchor, position,
              [NoRequest EXCEPT !.at = InsertIndex(para, position),
                                !.put = IF position = "BEFORE" THEN <<t, NL>> ELSE <<NL, t>>])
  BY DEF InsertParagraph
<1> DEFINE para == session.cache[k]
           put == IF position = "BEFORE" THEN <<t, NL>> ELSE <<NL, t>>
           request == [NoRequest EXCEPT !.at = InsertIndex(para, position), !.put = put]
<1>2. para \in Paragraphs
  BY AnchoredIsTyped
<1>3. Begin(c, "insert", "edit", para.anchor, position, request)
  BY <1>1
<1> HIDE DEF para
<1>4. para.start \in Nat /\ para.end \in Nat /\ para.anchor \in Nat \cup {None}
  BY <1>2 DEF Paragraphs
<1>5. InsertIndex(para, position) \in Nat
  BY <1>4 DEF InsertIndex
<1>6. put \in Seq(Text)
  <2>1. t \in Text /\ NL \in Text
    BY DEF Text
  <2>2. <<t, NL>> \in Seq(Text) /\ <<NL, t>> \in Seq(Text)
    BY <2>1
  <2> QED BY <2>2
<1> HIDE DEF put
<1>8. request \in Requests
  BY <1>5, <1>6, EditRequest
<1> HIDE DEF request
<1>9. /\ session' \in Sessions /\ IsFiniteSet(session'.mapping)
      /\ UNCHANGED <<service, outside, applied, torn>>
  BY DEF InsertParagraph, Shape, Types
<1> QED BY <1>3, <1>4, <1>8, <1>9, BeginKeepsShape

(* format_layout, which changes no text. *)
LEMMA FormatLayoutKeepsShape ==
  ASSUME Shape, NEW c \in Calls, FormatLayout(c) PROVE Shape'
<1>1. PICK k \in Anchored :
        Begin(c, "format", "edit", session.cache[k].anchor, None,
              [NoRequest EXCEPT !.at = session.cache[k].start])
  BY DEF FormatLayout
<1> DEFINE para == session.cache[k]
           request == [NoRequest EXCEPT !.at = para.start]
<1>2. para \in Paragraphs
  BY AnchoredIsTyped
<1>3. Begin(c, "format", "edit", para.anchor, None, request)
  BY <1>1
<1> HIDE DEF para
<1>4. para.start \in Nat /\ para.anchor \in Nat \cup {None}
  BY <1>2 DEF Paragraphs
<1>5. <<>> \in Seq(Text)
  OBVIOUS
<1>6. request \in Requests
  BY <1>4, <1>5, EditRequest
<1> HIDE DEF request
<1>7. /\ session' \in Sessions /\ IsFiniteSet(session'.mapping)
      /\ UNCHANGED <<service, outside, applied, torn>>
  BY DEF FormatLayout, Shape, Types
<1> QED BY <1>3, <1>4, <1>6, <1>7, BeginKeepsShape

(* Closing the session leaves the calls that are under way. *)
LEMMA CloseKeepsShape ==
  ASSUME Shape, Close PROVE Shape'
<1>1. /\ session' = Closed /\ torn' = FALSE
      /\ service' = service /\ calls' = calls /\ outside' = outside /\ applied' = applied
  BY DEF Close
<1>2. session' \in Sessions /\ IsFiniteSet(session'.mapping)
  BY <1>1, ClosedIsTyped
<1>3. WellFormed(service)' /\ calls' \in [Calls -> CallRecords] /\ outside' \in 0..MaxOutside
      /\ applied' \in [Calls -> Nat]
  BY <1>1 DEF Shape, Types
<1>4. torn' \in BOOLEAN
  BY <1>1
<1>5. \A c \in Calls : Staged(calls'[c], service'.rev)
  BY <1>1 DEF Shape
<1> QED BY <1>2, <1>3, <1>4, <1>5 DEF Shape, Types

(* An answer arrives; the rest of the call is as it was.                   *)
LEMMA AnsweredCall ==
  ASSUME Shape, NEW c \in Calls, NEW kind \in Kinds, NEW rev \in Nat \cup {None},
         NEW got \in {None} \cup Seq(Nat) \cup Services, Answered(c, kind, rev, got)
  PROVE  \E call \in CallRecords :
           /\ calls' = [calls EXCEPT ![c] = call]
           /\ call.pc = "answer" /\ call.answer = [kind |-> kind, rev |-> rev, got |-> got]
           /\ call.answer \in Answers
           /\ call.op = calls[c].op /\ call.stage = calls[c].stage
           /\ call.request = calls[c].request /\ call.attempt = calls[c].attempt
           /\ call.paras = calls[c].paras /\ call.own = calls[c].own
           /\ call.occupied = calls[c].occupied
           /\ call.aim = calls[c].aim /\ call.find = calls[c].find
<1> DEFINE answer == [kind |-> kind, rev |-> rev, got |-> got]
           call == [calls[c] EXCEPT !.pc = "answer", !.answer = answer]
<1>1. calls[c] \in CallRecords /\ calls \in [Calls -> CallRecords]
  BY DEF Shape, Types
<1>2. answer \in Answers /\ answer.kind = kind /\ answer.rev = rev /\ answer.got = got
  BY DEF Answers
<1>3. calls' = [calls EXCEPT ![c].pc = "answer", ![c].answer = answer]
  BY DEF Answered
<1> HIDE DEF answer
<1>4. calls' = [calls EXCEPT ![c] = call]
  BY <1>1, <1>3
<1>5. call \in CallRecords
  BY <1>1, <1>2 DEF CallRecords
<1>6. /\ call.pc = "answer" /\ call.answer = answer
      /\ call.op = calls[c].op /\ call.stage = calls[c].stage
      /\ call.request = calls[c].request /\ call.attempt = calls[c].attempt
      /\ call.paras = calls[c].paras /\ call.own = calls[c].own
      /\ call.occupied = calls[c].occupied
      /\ call.aim = calls[c].aim /\ call.find = calls[c].find
  BY <1>1 DEF CallRecords
<1> HIDE DEF call
<1> QED BY <1>2, <1>4, <1>5, <1>6 DEF answer

(* The service applies a batch: the document it leaves is well-formed. *)
LEMMA ServeKeepsShape ==
  ASSUME Shape, NEW c \in Calls, NEW kind \in {"ok", "lost"}, Serve(c, kind) PROVE Shape'
<1> DEFINE r == calls[c].request
           got == [i \in DOMAIN r.names |-> service.next + Len(r.put) + i]
<1>1. /\ ~Fetching(c) /\ Fits(service, r) /\ service' = Applied(service, r)
      /\ Answered(c, kind, service.rev + 1, got)
      /\ applied' = IF calls[c].stage = "edit" THEN [applied EXCEPT ![c] = @ + 1] ELSE applied
      /\ session' = session /\ outside' = outside /\ torn' = torn
  BY DEF Serve
<1>2. r \in Requests /\ calls[c] \in CallRecords /\ Staged(calls[c], service.rev)
  BY DEF Shape, Types, CallRecords
<1>3. WellFormed(service) /\ service.rev \in Nat /\ service.next \in Nat
  BY DEF Shape, Types, WellFormed, Services
<1> HIDE DEF r
<1>4. WellFormed(service)' /\ service'.rev = service.rev + 1 /\ Len(r.put) \in Nat /\ Len(r.names) \in Nat
  BY <1>1, <1>2, <1>3, AppliedIsWellFormed
<1>5. got \in Seq(Nat) /\ Len(got) = Len(r.names)
  <2>1. DOMAIN r.names = 1..Len(r.names)
    <3>1. r.names \in Seq([at : Nat, name : Nat])
      BY <1>2 DEF Requests
    <3> QED BY <3>1
  <2>2. \A i \in 1..Len(r.names) : service.next + Len(r.put) + i \in Nat
    BY <1>3, <1>4
  <2>3. got = [i \in 1..Len(r.names) |-> service.next + Len(r.put) + i]
    BY <2>1
  <2> HIDE DEF got
  <2> QED BY <1>4, <2>2, <2>3
<1> HIDE DEF got
<1>6. PICK call \in CallRecords :
        /\ calls' = [calls EXCEPT ![c] = call]
        /\ call.pc = "answer" /\ call.answer = [kind |-> kind, rev |-> service.rev + 1, got |-> got]
        /\ call.answer \in Answers
        /\ call.op = calls[c].op /\ call.stage = calls[c].stage
        /\ call.request = calls[c].request /\ call.attempt = calls[c].attempt
        /\ call.paras = calls[c].paras /\ call.own = calls[c].own
        /\ call.occupied = calls[c].occupied
        /\ call.aim = calls[c].aim /\ call.find = calls[c].find
  <2>1. kind \in Kinds /\ service.rev + 1 \in Nat \cup {None} /\ got \in {None} \cup Seq(Nat) \cup Services
    BY <1>3, <1>5 DEF Kinds
  <2> QED BY <1>1, <2>1, AnsweredCall
<1>7. Staged(call, service'.rev)
  <2>1. call.stage \notin {"load", "reload"}
    BY <1>1, <1>6 DEF Fetching
  <2>2. call.answer.rev = service.rev + 1 /\ call.answer.got = got
    BY <1>6
  <2>3. \E k \in {"busy", "down", "conflict"} : call.attempt <= Retries(k)
    BY <1>2, <1>6 DEF Staged
  <2>4. IsFiniteSet(call.occupied) /\ (call.stage = "names" => Len(call.request.names) = Len(call.paras))
    BY <1>2, <1>6 DEF Staged
  <2>5. call.stage = "names" => Len(got) = Len(call.paras)
    BY <2>4, <1>5, <1>6 DEF r
  <2> QED BY <2>1, <2>2, <2>3, <2>4, <2>5, <1>3, <1>4, <1>5, <1>6 DEF Staged
<1>8. applied' \in [Calls -> Nat]
  <2>1. applied \in [Calls -> Nat]
    BY DEF Shape, Types
  <2> QED BY <1>1, <2>1
<1>9. session' \in Sessions /\ IsFiniteSet(session'.mapping) /\ torn' \in BOOLEAN
  BY <1>1 DEF Shape, Types
<1>10. service.rev <= service'.rev /\ outside' = outside
  BY <1>1, <1>3, <1>4
<1> QED BY <1>4, <1>6, <1>7, <1>8, <1>9, <1>10, OneCallChanges

(* A step that leaves everything but one call as it was.                   *)
LEMMA OnlyOneCallChanges ==
  ASSUME Shape, NEW c \in Calls, NEW call \in CallRecords, calls' = [calls EXCEPT ![c] = call],
         Staged(call, service.rev), UNCHANGED <<service, session, outside, applied, torn>>
  PROVE  Shape'
<1>1. WellFormed(service)' /\ service'.rev = service.rev /\ service.rev \in Nat
  BY DEF Shape, Types, WellFormed, Services
<1>2. /\ session' \in Sessions /\ IsFiniteSet(session'.mapping)
      /\ outside' = outside /\ torn' \in BOOLEAN /\ applied' \in [Calls -> Nat]
  BY DEF Shape, Types
<1>3. service.rev <= service'.rev /\ Staged(call, service'.rev)
  BY <1>1
<1> QED BY <1>1, <1>2, <1>3, OneCallChanges

(* The service answers with an error and applies nothing. *)
LEMMA RefuseKeepsShape ==
  ASSUME Shape, NEW c \in Calls, NEW kind \in {"busy", "down", "conflict", "refused"}, Refuse(c, kind)
  PROVE  Shape'
<1>1. Answered(c, kind, None, None) /\ UNCHANGED <<service, session, outside, applied, torn>>
  BY DEF Refuse
<1>2. PICK call \in CallRecords :
        /\ calls' = [calls EXCEPT ![c] = call]
        /\ call.pc = "answer" /\ call.answer = [kind |-> kind, rev |-> None, got |-> None]
        /\ call.answer \in Answers
        /\ call.op = calls[c].op /\ call.stage = calls[c].stage
        /\ call.request = calls[c].request /\ call.attempt = calls[c].attempt
        /\ call.paras = calls[c].paras /\ call.own = calls[c].own
        /\ call.occupied = calls[c].occupied
        /\ call.aim = calls[c].aim /\ call.find = calls[c].find
  <2>1. kind \in Kinds /\ None \in Nat \cup {None} /\ None \in {None} \cup Seq(Nat) \cup Services
    BY DEF Kinds
  <2> QED BY <1>1, <2>1, AnsweredCall
<1>3. Staged(call, service.rev)
  <2>1. Staged(calls[c], service.rev)
    BY DEF Shape
  <2>2. call.answer.kind # "ok"
    BY <1>2
  <2> QED BY <1>2, <2>1, <2>2 DEF Staged
<1> QED BY <1>1, <1>2, <1>3, OnlyOneCallChanges

(* documents.get answers with the document as it is. *)
LEMMA FetchKeepsShape ==
  ASSUME Shape, NEW c \in Calls, Fetch(c) PROVE Shape'
<1>1. /\ Fetching(c) /\ Answered(c, "ok", service.rev, service)
      /\ UNCHANGED <<service, session, outside, applied, torn>>
  BY DEF Fetch
<1>2. WellFormed(service) /\ service \in Services /\ service.rev \in Nat
  BY DEF Shape, Types, WellFormed, Services
<1>3. PICK call \in CallRecords :
        /\ calls' = [calls EXCEPT ![c] = call]
        /\ call.pc = "answer" /\ call.answer = [kind |-> "ok", rev |-> service.rev, got |-> service]
        /\ call.answer \in Answers
        /\ call.op = calls[c].op /\ call.stage = calls[c].stage
        /\ call.request = calls[c].request /\ call.attempt = calls[c].attempt
        /\ call.paras = calls[c].paras /\ call.own = calls[c].own
        /\ call.occupied = calls[c].occupied
        /\ call.aim = calls[c].aim /\ call.find = calls[c].find
  <2>1. "ok" \in Kinds /\ service.rev \in Nat \cup {None} /\ service \in {None} \cup Seq(Nat) \cup Services
    BY <1>2 DEF Kinds
  <2> QED BY <1>1, <2>1, AnsweredCall
<1>4. Staged(call, service.rev)
  <2>1. Staged(calls[c], service.rev)
    BY DEF Shape
  <2>2. call.answer.rev = service.rev /\ call.answer.got = service /\ call.stage # "names"
    BY <1>1, <1>3 DEF Fetching
  <2> QED BY <1>2, <1>3, <2>1, <2>2 DEF Staged
<1> QED BY <1>1, <1>3, <1>4, OnlyOneCallChanges

(* A call retries as long as it may. *)
LEMMA RetryKeepsShape ==
  ASSUME Shape, NEW c \in Calls, Retry(c) PROVE Shape'
<1> DEFINE call == [calls[c] EXCEPT !.pc = "send", !.attempt = @ + 1, !.answer = None]
<1>1. /\ calls[c].answer.kind \in {"busy", "down", "lost", "conflict"}
      /\ calls[c].attempt < Retries(calls[c].answer.kind)
      /\ calls' = [calls EXCEPT ![c].pc = "send", ![c].attempt = @ + 1, ![c].answer = None]
      /\ UNCHANGED <<service, session, outside, applied, torn>>
  BY DEF Retry, Received, MayRetry
<1>2. calls[c] \in CallRecords /\ calls \in [Calls -> CallRecords] /\ Staged(calls[c], service.rev)
  BY DEF Shape, Types
<1>3. calls' = [calls EXCEPT ![c] = call]
  BY <1>1, <1>2
<1>4. call \in CallRecords
  <2>1. PICK n \in Nat : n = calls[c].attempt + 1
    BY <1>2 DEF CallRecords
  <2>2. [calls[c] EXCEPT !.pc = "send", !.attempt = n, !.answer = None] \in CallRecords
    BY <1>2 DEF CallRecords
  <2>3. call = [calls[c] EXCEPT !.pc = "send", !.attempt = n, !.answer = None]
    BY <2>1
  <2> QED BY <2>2, <2>3
<1>5. /\ call.pc = "send" /\ call.attempt = calls[c].attempt + 1 /\ call.stage = calls[c].stage
      /\ call.request = calls[c].request /\ call.paras = calls[c].paras /\ call.occupied = calls[c].occupied
  BY <1>2 DEF CallRecords
<1> HIDE DEF call
<1>6. \E kind \in {"busy", "down", "conflict"} : call.attempt <= Retries(kind)
  <2>1. calls[c].attempt \in Nat
    BY <1>2 DEF CallRecords
  <2>2. Retries("busy") = Busy /\ Retries("down") = Down /\ Retries("lost") = Down /\ Retries("conflict") = Conflict
    BY DEF Retries
  <2>3. PICK kind \in {"busy", "down", "conflict"} : Retries(calls[c].answer.kind) = Retries(kind)
    BY <1>1, <2>2
  <2>4. Retries(kind) \in Nat
    BY <2>2, GoogleDocsAssumption
  <2>5. calls[c].attempt + 1 <= Retries(kind)
    BY <1>1, <2>1, <2>3, <2>4
  <2> QED BY <1>5, <2>5
<1>7. Staged(call, service.rev)
  BY <1>2, <1>5, <1>6 DEF Staged
<1> QED BY <1>1, <1>3, <1>4, <1>7, OnlyOneCallChanges

(* A call that has ended is in its domain and holds no answer. *)
LEMMA DoneIsTyped ==
  ASSUME NEW op \in {None, "open", "replace", "insert", "format", "lines"}, NEW pc \in {"ok", "error"},
         NEW rev \in Nat
  PROVE  LET call == [Idle EXCEPT !.op = op, !.pc = pc]
         IN call \in CallRecords /\ Staged(call, rev) /\ call.op = op /\ call.pc = pc /\ call.stage = "edit"
<1> DEFINE call == [Idle EXCEPT !.op = op, !.pc = pc]
<1>1. call \in CallRecords
  BY IdleIsTyped DEF CallRecords
<1>2. /\ call.attempt = 0 /\ call.occupied = {} /\ call.stage = "edit" /\ call.pc = pc /\ call.op = op
  BY DEF Idle
<1>3. Staged(call, rev)
  <2> HIDE DEF call
  <2> QED BY <1>1, <1>2, ResetIsStaged
<1> QED BY <1>1, <1>2, <1>3

(* A call that gives up. *)
LEMMA FailKeepsShape ==
  ASSUME Shape, NEW c \in Calls, Fail(c) PROVE Shape'
<1> DEFINE call == [Idle EXCEPT !.op = calls[c].op, !.pc = "error"]
<1>1. /\ calls' = [calls EXCEPT ![c] = call]
      /\ session' = IF calls[c].op = "open" THEN Closed ELSE session
      /\ torn' = (torn \/ (calls[c].stage = "load" /\ calls[c].op # "open"))
      /\ service' = service /\ outside' = outside /\ applied' = applied
  BY DEF Fail
<1>2. calls[c].op \in {None, "open", "replace", "insert", "format", "lines"} /\ service.rev \in Nat
      /\ WellFormed(service)' /\ service'.rev = service.rev
  BY <1>1 DEF Shape, Types, CallRecords, WellFormed, Services
<1>3. call \in CallRecords /\ Staged(call, service'.rev)
  BY <1>2, DoneIsTyped
<1>4. session' \in Sessions /\ IsFiniteSet(session'.mapping)
  BY <1>1, ClosedIsTyped DEF Shape, Types
<1>5. torn' \in BOOLEAN
  <2>1. torn \in BOOLEAN
    BY DEF Shape, Types
  <2> QED BY <1>1, <2>1
<1>6. applied' \in [Calls -> Nat] /\ service.rev <= service'.rev
  BY <1>1, <1>2 DEF Shape, Types
<1> HIDE DEF call
<1> QED BY <1>1, <1>2, <1>3, <1>4, <1>5, <1>6, OneCallChanges

(* An edit whose batch was accepted goes on to fetch the document. *)
LEMMA EditedKeepsShape ==
  ASSUME Shape, NEW c \in Calls, Edited(c) PROVE Shape'
<1> DEFINE call == IF ~Rereads(calls[c].op) THEN Done(c)
                   ELSE [calls[c] EXCEPT !.pc = "send", !.stage = "load", !.request = NoRequest,
                                         !.attempt = 0, !.answer = None]
<1>1. /\ calls[c].pc = "answer" /\ calls[c].answer.kind = "ok"
      /\ session' = [session EXCEPT !.required = calls[c].answer.rev]
      /\ calls' = [calls EXCEPT ![c] = call]
      /\ service' = service /\ outside' = outside /\ applied' = applied /\ torn' = torn
  BY DEF Edited, Received, Shape, Types
<1>2. /\ calls[c] \in CallRecords /\ Staged(calls[c], service.rev) /\ service.rev \in Nat
      /\ WellFormed(service)' /\ service'.rev = service.rev
  BY <1>1 DEF Shape, Types, WellFormed, Services
<1>3. call \in CallRecords /\ Staged(call, service.rev)
  <2>1. CASE ~Rereads(calls[c].op)
    <3>1. calls[c].op \in {None, "open", "replace", "insert", "format", "lines"}
      BY <1>2 DEF CallRecords
    <3>2. Done(c) \in CallRecords /\ Staged(Done(c), service.rev)
      BY <3>1, <1>2, DoneIsTyped DEF Done
    <3> QED BY <2>1, <3>2
  <2>2. CASE Rereads(calls[c].op)
    <3> DEFINE next == [calls[c] EXCEPT !.pc = "send", !.stage = "load", !.request = NoRequest,
                                        !.attempt = 0, !.answer = None]
    <3>1. next \in CallRecords
      BY <1>2, IdleIsTyped DEF CallRecords
    <3>2. next.pc = "send" /\ next.stage = "load" /\ next.attempt = 0 /\ next.occupied = calls[c].occupied
      <4>1. calls[c] \in CallRecords
        BY <1>2
      <4> QED BY <4>1 DEF CallRecords
    <3> HIDE DEF next
    <3>3. 0 <= Retries("busy")
      BY GoogleDocsAssumption DEF Retries
    <3>4. Staged(next, service.rev)
      BY <1>2, <3>2, <3>3 DEF Staged
    <3> QED BY <2>2, <3>1, <3>4 DEF next
  <2> QED BY <2>1, <2>2
<1>4. session' \in Sessions /\ IsFiniteSet(session'.mapping)
  <2>1. session \in Sessions /\ IsFiniteSet(session.mapping) /\ calls[c].answer.rev \in Nat
    BY <1>1, <1>2 DEF Shape, Types, Staged
  <2>2. session' \in Sessions
    BY <1>1, <2>1 DEF Sessions
  <2>3. session'.mapping = session.mapping
    BY <1>1, <2>1 DEF Sessions
  <2> QED BY <2>1, <2>2, <2>3
<1>5. torn' \in BOOLEAN /\ applied' \in [Calls -> Nat] /\ service.rev <= service'.rev
  BY <1>1, <1>2 DEF Shape, Types
<1> HIDE DEF call
<1> QED BY <1>1, <1>2, <1>3, <1>4, <1>5, OneCallChanges

(***************************************************************************)
(* injectAnchors: the paragraphs without an anchor, and their names.       *)
(***************************************************************************)
Bare(s) == Ascending({k \in DOMAIN s.cache : s.cache[k].anchor = None})
BareNames(s) == Allocate(Len(Bare(s)), Cardinality(s.mapping), NamesOf(s.mapping))

Prepared(call, s) ==
  /\ call.paras = Bare(s) /\ call.own = TRUE /\ call.occupied = NamesOf(s.mapping)
  /\ call.request = [NoRequest EXCEPT !.names =
       [i \in DOMAIN Bare(s) |-> [at |-> s.cache[Bare(s)[i]].start, name |-> BareNames(s)[i]]]]

(* Bare numbers the paragraphs without an anchor, each once. *)
LEMMA BareIsTyped ==
  ASSUME NEW s \in Sessions
  PROVE  /\ Len(Bare(s)) \in Nat
         /\ Bare(s) \in [1..Len(Bare(s)) -> {k \in DOMAIN s.cache : s.cache[k].anchor = None}]
         /\ Bare(s) \in Seq(Nat) /\ DOMAIN Bare(s) = 1..Len(Bare(s))
         /\ \A i, j \in DOMAIN Bare(s) : Bare(s)[i] = Bare(s)[j] => i = j
         /\ \A k \in DOMAIN s.cache : s.cache[k].anchor = None => \E i \in DOMAIN Bare(s) : Bare(s)[i] = k
<1> DEFINE bare == {k \in DOMAIN s.cache : s.cache[k].anchor = None}
           n == Cardinality(bare)
<1>1. s.cache \in Seq(Paragraphs)
  BY DEF Sessions
<1>2. DOMAIN s.cache = 1..Len(s.cache) /\ Len(s.cache) \in Nat
  BY <1>1
<1>3. bare \in SUBSET (1..Len(s.cache)) /\ bare \in SUBSET Nat
  BY <1>2
<1>4. IsFiniteSet(bare)
  <2>1. IsFiniteSet(1..Len(s.cache))
    BY <1>2, FS_Interval
  <2> HIDE DEF bare
  <2> QED BY <1>3, <2>1, FS_Subset
<1>5. Bare(s) = Ascending(bare)
  BY DEF Bare
<1>6. \A k \in DOMAIN s.cache : s.cache[k].anchor = None => k \in bare
  OBVIOUS
<1> HIDE DEF bare
<1>7. /\ n \in Nat /\ Bare(s) \in [1..n -> bare]
      /\ \A k \in bare : \E i \in 1..n : Bare(s)[i] = k
      /\ \A i, j \in 1..n : i < j => Bare(s)[i] < Bare(s)[j]
  BY <1>3, <1>4, <1>5, AscendingListsAll
<1> HIDE DEF n
<1>8. DOMAIN Bare(s) = 1..n /\ Len(Bare(s)) = n /\ Bare(s) \in Seq(Nat)
  <2>1. \A i \in 1..n : Bare(s)[i] \in Nat
    BY <1>3, <1>7
  <2> QED BY <1>7, <2>1
<1>9. ASSUME NEW i \in 1..n, NEW j \in 1..n, Bare(s)[i] = Bare(s)[j] PROVE i = j
  <2>1. Bare(s)[i] \in Nat /\ Bare(s)[j] \in Nat
    BY <1>3, <1>7
  <2>2. ~(i < j) /\ ~(j < i)
    BY <2>1, <1>7, <1>9
  <2> QED BY <2>2
<1> QED BY <1>6, <1>7, <1>8, <1>9 DEF bare

(* The names of a session are finitely many numbers. *)
LEMMA NamesAreTyped ==
  ASSUME NEW mapping \in SUBSET [rid : Nat, name : Nat], IsFiniteSet(mapping)
  PROVE  NamesOf(mapping) \in SUBSET Nat /\ IsFiniteSet(NamesOf(mapping)) /\ Cardinality(mapping) \in Nat
<1> DEFINE name == [m \in mapping |-> m.name]
<1>1. NamesOf(mapping) \in SUBSET Nat
  BY DEF NamesOf
<1>2. name \in Surjection(mapping, NamesOf(mapping))
  BY DEF NamesOf, Surjection
<1> QED BY <1>1, <1>2, FS_Surjection, FS_CardinalityType

(* injectAnchors gives every paragraph without an anchor a name of its own *)
(* that the session does not use.                                          *)
LEMMA BareNamesAreFree ==
  ASSUME NEW s \in Sessions, IsFiniteSet(s.mapping)
  PROVE  /\ BareNames(s) \in [1..Len(Bare(s)) -> Nat \ NamesOf(s.mapping)]
         /\ \A i, j \in 1..Len(Bare(s)) : BareNames(s)[i] = BareNames(s)[j] => i = j
<1>1. s.mapping \in SUBSET [rid : Nat, name : Nat]
  BY DEF Sessions
<1>2. /\ NamesOf(s.mapping) \in SUBSET Nat /\ IsFiniteSet(NamesOf(s.mapping))
      /\ Cardinality(s.mapping) \in Nat
  BY <1>1, NamesAreTyped
<1>3. Len(Bare(s)) \in Nat
  BY BareIsTyped
<1> QED BY <1>2, <1>3, AllocateIsFree DEF BareNames

(* The naming request fits its call.                                       *)
LEMMA InjectIsTyped ==
  ASSUME Shape, NEW c \in Calls, NEW s \in Sessions, IsFiniteSet(s.mapping), NEW rev \in Nat
  PROVE  /\ Inject(c, s) \in CallRecords
         /\ Staged(Inject(c, s), rev)
         /\ Inject(c, s).op = calls[c].op
         /\ \/ Inject(c, s).pc = "ok" /\ Inject(c, s).stage = "edit"
            \/ /\ Inject(c, s).pc = "send" /\ Inject(c, s).stage = "names"
               /\ Prepared(Inject(c, s), s)
<1>1. calls[c] \in CallRecords /\ calls[c].op \in {None, "open", "replace", "insert", "format", "lines"}
  BY DEF Shape, Types, CallRecords
<1>2. CASE Bare(s) = <<>>
  <2>1. Inject(c, s) = Done(c)
    BY <1>2 DEF Inject, Bare
  <2>2. LET call == [Idle EXCEPT !.op = calls[c].op, !.pc = "ok"]
        IN /\ call \in CallRecords /\ Staged(call, rev) /\ call.op = calls[c].op
           /\ call.pc = "ok" /\ call.stage = "edit"
    BY <1>1, DoneIsTyped
  <2> QED BY <2>1, <2>2 DEF Done
<1>3. CASE Bare(s) # <<>>
  <2> DEFINE n == Len(Bare(s))
             names == [i \in DOMAIN Bare(s) |-> [at |-> s.cache[Bare(s)[i]].start, name |-> BareNames(s)[i]]]
             request == [NoRequest EXCEPT !.names = names]
             call == [calls[c] EXCEPT
                        !.pc = "send", !.stage = "names", !.attempt = 0, !.answer = None, !.own = TRUE,
                        !.paras = Bare(s), !.occupied = NamesOf(s.mapping), !.request = request]
  <2>1. Inject(c, s) = call
    BY <1>3 DEF Inject, Bare, BareNames
  <2>2. n \in Nat /\ DOMAIN Bare(s) = 1..n /\ Bare(s) \in Seq(Nat)
    BY BareIsTyped
  <2>3. ASSUME NEW i \in 1..n
        PROVE  [at |-> s.cache[Bare(s)[i]].start, name |-> BareNames(s)[i]] \in [at : Nat, name : Nat]
    <3>1. Bare(s)[i] \in DOMAIN s.cache
      BY BareIsTyped
    <3>2. s.cache[Bare(s)[i]] \in Paragraphs
      BY <3>1 DEF Sessions
    <3>3. BareNames(s)[i] \in Nat
      BY BareNamesAreFree
    <3> QED BY <3>2, <3>3 DEF Paragraphs
  <2> DEFINE R == [at : Nat, name : Nat]
  <2>4. names \in Seq(R) /\ Len(names) = n
    <3>1. names = [i \in 1..n |-> [at |-> s.cache[Bare(s)[i]].start, name |-> BareNames(s)[i]]]
      BY <2>2
    <3>2. names \in [1..n -> R]
      BY <2>3, <3>1
    <3> HIDE DEF names, R, n
    <3> QED BY <2>2, <3>2
  <2> HIDE DEF names
  <2>5. request \in Requests /\ request.names = names
    <3>1. NoRequest \in [at : Nat, cut : Nat, put : Seq(Text), names : Seq(R)]
      BY IdleIsTyped DEF Requests
    <3>2. Requests = [at : Nat, cut : Nat, put : Seq(Text), names : Seq(R)]
      BY DEF Requests
    <3> HIDE DEF R
    <3> QED BY <2>4, <3>1, <3>2
  <2>6. NamesOf(s.mapping) \in SUBSET Nat /\ IsFiniteSet(NamesOf(s.mapping))
    <3>1. s.mapping \in SUBSET [rid : Nat, name : Nat]
      BY DEF Sessions
    <3> QED BY <3>1, NamesAreTyped
  <2> HIDE DEF request
  <2>7. call \in CallRecords
    BY <1>1, <2>2, <2>5, <2>6 DEF CallRecords
  <2>8. /\ call.pc = "send" /\ call.stage = "names" /\ call.attempt = 0 /\ call.own = TRUE
        /\ call.paras = Bare(s) /\ call.occupied = NamesOf(s.mapping) /\ call.request = request
        /\ call.op = calls[c].op
    BY <1>1 DEF CallRecords
  <2> HIDE DEF call
  <2>9. 0 <= Retries("busy")
    BY GoogleDocsAssumption DEF Retries
  <2>10. Staged(call, rev)
    BY <2>4, <2>5, <2>6, <2>8, <2>9 DEF Staged
  <2>11. Prepared(call, s)
    BY <2>8 DEF Prepared, request, names
  <2> QED BY <2>1, <2>7, <2>8, <2>10, <2>11
<1> QED BY <1>2, <1>3

(* What a fetched document makes of a session: a name for every named      *)
(* range, and those it had.                                                *)
LEMMA CachedIsTyped ==
  ASSUME NEW srv, WellFormed(srv), session \in Sessions, IsFiniteSet(session.mapping)
  PROVE  /\ Cached(srv) \in Sessions /\ IsFiniteSet(Cached(srv).mapping)
         /\ Cached(srv).open = session.open /\ Cached(srv).cache = Parse(srv)
         /\ Cached(srv).required = srv.rev
         /\ session.mapping \subseteq Cached(srv).mapping
         /\ \A m \in Cached(srv).mapping :
              m \in session.mapping \/ \E n \in srv.names : m = [rid |-> n.rid, name |-> n.name]
         /\ \A n \in srv.names : \E m \in Cached(srv).mapping : m.rid = n.rid
<1> DEFINE others == {x \in srv.names : ~\E m \in session.mapping : m.rid = x.rid}
           added == {[rid |-> n.rid, name |-> n.name] : n \in others}
<1>1. /\ srv \in Services /\ IsFiniteSet(srv.names) /\ srv.rev \in Nat /\ srv.names \in SUBSET Ranges
  BY DEF WellFormed, Services
<1>2. Parse(srv) \in Seq(Paragraphs)
  BY <1>1, ParseIsTyped
<1>3. added \in SUBSET [rid : Nat, name : Nat]
  BY <1>1 DEF Ranges
<1>4. IsFiniteSet(added)
  <2>1. others \in SUBSET srv.names
    OBVIOUS
  <2>2. IsFiniteSet(others)
    BY <1>1, <2>1, FS_Subset
  <2>3. [n \in others |-> [rid |-> n.rid, name |-> n.name]] \in Surjection(others, added)
    BY DEF Surjection
  <2> QED BY <2>2, <2>3, FS_Surjection
<1>5. Cached(srv) = [session EXCEPT !.cache = Parse(srv), !.required = srv.rev, !.mapping = @ \cup added]
  BY DEF Cached
<1>6. \A n \in srv.names : n \in others \/ \E m \in session.mapping : m.rid = n.rid
  OBVIOUS
<1>7. \A n \in others : [rid |-> n.rid, name |-> n.name] \in added
  OBVIOUS
<1>8. \A m \in added : \E n \in srv.names : m = [rid |-> n.rid, name |-> n.name]
  OBVIOUS
<1> HIDE DEF added, others
<1> DEFINE mapping == session.mapping \cup added
<1>9. mapping \in SUBSET [rid : Nat, name : Nat] /\ IsFiniteSet(mapping)
  BY <1>3, <1>4, FS_Union DEF Sessions
<1>10. Cached(srv) = [session EXCEPT !.cache = Parse(srv), !.required = srv.rev, !.mapping = mapping]
  BY <1>5
<1>11. \A m \in mapping : m \in session.mapping \/ \E n \in srv.names : m = [rid |-> n.rid, name |-> n.name]
  BY <1>8
<1>12. \A n \in srv.names : \E m \in mapping : m.rid = n.rid
  <2> SUFFICES ASSUME NEW n \in srv.names PROVE \E m \in mapping : m.rid = n.rid
    OBVIOUS
  <2>1. CASE n \in others
    <3>1. [rid |-> n.rid, name |-> n.name] \in mapping
      BY <2>1, <1>7
    <3>2. [rid |-> n.rid, name |-> n.name].rid = n.rid
      OBVIOUS
    <3> HIDE DEF mapping
    <3> QED BY <3>1, <3>2
  <2>2. CASE \E m \in session.mapping : m.rid = n.rid
    BY <2>2
  <2> QED BY <2>1, <2>2, <1>6
<1>13. session.mapping \subseteq mapping
  OBVIOUS
<1> HIDE DEF mapping
<1>14. Cached(srv) \in Sessions
  BY <1>1, <1>2, <1>9, <1>10 DEF Sessions
<1>15. /\ Cached(srv).open = session.open /\ Cached(srv).cache = Parse(srv)
       /\ Cached(srv).required = srv.rev /\ Cached(srv).mapping = mapping
  BY <1>10 DEF Sessions
<1> QED BY <1>9, <1>11, <1>12, <1>13, <1>14, <1>15

(* Opening a session changes nothing else of it. *)
LEMMA OpenedIsTyped ==
  ASSUME NEW s \in Sessions, NEW open \in BOOLEAN
  PROVE  LET t == [s EXCEPT !.open = open]
         IN /\ t \in Sessions /\ t.open = open /\ t.cache = s.cache /\ t.required = s.required
            /\ t.mapping = s.mapping
<1> DEFINE t == [s EXCEPT !.open = open]
<1>1. t \in Sessions
  BY DEF Sessions
<1>2. t.open = open /\ t.cache = s.cache /\ t.required = s.required /\ t.mapping = s.mapping
  BY DEF Sessions
<1> QED BY <1>1, <1>2

(* What a fetch's answer does to the session and to its call.              *)
LEMMA LoadedStep ==
  ASSUME Shape, NEW c \in Calls, Loaded(c)
  PROVE  LET got == calls[c].answer.got
             call == calls'[c]
         IN /\ WellFormed(got) /\ calls[c].answer.rev = got.rev /\ got.rev <= service.rev /\ got.rev \in Nat
            /\ calls[c].pc = "answer" /\ calls[c].stage \in {"load", "reload"} /\ calls[c].answer.kind = "ok"
            /\ calls' \in [Calls -> CallRecords]
            /\ session' \in Sessions /\ session'.cache = Cached(got).cache
            /\ session'.required = Cached(got).required /\ session'.mapping = Cached(got).mapping
            /\ call.op = calls[c].op /\ Staged(call, service.rev)
            /\ \/ call.pc = "ok" /\ call.stage = "edit" /\ session'.open = TRUE
               \/ /\ call.pc = "send" /\ call.stage = "names" /\ Prepared(call, session')
                  /\ session'.open = session.open /\ calls[c].stage = "load"
            /\ \A d \in Calls \ {c} : calls'[d] = [calls[d] EXCEPT !.own = FALSE]
            /\ service' = service /\ outside' = outside /\ applied' = applied /\ torn' = FALSE
<1> DEFINE got == calls[c].answer.got
           s == Cached(got)
           next == IF calls[c].stage = "load" /\ calls[c].op # "replace" THEN Inject(c, s) ELSE Done(c)
<1>1. /\ calls[c].pc = "answer" /\ calls[c].answer.kind = "ok" /\ calls[c].stage \in {"load", "reload"}
      /\ calls' = [d \in Calls |-> IF d = c THEN next ELSE [calls[d] EXCEPT !.own = FALSE]]
      /\ session' = [s EXCEPT !.open = @ \/ next.pc = "ok"]
      /\ service' = service /\ outside' = outside /\ applied' = applied /\ torn' = FALSE
  BY DEF Loaded, Received, Fetching
<1>2. /\ WellFormed(got) /\ calls[c].answer.rev = got.rev /\ got.rev <= service.rev /\ got.rev \in Nat
      /\ service.rev \in Nat
  BY <1>1 DEF Shape, Staged, Types, WellFormed, Services
<1>3. session \in Sessions /\ IsFiniteSet(session.mapping)
  BY DEF Shape, Types
<1> HIDE DEF got
<1>4. s \in Sessions /\ IsFiniteSet(s.mapping) /\ s.open = session.open
  BY <1>2, <1>3, CachedIsTyped
<1> HIDE DEF s
<1>5. calls[c].op \in {None, "open", "replace", "insert", "format", "lines"}
  BY DEF Shape, Types, CallRecords
<1>6. LET call == [Idle EXCEPT !.op = calls[c].op, !.pc = "ok"]
      IN /\ call \in CallRecords /\ Staged(call, service.rev) /\ call.op = calls[c].op
         /\ call.pc = "ok" /\ call.stage = "edit"
  BY <1>2, <1>5, DoneIsTyped
<1>7. /\ next \in CallRecords /\ Staged(next, service.rev) /\ next.op = calls[c].op
      /\ \/ next.pc = "ok" /\ next.stage = "edit"
         \/ next.pc = "send" /\ next.stage = "names" /\ Prepared(next, s) /\ calls[c].stage = "load"
  <2>1. CASE calls[c].stage = "load" /\ calls[c].op # "replace"
    <3>1. next = Inject(c, s)
      BY <2>1
    <3> QED BY <2>1, <3>1, <1>2, <1>4, InjectIsTyped
  <2>2. CASE ~(calls[c].stage = "load" /\ calls[c].op # "replace")
    <3>1. next = Done(c)
      BY <2>2
    <3> QED BY <3>1, <1>6 DEF Done
  <2> QED BY <2>1, <2>2
<1> HIDE DEF next
<1> DEFINE open == (s.open \/ next.pc = "ok")
<1>8. s.open \in BOOLEAN /\ open \in BOOLEAN
  <2>1. s.open \in BOOLEAN
    BY <1>4 DEF Sessions
  <2> QED BY <2>1
<1>9. session' = [s EXCEPT !.open = open]
  BY <1>1
<1>10. next.pc = "ok" => open = TRUE
  OBVIOUS
<1>11. next.pc = "send" => open = s.open
  BY <1>8
<1> HIDE DEF open
<1>12. /\ session' \in Sessions /\ session'.open = open /\ session'.cache = s.cache
       /\ session'.required = s.required /\ session'.mapping = s.mapping
  BY <1>4, <1>8, <1>9, OpenedIsTyped
<1>13. ASSUME Prepared(next, s) PROVE Prepared(next, session')
  <2>1. Bare(session') = Bare(s)
    BY <1>12 DEF Bare
  <2>2. BareNames(session') = BareNames(s)
    BY <2>1, <1>12 DEF BareNames
  <2> QED BY <1>12, <1>13, <2>1, <2>2 DEF Prepared
<1>14. calls' \in [Calls -> CallRecords] /\ calls'[c] = next
  <2>1. \A d \in Calls : [calls[d] EXCEPT !.own = FALSE] \in CallRecords
    BY DEF Shape, Types, CallRecords
  <2> QED BY <1>1, <1>7, <2>1
<1>15. \A d \in Calls \ {c} : calls'[d] = [calls[d] EXCEPT !.own = FALSE]
  BY <1>1
<1> QED BY <1>1, <1>2, <1>4, <1>7, <1>10, <1>11, <1>12, <1>13, <1>14, <1>15 DEF s, got

(* The answer to a fetch: the cache is filled and paragraphs without an    *)
(* anchor are to be named.                                                 *)
LEMMA LoadedKeepsShape ==
  ASSUME Shape, NEW c \in Calls, Loaded(c) PROVE Shape'
<1> DEFINE got == calls[c].answer.got
<1>1. /\ WellFormed(got) /\ calls' \in [Calls -> CallRecords]
      /\ session' \in Sessions /\ session'.mapping = Cached(got).mapping
      /\ Staged(calls'[c], service.rev)
      /\ \A d \in Calls \ {c} : calls'[d] = [calls[d] EXCEPT !.own = FALSE]
      /\ service' = service /\ outside' = outside /\ applied' = applied /\ torn' = FALSE
  BY LoadedStep
<1>2. IsFiniteSet(session'.mapping)
  BY <1>1, CachedIsTyped DEF Shape, Types
<1>3. \A d \in Calls : Staged(calls'[d], service'.rev)
  <2> SUFFICES ASSUME NEW d \in Calls PROVE Staged(calls'[d], service.rev)
    BY <1>1
  <2>1. CASE d = c
    BY <2>1, <1>1
  <2>2. CASE d # c
    <3>1. calls[d] \in CallRecords /\ Staged(calls[d], service.rev)
      BY DEF Shape, Types
    <3> DEFINE call == [calls[d] EXCEPT !.own = FALSE]
    <3>2. /\ call.attempt = calls[d].attempt /\ call.occupied = calls[d].occupied
          /\ call.stage = calls[d].stage /\ call.request = calls[d].request /\ call.paras = calls[d].paras
          /\ call.pc = calls[d].pc /\ call.answer = calls[d].answer
      BY <3>1 DEF CallRecords
    <3>3. calls'[d] = call
      BY <1>1, <2>2
    <3> HIDE DEF call
    <3>4. Staged(call, service.rev)
      BY <3>1, <3>2 DEF Staged
    <3> QED BY <3>3, <3>4
  <2> QED BY <2>1, <2>2
<1>4. WellFormed(service)' /\ outside' \in 0..MaxOutside /\ applied' \in [Calls -> Nat]
  BY <1>1 DEF Shape, Types
<1>5. torn' \in BOOLEAN
  BY <1>1
<1> QED BY <1>1, <1>2, <1>3, <1>4, <1>5 DEF Shape, Types

(* What the answer to a naming batch does to the session and to its call.  *)
GivenNames(call, mapping) == Allocate(Len(call.answer.got), Cardinality(mapping), call.occupied)

(* The names a naming batch gives are new to the document it was made for, *)
(* each given once.                                                        *)
LEMMA GivenNamesAreFree ==
  ASSUME NEW call \in CallRecords, IsFiniteSet(call.occupied), call.answer.got \in Seq(Nat),
         NEW mapping \in SUBSET [rid : Nat, name : Nat], IsFiniteSet(mapping)
  PROVE  /\ GivenNames(call, mapping) \in [1..Len(call.answer.got) -> Nat \ call.occupied]
         /\ \A i, j \in 1..Len(call.answer.got) :
              GivenNames(call, mapping)[i] = GivenNames(call, mapping)[j] => i = j
<1>1. Len(call.answer.got) \in Nat /\ call.occupied \in SUBSET Nat
  BY DEF CallRecords
<1>2. Cardinality(mapping) \in Nat
  BY FS_CardinalityType
<1> QED BY <1>1, <1>2, AllocateIsFree DEF GivenNames

(* The cache with the names the answered paragraphs were given.            *)
Patched(cache, paras, names) ==
  [k \in DOMAIN cache |->
     IF k \in Range(paras)
       THEN [cache[k] EXCEPT !.anchor = names[CHOOSE i \in DOMAIN paras : paras[i] = k]]
       ELSE cache[k]]

(* A cache with new anchors is a cache. *)
LEMMA PatchedIsTyped ==
  ASSUME NEW cache \in Seq(Paragraphs), NEW paras \in Seq(Nat), NEW names \in [1..Len(paras) -> Nat]
  PROVE  Patched(cache, paras, names) \in Seq(Paragraphs)
<1>1. DOMAIN cache = 1..Len(cache) /\ Len(cache) \in Nat /\ DOMAIN paras = 1..Len(paras)
  OBVIOUS
<1>2. ASSUME NEW k \in DOMAIN cache PROVE Patched(cache, paras, names)[k] \in Paragraphs
  <2>1. cache[k] \in Paragraphs
    OBVIOUS
  <2>2. CASE k \in Range(paras)
    <3> DEFINE i == CHOOSE i \in DOMAIN paras : paras[i] = k
    <3>1. i \in 1..Len(paras)
      BY <2>2, <1>1 DEF Range
    <3>2. names[i] \in Nat
      BY <3>1
    <3>3. Patched(cache, paras, names)[k] = [cache[k] EXCEPT !.anchor = names[i]]
      BY <2>2 DEF Patched
    <3> HIDE DEF i
    <3> QED BY <2>1, <3>2, <3>3 DEF Paragraphs
  <2>3. CASE k \notin Range(paras)
    BY <2>1, <2>3 DEF Patched
  <2> QED BY <2>2, <2>3
<1>3. Patched(cache, paras, names) = [k \in 1..Len(cache) |-> Patched(cache, paras, names)[k]]
  BY <1>1 DEF Patched
<1> QED BY <1>1, <1>2, <1>3

(* What Named does, without its definitions. *)
LEMMA NamedStep ==
  ASSUME Shape, NEW c \in Calls, Named(c)
  PROVE  LET rids == calls[c].answer.got
             names == GivenNames(calls[c], session.mapping)
             call == calls'[c]
         IN /\ calls[c].pc = "answer" /\ calls[c].stage = "names" /\ calls[c].answer.kind = "ok"
            /\ rids \in Seq(Nat) /\ Len(rids) = Len(calls[c].paras) /\ Len(rids) \in Nat
            /\ names \in [1..Len(rids) -> Nat \ calls[c].occupied]
            /\ calls[c].answer.rev \in Nat /\ calls[c].answer.rev <= service.rev
            /\ session' \in Sessions /\ IsFiniteSet(session'.mapping)
            /\ session'.open = session.open /\ session'.required = calls[c].answer.rev
            /\ session'.mapping = session.mapping \cup {[rid |-> rids[i], name |-> names[i]] : i \in 1..Len(rids)}
            /\ session'.cache = IF ~calls[c].own THEN session.cache
                                ELSE Patched(session.cache, calls[c].paras, names)
            /\ call \in CallRecords /\ calls' = [calls EXCEPT ![c] = call]
            /\ call.pc = "send" /\ call.stage = "reload" /\ call.op = calls[c].op
            /\ Staged(call, service.rev)
            /\ service' = service /\ outside' = outside /\ applied' = applied /\ torn' = torn
<1> DEFINE rids == calls[c].answer.got
           names == GivenNames(calls[c], session.mapping)
           added == {[rid |-> rids[i], name |-> names[i]] : i \in 1..Len(rids)}
           mapping == session.mapping \cup added
           cache == IF ~calls[c].own THEN session.cache ELSE Patched(session.cache, calls[c].paras, names)
           call == [calls[c] EXCEPT !.pc = "send", !.stage = "reload", !.attempt = 0,
                                    !.request = NoRequest, !.paras = <<>>, !.answer = None]
<1>1. calls[c].pc = "answer" /\ calls[c].stage = "names" /\ calls[c].answer.kind = "ok"
  BY DEF Named, Received
<1>2. /\ calls[c] \in CallRecords /\ Staged(calls[c], service.rev) /\ calls \in [Calls -> CallRecords]
      /\ session \in Sessions /\ IsFiniteSet(session.mapping) /\ service.rev \in Nat
  BY DEF Shape, Types, WellFormed, Services
<1>3. /\ rids \in Seq(Nat) /\ Len(rids) = Len(calls[c].paras) /\ Len(rids) \in Nat
      /\ calls[c].answer.rev \in Nat /\ calls[c].answer.rev <= service.rev
  BY <1>1, <1>2 DEF Staged
<1>4. DOMAIN rids = 1..Len(rids)
  BY <1>3
<1>5. session.mapping \in SUBSET [rid : Nat, name : Nat] /\ session.cache \in Seq(Paragraphs)
      /\ calls[c].paras \in Seq(Nat)
  BY <1>2 DEF Sessions, CallRecords
<1>6. names \in [1..Len(rids) -> Nat \ calls[c].occupied]
  <2>1. IsFiniteSet(calls[c].occupied)
    BY <1>2 DEF Staged
  <2> QED BY <2>1, <1>2, <1>3, <1>5, GivenNamesAreFree
<1>7. session' = [session EXCEPT !.required = calls[c].answer.rev, !.mapping = mapping, !.cache = cache]
  BY <1>4 DEF Named, GivenNames, Patched
<1>8. /\ calls' = [calls EXCEPT ![c] = call]
      /\ service' = service /\ outside' = outside /\ applied' = applied /\ torn' = torn
  BY <1>2 DEF Named
<1> HIDE DEF rids, names
<1>9. added \in SUBSET [rid : Nat, name : Nat] /\ IsFiniteSet(added)
  <2>1. \A i \in 1..Len(rids) : rids[i] \in Nat /\ names[i] \in Nat
    BY <1>3, <1>6
  <2>2. added \in SUBSET [rid : Nat, name : Nat]
    BY <2>1
  <2>3. [i \in 1..Len(rids) |-> [rid |-> rids[i], name |-> names[i]]] \in Surjection(1..Len(rids), added)
    BY DEF Surjection
  <2>4. IsFiniteSet(1..Len(rids))
    <3>1. 1 \in Int /\ Len(rids) \in Int
      BY <1>3
    <3> QED BY <3>1, FS_Interval
  <2> QED BY <2>2, <2>3, <2>4, FS_Surjection
<1> HIDE DEF added
<1>10. mapping \in SUBSET [rid : Nat, name : Nat] /\ IsFiniteSet(mapping)
  BY <1>2, <1>5, <1>9, FS_Union
<1>11. cache \in Seq(Paragraphs)
  <2>1. names \in [1..Len(calls[c].paras) -> Nat]
    BY <1>3, <1>6
  <2> QED BY <1>5, <2>1, PatchedIsTyped
<1> HIDE DEF mapping, cache
<1>12. session' \in Sessions
  BY <1>2, <1>3, <1>7, <1>10, <1>11 DEF Sessions
<1>13. /\ session'.open = session.open /\ session'.required = calls[c].answer.rev
       /\ session'.mapping = mapping /\ session'.cache = cache
  BY <1>2, <1>7 DEF Sessions
<1>14. call \in CallRecords
  <2>1. <<>> \in Seq(Nat)
    OBVIOUS
  <2> QED BY <1>2, <2>1, IdleIsTyped DEF CallRecords
<1>15. /\ call.pc = "send" /\ call.stage = "reload" /\ call.op = calls[c].op /\ call.attempt = 0
       /\ call.occupied = calls[c].occupied
  BY <1>2 DEF CallRecords
<1> HIDE DEF call
<1>16. Staged(call, service.rev)
  <2>1. 0 <= Retries("busy")
    BY GoogleDocsAssumption DEF Retries
  <2> QED BY <2>1, <1>2, <1>15 DEF Staged
<1>17. calls'[c] = call
  BY <1>2, <1>8
<1> QED BY <1>1, <1>3, <1>6, <1>8, <1>10, <1>12, <1>13, <1>14, <1>15, <1>16, <1>17
        DEF rids, names, added, mapping, cache

(* The answer to a naming batch. *)
LEMMA NamedKeepsShape ==
  ASSUME Shape, NEW c \in Calls, Named(c) PROVE Shape'
<1>1. /\ calls'[c] \in CallRecords /\ calls' = [calls EXCEPT ![c] = calls'[c]]
      /\ Staged(calls'[c], service.rev)
      /\ session' \in Sessions /\ IsFiniteSet(session'.mapping)
      /\ service' = service /\ outside' = outside /\ applied' = applied /\ torn' = torn
  BY NamedStep
<1>2. /\ WellFormed(service)' /\ service'.rev = service.rev /\ service.rev \in Nat
      /\ torn' \in BOOLEAN /\ applied' \in [Calls -> Nat]
  BY <1>1 DEF Shape, Types, WellFormed, Services
<1>3. service.rev <= service'.rev /\ Staged(calls'[c], service'.rev)
  BY <1>1, <1>2
<1> QED BY <1>1, <1>2, <1>3, OneCallChanges

(* What other people send fits the document: they type, delete or name     *)
(* where there is an item, and put no object.                              *)
OutsideRequest(r) ==
  /\ r \in Requests /\ Fits(service, r)
  /\ \A i \in DOMAIN r.put : r.put[i] # Obj
  /\ \A i, j \in DOMAIN r.names : i = j
  /\ \A i \in DOMAIN r.names : r.names[i].name \notin UsedNames

(* Another person types, deletes or names once. *)
LEMMA OutsideStep ==
  ASSUME Shape, Outside
  PROVE  /\ \E r : OutsideRequest(r) /\ service' = Applied(service, r)
         /\ outside < MaxOutside /\ outside' = outside + 1
         /\ session' = session /\ calls' = calls /\ applied' = applied /\ torn' = torn
<1> DEFINE doc == service.doc
           n == Len(doc)
           names == Allocate(1, Cardinality(service.names), UsedNames)
           typing(e, t) == [NoRequest EXCEPT !.at = StartOf(doc, e), !.put = <<t>>]
           deleting(i) == [NoRequest EXCEPT !.at = i, !.cut = 1]
           naming(e, x) == [NoRequest EXCEPT !.names = <<[at |-> StartOf(doc, e), name |-> x]>>]
<1>1. /\ WellFormed(service) /\ service \in Services /\ doc \in Seq(Items) /\ n \in Nat
      /\ DOMAIN doc = 1..n /\ IsFiniteSet(service.names) /\ service.names \in SUBSET Ranges
  BY DEF Shape, Types, WellFormed, Services
<1>2. NoRequest = [at |-> 1, cut |-> 0, put |-> <<>>, names |-> <<>>] /\ NoRequest \in Requests
  BY IdleIsTyped DEF NoRequest
<1>3. 1 \in 1..n
  <2>1. doc # <<>>
    BY <1>1 DEF WellFormed
  <2> QED BY <2>1, <1>1
<1>4. \A e \in Ends(doc) : StartOf(doc, e) \in Nat /\ StartOf(doc, e) \in 1..n
  <2> SUFFICES ASSUME NEW e \in Ends(doc) PROVE StartOf(doc, e) \in Nat /\ StartOf(doc, e) \in 1..n
    OBVIOUS
  <2>1. e \in 1..n
    BY <1>1, EndsAreFinite
  <2>2. StartOf(doc, e) \in 1..e
    BY <1>1, StartIsFirst
  <2> QED BY <1>1, <2>1, <2>2
<1>5. names \in [1..1 -> Nat \ UsedNames]
  <2>1. UsedNames \in SUBSET Nat /\ IsFiniteSet(UsedNames) /\ Cardinality(service.names) \in Nat
    <3>1. [z \in service.names |-> z.name] \in Surjection(service.names, UsedNames)
      BY DEF Surjection, UsedNames
    <3>2. UsedNames \in SUBSET Nat
      BY <1>1 DEF Ranges, UsedNames
    <3> QED BY <1>1, <3>1, <3>2, FS_Surjection, FS_CardinalityType
  <2> QED BY <2>1, AllocateIsFree
<1>6. \A x \in Range(names) : x \in Nat /\ x \notin UsedNames
  BY <1>5 DEF Range
<1>7. /\ \/ \E e \in Ends(doc), t \in Tokens : service' = Applied(service, typing(e, t))
         \/ \E i \in 1..(n - 1) : service' = Applied(service, deleting(i))
         \/ \E e \in Ends(doc), x \in Range(names) : service' = Applied(service, naming(e, x))
      /\ outside < MaxOutside /\ outside' = outside + 1
      /\ session' = session /\ calls' = calls /\ applied' = applied /\ torn' = torn
  BY Zenon DEF Outside
<1> HIDE DEF doc, n, names
<1>8. ASSUME NEW e \in Ends(doc), NEW t \in Tokens PROVE OutsideRequest(typing(e, t))
  <2>1. PICK at \in 1..n, put \in Seq(Text) : at = StartOf(doc, e) /\ put = <<t>>
    <3>1. t \in Text
      BY DEF Text
    <3>2. <<t>> \in Seq(Text)
      BY <3>1
    <3> QED BY <3>2, <1>4
  <2> DEFINE r == [NoRequest EXCEPT !.at = at, !.put = put]
  <2>2. r \in Requests
    <3>1. at \in Nat
      BY <1>1
    <3> QED BY <3>1, EditRequest
  <2>3. r.at = at /\ r.cut = 0 /\ r.names = <<>> /\ \A i \in DOMAIN r.put : r.put[i] # Obj
    <3>1. r.put = <<t>> /\ t # Obj
      BY <1>2, <2>1, GoogleDocsAssumption
    <3>2. \A i \in DOMAIN r.put : r.put[i] = t
      BY <3>1
    <3> QED BY <1>2, <3>1, <3>2
  <2> HIDE DEF r
  <2>4. r.at \in DOMAIN service.doc /\ r.at + r.cut <= Len(service.doc)
    BY <2>3, <1>1 DEF doc, n
  <2>5. OutsideRequest(r)
    BY <2>2, <2>3, <2>4 DEF Fits, OutsideRequest
  <2>6. typing(e, t) = r
    BY <2>1 DEF r
  <2> HIDE DEF typing
  <2> QED BY <2>5, <2>6
<1>9. ASSUME NEW i \in 1..(n - 1) PROVE OutsideRequest(deleting(i))
  <2> DEFINE r == deleting(i)
  <2>1. r \in Requests
    <3>1. i \in Nat /\ <<>> \in Seq(Text)
      BY <1>1
    <3> QED BY <3>1, EditRequest
  <2>2. r.at = i /\ r.cut = 1 /\ r.names = <<>> /\ DOMAIN r.put = {}
    BY <1>2
  <2> HIDE DEF deleting
  <2>3. r.at \in DOMAIN service.doc /\ r.at + r.cut <= Len(service.doc)
    BY <2>2, <1>1 DEF doc, n
  <2> QED BY <2>1, <2>2, <2>3 DEF Fits, OutsideRequest
<1>10. ASSUME NEW e \in Ends(doc), NEW x \in Range(names) PROVE OutsideRequest(naming(e, x))
  <2>1. PICK at \in 1..n, name \in Nat : at = StartOf(doc, e) /\ name = x
    BY <1>6, <1>4
  <2> DEFINE R == [at : Nat, name : Nat]
             r == naming(e, x)
  <2>2. r = [at |-> 1, cut |-> 0, put |-> <<>>, names |-> <<[at |-> at, name |-> name]>>]
    BY <2>1, <1>2
  <2>3. <<[at |-> at, name |-> name]>> \in Seq([at : Nat, name : Nat])
    <3>1. [at |-> at, name |-> name] \in R
      BY <1>1
    <3> HIDE DEF R
    <3>2. PICK z \in R : z = [at |-> at, name |-> name]
      BY <3>1
    <3>3. <<z>> \in Seq(R)
      OBVIOUS
    <3> QED BY <3>2, <3>3 DEF R
  <2> HIDE DEF naming
  <2>4. <<>> \in Seq(Text)
    OBVIOUS
  <2>5. r \in Requests
    BY <2>2, <2>3, <2>4 DEF Requests
  <2>6. r.at = 1 /\ r.cut = 0 /\ DOMAIN r.names = {1} /\ r.names[1].at = at /\ r.names[1].name = x
        /\ DOMAIN r.put = {}
    BY <2>1, <2>2
  <2>7. r.at \in DOMAIN service.doc /\ r.at + r.cut <= Len(service.doc) /\ at \in DOMAIN service.doc
    BY <2>6, <1>1, <1>3 DEF doc, n
  <2> QED BY <2>5, <2>6, <2>7, <1>6 DEF Fits, OutsideRequest
<1> HIDE DEF typing, deleting, naming
<1>11. \E r : OutsideRequest(r) /\ service' = Applied(service, r)
  BY <1>7, <1>8, <1>9, <1>10
<1> QED BY <1>7, <1>11


(* Another client's batch leaves a well-formed document. *)
LEMMA OutsideKeepsShape ==
  ASSUME Shape, Outside PROVE Shape'
<1>1. PICK r : OutsideRequest(r) /\ service' = Applied(service, r)
  BY OutsideStep
<1>2. /\ session' = session /\ calls' = calls /\ applied' = applied /\ torn' = torn
      /\ outside < MaxOutside /\ outside' = outside + 1
  BY OutsideStep
<1>3. r \in Requests /\ Fits(service, r) /\ WellFormed(service)
  BY <1>1 DEF Shape, Types, OutsideRequest
<1>4. WellFormed(Applied(service, r)) /\ Applied(service, r).rev = service.rev + 1
  BY <1>3, AppliedIsWellFormed
<1>5. WellFormed(service)' /\ service'.rev = service.rev + 1 /\ service.rev \in Nat
  BY <1>1, <1>3, <1>4 DEF WellFormed, Services
<1>6. \A c \in Calls : Staged(calls'[c], service'.rev)
  <2> SUFFICES ASSUME NEW c \in Calls PROVE Staged(calls[c], service'.rev)
    BY <1>2
  <2>1. Staged(calls[c], service.rev) /\ service.rev <= service'.rev /\ service'.rev \in Nat
    BY <1>5 DEF Shape
  <2> QED BY <2>1, <1>5, StagedLater
<1>7. outside' \in 0..MaxOutside
  BY <1>2, GoogleDocsAssumption DEF Shape, Types
<1>8. /\ session' \in Sessions /\ IsFiniteSet(session'.mapping) /\ calls' \in [Calls -> CallRecords]
      /\ applied' \in [Calls -> Nat] /\ torn' \in BOOLEAN
  BY <1>2 DEF Shape, Types
<1> QED BY <1>5, <1>6, <1>7, <1>8 DEF Shape, Types

(* A layout call that sends nothing. *)
LEMMA FormatLinesOnlyKeepsShape ==
  ASSUME Shape, NEW c \in Calls, FormatLinesOnly(c) PROVE Shape'
<1> DEFINE call == [Idle EXCEPT !.op = "lines", !.pc = "ok"]
<1>1. /\ calls' = [calls EXCEPT ![c] = call]
      /\ service' = service /\ session' = session /\ outside' = outside
      /\ applied' = applied /\ torn' = torn
  BY DEF FormatLinesOnly
<1>2. service.rev \in Nat
  BY DEF Shape, Types, WellFormed, Services
<1>3. call \in CallRecords /\ Staged(call, service.rev)
  BY <1>2, DoneIsTyped
<1> HIDE DEF call
<1>4. session' \in Sessions /\ IsFiniteSet(session'.mapping)
  BY <1>1 DEF Shape, Types
<1> QED BY <1>1, <1>3, <1>4, OnlyOneCallChanges

(* Every step keeps the shape. *)
LEMMA StepKeepsShape == Shape /\ [Next]_vars => Shape'
<1> SUFFICES ASSUME Shape, [Next]_vars PROVE Shape'
  OBVIOUS
<1>1. ASSUME NEW c \in Calls, Asks(c) PROVE Shape'
  BY <1>1, OpenKeepsShape, ReplaceTextKeepsShape, InsertParagraphKeepsShape, FormatLayoutKeepsShape,
     FormatLinesOnlyKeepsShape DEF Asks
<1>2. ASSUME NEW c \in Calls, Attempt(c) PROVE Shape'
  BY <1>2, ServeKeepsShape, FetchKeepsShape, RefuseKeepsShape DEF Attempt
<1>3. ASSUME NEW c \in Calls, Receive(c) PROVE Shape'
  BY <1>3, RetryKeepsShape, FailKeepsShape, EditedKeepsShape, LoadedKeepsShape, NamedKeepsShape DEF Receive
<1>4. CASE Close
  BY <1>4, CloseKeepsShape
<1>5. CASE Outside
  BY <1>5, OutsideKeepsShape
<1>6. CASE UNCHANGED vars
  BY <1>6 DEF vars, Shape, Types, Staged, WellFormed
<1> QED BY <1>1, <1>2, <1>3, <1>4, <1>5, <1>6 DEF Next

(* For every number of calls and every document: the service's document    *)
(* keeps ids of its own and its last newline whatever batches are applied, *)
(* every variable stays in its domain, and no call exceeds its retries.    *)
THEOREM TypeCorrectness == Spec => []TypeOK
<1>1. Shape => TypeOK
  <2> SUFFICES ASSUME Shape PROVE TypeOK
    OBVIOUS
  <2>1. /\ service.rev \in Nat /\ service.next \in Nat /\ service.doc # <<>>
        /\ service.doc[Len(service.doc)].tok = NL
        /\ \A i, j \in DOMAIN service.doc : service.doc[i].id = service.doc[j].id => i = j
    BY DEF Shape, Types, WellFormed, Services
  <2>2. Last(service.doc).tok = NL
    BY <2>1 DEF Last
  <2>3. session.required \in Nat \cup {None} /\ outside \in 0..MaxOutside /\ torn \in BOOLEAN
    BY DEF Shape, Types, Sessions
  <2>4. ASSUME NEW c \in Calls
        PROVE  /\ applied[c] \in Nat
               /\ calls[c].pc \in {"idle", "send", "answer", "ok", "error"}
               /\ calls[c].stage \in {"edit", "load", "names", "reload"}
               /\ \E kind \in {"busy", "down", "conflict"} : calls[c].attempt <= Retries(kind)
    <3>1. calls[c] \in CallRecords /\ applied[c] \in Nat /\ Staged(calls[c], service.rev)
      BY DEF Shape, Types
    <3> QED BY <3>1 DEF CallRecords, Staged
  <2> QED BY <2>1, <2>2, <2>3, <2>4 DEF TypeOK
<1> QED BY <1>1, InitShape, StepKeepsShape, PTL DEF Spec

-------------------------------------------------------------------------------
(***************************************************************************)
(* Calls that never overlap.  What follows is for tools that are called    *)
(* one after the other: Overlap is FALSE.  Steps are stated by what they   *)
(* do to the call that takes them; the others have ended or not begun.     *)
(***************************************************************************)
Waits(call) == call.pc \in {"send", "answer"}
Succeeded(call) == call.pc = "answer" /\ call.answer.kind = "ok"

OthersRest(c) ==
  \A d \in Calls \ {c} : /\ ~Waits(calls[d])
                         /\ calls'[d].pc = calls[d].pc /\ calls'[d].op = calls[d].op
                         /\ applied'[d] = applied[d]

SameCall(c) ==
  /\ calls'[c].op = calls[c].op /\ calls'[c].stage = calls[c].stage
  /\ calls'[c].request = calls[c].request /\ calls'[c].paras = calls[c].paras
  /\ calls'[c].own = calls[c].own /\ calls'[c].occupied = calls[c].occupied
  /\ calls'[c].aim = calls[c].aim /\ calls'[c].find = calls[c].find

(* Open, ReplaceText, InsertParagraph and FormatLayout, when it sends.     *)
Began(c) ==
  /\ Asks(c)
  /\ calls[c].pc = "idle" /\ calls'[c].pc = "send"
  /\ \/ calls'[c].op = "open" /\ calls'[c].stage = "load" /\ session' = Closed
     \/ /\ calls'[c].op \in {"replace", "insert", "format"} /\ calls'[c].stage = "edit" /\ session' = session
        /\ calls'[c].request.names = <<>>
        /\ calls'[c].op = "format" => calls'[c].request.cut = 0 /\ calls'[c].request.put = <<>>
  /\ service' = service /\ torn' = torn /\ applied' = applied

(* FormatLinesOnly, whose call is answered at once.                        *)
Skipped(c) ==
  /\ calls[c].pc = "idle" /\ calls'[c].pc = "ok" /\ calls'[c].op = "lines"
  /\ service' = service /\ session' = session /\ torn' = torn /\ applied' = applied

(* Refuse and Retry.                                                       *)
Waited(c) ==
  /\ Waits(calls[c]) /\ ~Succeeded(calls[c])
  /\ Waits(calls'[c]) /\ ~Succeeded(calls'[c]) /\ SameCall(c)
  /\ service' = service /\ session' = session /\ torn' = torn /\ applied' = applied

(* Serve.                                                                  *)
Served(c) ==
  /\ calls[c].pc = "send" /\ calls[c].stage \in {"edit", "names"}
  /\ session.required = service.rev /\ Fits(service, calls[c].request)
  /\ service' = Applied(service, calls[c].request)
  /\ SameCall(c) /\ calls'[c].pc = "answer" /\ calls'[c].answer.rev = service.rev + 1
  /\ calls'[c].answer.got = [i \in DOMAIN calls[c].request.names |->
                               service.next + Len(calls[c].request.put) + i]
  /\ applied'[c] = IF calls[c].stage = "edit" THEN applied[c] + 1 ELSE applied[c]
  /\ session' = session /\ torn' = torn

(* Fetch.                                                                  *)
Fetched(c) ==
  /\ calls[c].pc = "send" /\ calls[c].stage \in {"load", "reload"}
  /\ SameCall(c) /\ calls'[c].pc = "answer" /\ calls'[c].answer.kind = "ok"
  /\ calls'[c].answer.rev = service.rev /\ calls'[c].answer.got = service
  /\ service' = service /\ session' = session /\ torn' = torn /\ applied' = applied

(* Fail.                                                                   *)
Failed(c) ==
  /\ Waits(calls[c]) /\ ~Succeeded(calls[c])
  /\ calls'[c].pc = "error" /\ calls'[c].op = calls[c].op
  /\ session' = IF calls[c].op = "open" THEN Closed ELSE session
  /\ torn' = (torn \/ (calls[c].stage = "load" /\ calls[c].op # "open"))
  /\ service' = service /\ applied' = applied

(* Edited.                                                                 *)
EditDone(c) ==
  /\ Succeeded(calls[c]) /\ calls[c].stage = "edit" /\ calls'[c].op = calls[c].op
  /\ \/ calls[c].op = "format" /\ calls'[c].pc = "ok"
     \/ calls[c].op # "format" /\ calls'[c].pc = "send" /\ calls'[c].stage = "load"
  /\ session'.required = calls[c].answer.rev
  /\ session'.cache = session.cache /\ session'.mapping = session.mapping
  /\ service' = service /\ torn' = torn /\ applied' = applied

(* Loaded.                                                                 *)
LoadDone(c) ==
  /\ Succeeded(calls[c]) /\ calls[c].stage \in {"load", "reload"} /\ calls'[c].op = calls[c].op
  /\ WellFormed(calls[c].answer.got) /\ calls[c].answer.rev = calls[c].answer.got.rev
  /\ \/ calls'[c].pc = "ok"
     \/ calls'[c].pc = "send" /\ calls'[c].stage = "names" /\ Prepared(calls'[c], session')
  /\ session'.cache = Parse(calls[c].answer.got) /\ session'.required = calls[c].answer.got.rev
  /\ session'.mapping = Cached(calls[c].answer.got).mapping
  /\ service' = service /\ torn' = FALSE /\ applied' = applied

(* Named.                                                                  *)
NameDone(c) ==
  LET rids == calls[c].answer.got
      names == GivenNames(calls[c], session.mapping)
  IN /\ Succeeded(calls[c]) /\ calls[c].stage = "names" /\ calls'[c].op = calls[c].op
     /\ calls'[c].pc = "send" /\ calls'[c].stage = "reload"
     /\ Len(rids) \in Nat /\ rids \in Seq(Nat)
     /\ session'.required = calls[c].answer.rev
     /\ session'.mapping = session.mapping \cup {[rid |-> rids[i], name |-> names[i]] : i \in 1..Len(rids)}
     /\ session'.cache = IF ~calls[c].own THEN session.cache
                         ELSE Patched(session.cache, calls[c].paras, names)
     /\ service' = service /\ torn' = torn /\ applied' = applied

CallStep(c) ==
  OthersRest(c) /\ (Began(c) \/ Skipped(c) \/ Waited(c) \/ Served(c) \/ Fetched(c) \/ Failed(c)
                    \/ EditDone(c) \/ LoadDone(c) \/ NameDone(c))

Closing ==
  /\ \A c \in Calls : ~Waits(calls[c])
  /\ session' = Closed /\ torn' = FALSE /\ service' = service /\ calls' = calls /\ applied' = applied

ByOthers ==
  /\ \E r : OutsideRequest(r) /\ service' = Applied(service, r)
  /\ session' = session /\ calls' = calls /\ applied' = applied /\ torn' = torn

OneAtATime == \A c, d \in Calls : Waits(calls[c]) /\ Waits(calls[d]) => c = d

(* An edit names no range, and a layout edit changes no text.              *)
EditsAreBare(call) ==
  Waits(call) /\ call.stage = "edit" =>
    /\ call.op # "open" /\ call.request.names = <<>>
    /\ call.op = "format" => call.request.cut = 0 /\ call.request.put = <<>>

Serial ==
  /\ OneAtATime
  /\ session.required \in Nat => session.required <= service.rev
  /\ \A c \in Calls : EditsAreBare(calls[c])


(* A call is waiting just if it is neither idle nor has ended.             *)
LEMMA WaitingIsActive ==
  ASSUME Shape, NEW c \in Calls
  PROVE  Active(c) <=> Waits(calls[c])
<1>1. calls[c].pc \in {"idle", "send", "answer", "ok", "error"}
  BY DEF Shape, Types, CallRecords
<1> QED BY <1>1 DEF Active, Waits

(* The call that steps is the only one under way.                          *)
LEMMA OthersAreResting ==
  ASSUME Shape, NEW c \in Calls, NEW call, calls' = [calls EXCEPT ![c] = call],
         \A d \in Calls \ {c} : ~Waits(calls[d]) /\ applied'[d] = applied[d]
  PROVE  OthersRest(c) /\ calls'[c] = call
<1>1. calls \in [Calls -> CallRecords]
  BY DEF Shape, Types
<1> QED BY <1>1 DEF OthersRest

(* A call that begins finds no other under way. *)
LEMMA BeginStep ==
  ASSUME Shape, NEW c \in Calls, NEW op, NEW stage, NEW aim, NEW find, NEW request,
         MayBegin(c), ~Overlap, Begin(c, op, stage, aim, find, request), applied' = applied
  PROVE  /\ OthersRest(c) /\ calls[c].pc = "idle"
         /\ calls'[c].pc = "send" /\ calls'[c].op = op /\ calls'[c].stage = stage
         /\ calls'[c].request = request
<1> DEFINE call == [Idle EXCEPT !.op = op, !.pc = "send", !.stage = stage,
                                !.aim = aim, !.find = find, !.request = request]
<1>1. call.pc = "send" /\ call.op = op /\ call.stage = stage /\ call.request = request
  BY DEF Idle
<1>2. calls' = [calls EXCEPT ![c] = call]
  BY DEF Begin
<1>3. calls[c].pc = "idle" /\ \A d \in Calls : ~Waits(calls[d])
  BY WaitingIsActive DEF MayBegin
<1> HIDE DEF call
<1> QED BY <1>1, <1>2, <1>3, OthersAreResting

(* The steps in which a call begins, is served, is refused or waits. *)
LEMMA AsksIsAStep ==
  ASSUME Shape, ~Overlap, NEW c \in Calls, Asks(c)
  PROVE  CallStep(c)
<1>0. NoRequest = [at |-> 1, cut |-> 0, put |-> <<>>, names |-> <<>>]
  BY DEF NoRequest
<1>1. CASE Open(c)
  <2>1. MayBegin(c) /\ Begin(c, "open", "load", None, None, NoRequest) /\ session' = Closed
        /\ service' = service /\ applied' = applied /\ torn' = torn
    BY <1>1 DEF Open
  <2>2. /\ OthersRest(c) /\ calls[c].pc = "idle"
        /\ calls'[c].pc = "send" /\ calls'[c].op = "open" /\ calls'[c].stage = "load"
    BY <2>1, BeginStep
  <2> QED BY <2>1, <2>2 DEF CallStep, Began
<1>2. ASSUME NEW op \in {"replace", "insert", "format"}, NEW aim, NEW find, NEW request,
             MayBegin(c), Begin(c, op, "edit", aim, find, request), request.names = <<>>,
             op = "format" => request.cut = 0 /\ request.put = <<>>,
             UNCHANGED <<service, session, applied, torn>>
      PROVE  CallStep(c)
  <2>1. /\ OthersRest(c) /\ calls[c].pc = "idle"
        /\ calls'[c].pc = "send" /\ calls'[c].op = op /\ calls'[c].stage = "edit"
        /\ calls'[c].request = request
    BY <1>2, BeginStep
  <2> QED BY <1>2, <2>1 DEF CallStep, Began
<1>3. CASE ReplaceText(c)
  <2>1. PICK aim, find, at, put :
          Begin(c, "replace", "edit", aim, find, [NoRequest EXCEPT !.at = at, !.cut = 1, !.put = put])
    BY <1>3 DEF ReplaceText
  <2> DEFINE request == [NoRequest EXCEPT !.at = at, !.cut = 1, !.put = put]
  <2>2. request.names = <<>>
    BY <1>0
  <2>3. MayBegin(c) /\ UNCHANGED <<service, session, applied, torn>>
    BY <1>3 DEF ReplaceText
  <2>4. Begin(c, "replace", "edit", aim, find, request)
    BY <2>1
  <2> HIDE DEF request
  <2> QED BY <1>2, <2>2, <2>3, <2>4
<1>4. CASE InsertParagraph(c)
  <2>1. PICK aim, find, at, put :
          Begin(c, "insert", "edit", aim, find, [NoRequest EXCEPT !.at = at, !.put = put])
    BY <1>4 DEF InsertParagraph
  <2> DEFINE request == [NoRequest EXCEPT !.at = at, !.put = put]
  <2>2. request.names = <<>>
    BY <1>0
  <2>3. MayBegin(c) /\ UNCHANGED <<service, session, applied, torn>>
    BY <1>4 DEF InsertParagraph
  <2>4. Begin(c, "insert", "edit", aim, find, request)
    BY <2>1
  <2> HIDE DEF request
  <2> QED BY <1>2, <2>2, <2>3, <2>4
<1>5. CASE FormatLayout(c)
  <2>1. PICK aim, at : Begin(c, "format", "edit", aim, None, [NoRequest EXCEPT !.at = at])
    BY <1>5 DEF FormatLayout
  <2> DEFINE request == [NoRequest EXCEPT !.at = at]
  <2>2. request.names = <<>> /\ request.cut = 0 /\ request.put = <<>>
    BY <1>0
  <2>3. MayBegin(c) /\ UNCHANGED <<service, session, applied, torn>>
    BY <1>5 DEF FormatLayout
  <2>4. Begin(c, "format", "edit", aim, None, request)
    BY <2>1
  <2> HIDE DEF request
  <2> QED BY <1>2, <2>2, <2>3, <2>4
<1>6. CASE FormatLinesOnly(c)
  <2> DEFINE call == [Idle EXCEPT !.op = "lines", !.pc = "ok"]
  <2>1. /\ MayBegin(c) /\ calls' = [calls EXCEPT ![c] = call]
        /\ service' = service /\ session' = session /\ applied' = applied /\ torn' = torn
    BY <1>6 DEF FormatLinesOnly
  <2>2. call.pc = "ok" /\ call.op = "lines"
    BY DEF Idle
  <2>3. calls[c].pc = "idle" /\ \A d \in Calls : ~Waits(calls[d])
    BY <2>1, WaitingIsActive DEF MayBegin
  <2> HIDE DEF call
  <2>4. OthersRest(c) /\ calls'[c] = call
    BY <2>1, <2>3, OthersAreResting
  <2> QED BY <2>1, <2>2, <2>3, <2>4 DEF CallStep, Skipped
<1> QED BY <1>1, <1>3, <1>4, <1>5, <1>6 DEF Asks

(* The answers a call may get.                                             *)
LEMMA AttemptIsAStep ==
  ASSUME Shape, Serial, NEW c \in Calls, Attempt(c)
  PROVE  CallStep(c)
<1>0. /\ calls[c] \in CallRecords /\ calls \in [Calls -> CallRecords] /\ applied \in [Calls -> Nat]
      /\ service.rev \in Nat /\ service \in Services
  BY DEF Shape, Types, WellFormed, Services
<1>1. calls[c].pc = "send" /\ \A d \in Calls \ {c} : ~Waits(calls[d])
  <2>1. calls[c].pc = "send"
    BY DEF Attempt, Serve, Fetch, Refuse, Sending
  <2> QED BY <2>1 DEF Serial, OneAtATime, Waits
<1>2. ASSUME NEW kind \in Kinds, NEW rev \in Nat \cup {None}, NEW got \in {None} \cup Seq(Nat) \cup Services,
             Answered(c, kind, rev, got), \A d \in Calls \ {c} : applied'[d] = applied[d]
      PROVE  /\ OthersRest(c) /\ SameCall(c)
             /\ calls'[c].pc = "answer" /\ calls'[c].answer.kind = kind /\ calls'[c].answer.rev = rev
             /\ calls'[c].answer.got = got
  <2>1. PICK call \in CallRecords :
          /\ calls' = [calls EXCEPT ![c] = call]
          /\ call.pc = "answer" /\ call.answer = [kind |-> kind, rev |-> rev, got |-> got]
          /\ call.answer \in Answers
          /\ call.op = calls[c].op /\ call.stage = calls[c].stage
          /\ call.request = calls[c].request /\ call.attempt = calls[c].attempt
          /\ call.paras = calls[c].paras /\ call.own = calls[c].own
          /\ call.occupied = calls[c].occupied
          /\ call.aim = calls[c].aim /\ call.find = calls[c].find
    BY <1>2, AnsweredCall
  <2>2. OthersRest(c) /\ calls'[c] = call
    BY <1>1, <1>2, <2>1, OthersAreResting
  <2> QED BY <2>1, <2>2 DEF SameCall
<1>3. ASSUME NEW kind \in {"ok", "lost"}, Serve(c, kind) PROVE CallStep(c)
  <2> DEFINE r == calls[c].request
             got == [i \in DOMAIN r.names |-> service.next + Len(r.put) + i]
  <2>1. /\ calls[c].stage \in {"edit", "names"} /\ session.required = service.rev /\ Fits(service, r)
        /\ service' = Applied(service, r) /\ Answered(c, kind, service.rev + 1, got)
        /\ applied' = IF calls[c].stage = "edit" THEN [applied EXCEPT ![c] = @ + 1] ELSE applied
        /\ session' = session /\ torn' = torn
    <3>1. calls[c].stage \in {"edit", "load", "names", "reload"}
      BY <1>0 DEF CallRecords
    <3> QED BY <1>3, <3>1 DEF Serve, Fetching, Accepted
  <2>2. /\ \A d \in Calls \ {c} : applied'[d] = applied[d]
        /\ applied'[c] = IF calls[c].stage = "edit" THEN applied[c] + 1 ELSE applied[c]
    BY <1>0, <2>1
  <2>3. got \in Seq(Nat)
    <3>1. r \in Requests
      BY <1>0 DEF CallRecords
    <3>2. r.names \in Seq([at : Nat, name : Nat]) /\ r.put \in Seq(Text)
      BY <3>1 DEF Requests
    <3>3. DOMAIN r.names = 1..Len(r.names) /\ Len(r.names) \in Nat /\ Len(r.put) \in Nat
      BY <3>2
    <3>4. service.next \in Nat
      BY <1>0 DEF Services
    <3>5. got = [i \in 1..Len(r.names) |-> service.next + Len(r.put) + i]
      BY <3>3
    <3>6. \A i \in 1..Len(r.names) : service.next + Len(r.put) + i \in Nat
      BY <3>3, <3>4
    <3> HIDE DEF got
    <3> QED BY <3>3, <3>5, <3>6
  <2> HIDE DEF got
  <2>4. kind \in Kinds /\ service.rev + 1 \in Nat \cup {None} /\ got \in {None} \cup Seq(Nat) \cup Services
    BY <1>0, <2>3 DEF Kinds
  <2>5. /\ OthersRest(c) /\ SameCall(c)
        /\ calls'[c].pc = "answer" /\ calls'[c].answer.rev = service.rev + 1
        /\ calls'[c].answer.got = got
    BY <1>2, <2>1, <2>2, <2>4
  <2> QED BY <1>1, <2>1, <2>2, <2>5 DEF CallStep, Served, got
<1>4. CASE Fetch(c)
  <2>1. /\ calls[c].stage \in {"load", "reload"} /\ Answered(c, "ok", service.rev, service)
        /\ service' = service /\ session' = session /\ torn' = torn /\ applied' = applied
    BY <1>4 DEF Fetch, Fetching
  <2>2. "ok" \in Kinds /\ service.rev \in Nat \cup {None} /\ service \in {None} \cup Seq(Nat) \cup Services
    BY <1>0 DEF Kinds
  <2>3. /\ OthersRest(c) /\ SameCall(c)
        /\ calls'[c].pc = "answer" /\ calls'[c].answer.kind = "ok" /\ calls'[c].answer.rev = service.rev
        /\ calls'[c].answer.got = service
    BY <1>2, <2>1, <2>2
  <2> QED BY <1>1, <2>1, <2>3 DEF CallStep, Fetched
<1>5. ASSUME NEW kind \in {"busy", "down", "conflict", "refused"}, Refuse(c, kind) PROVE CallStep(c)
  <2>1. /\ Answered(c, kind, None, None)
        /\ service' = service /\ session' = session /\ torn' = torn /\ applied' = applied
    BY <1>5 DEF Refuse
  <2>2. kind \in Kinds /\ None \in Nat \cup {None} /\ None \in {None} \cup Seq(Nat) \cup Services
    BY DEF Kinds
  <2>3. /\ OthersRest(c) /\ SameCall(c)
        /\ calls'[c].pc = "answer" /\ calls'[c].answer.kind = kind
    BY <1>2, <2>1, <2>2
  <2> QED BY <1>1, <1>5, <2>1, <2>3 DEF CallStep, Waited, Waits, Succeeded
<1> QED BY <1>3, <1>4, <1>5 DEF Attempt

(* What a call does with its answer.                                       *)
LEMMA ReceiveIsAStep ==
  ASSUME Shape, Serial, NEW c \in Calls, Receive(c)
  PROVE  CallStep(c)
<1>0. calls[c] \in CallRecords /\ calls \in [Calls -> CallRecords]
  BY DEF Shape, Types
<1>1. calls[c].pc = "answer" /\ \A d \in Calls \ {c} : ~Waits(calls[d])
  <2>1. calls[c].pc = "answer"
    BY DEF Receive, Retry, Fail, Edited, Loaded, Named, Received
  <2> QED BY <2>1 DEF Serial, OneAtATime, Waits
<1>2. CASE Retry(c)
  <2> DEFINE call == [calls[c] EXCEPT !.pc = "send", !.attempt = @ + 1, !.answer = None]
  <2>1. /\ calls[c].answer.kind \in {"busy", "down", "lost", "conflict"}
        /\ service' = service /\ session' = session /\ torn' = torn /\ applied' = applied
    BY <1>2 DEF Retry, Received
  <2>2. calls' = [calls EXCEPT ![c] = call]
    BY <1>0, <1>2 DEF Retry
  <2>3. /\ call.pc = "send" /\ call.op = calls[c].op /\ call.stage = calls[c].stage
        /\ call.request = calls[c].request /\ call.paras = calls[c].paras
        /\ call.own = calls[c].own /\ call.occupied = calls[c].occupied
        /\ call.aim = calls[c].aim /\ call.find = calls[c].find
    BY <1>0 DEF CallRecords
  <2> HIDE DEF call
  <2>4. OthersRest(c) /\ calls'[c] = call
    BY <1>1, <2>1, <2>2, OthersAreResting
  <2> QED BY <1>1, <2>1, <2>3, <2>4 DEF CallStep, Waited, SameCall, Waits, Succeeded
<1>3. CASE Fail(c)
  <2> DEFINE call == [Idle EXCEPT !.op = calls[c].op, !.pc = "error"]
  <2>1. /\ calls' = [calls EXCEPT ![c] = call]
        /\ calls[c].answer.kind \in {"busy", "down", "lost", "conflict", "refused"}
        /\ session' = IF calls[c].op = "open" THEN Closed ELSE session
        /\ torn' = (torn \/ (calls[c].stage = "load" /\ calls[c].op # "open"))
        /\ service' = service /\ applied' = applied
    BY <1>3 DEF Fail, Received
  <2>2. call.pc = "error" /\ call.op = calls[c].op
    BY DEF Idle
  <2> HIDE DEF call
  <2>3. OthersRest(c) /\ calls'[c] = call
    BY <1>1, <2>1, OthersAreResting
  <2> QED BY <1>1, <2>1, <2>2, <2>3 DEF CallStep, Failed, Waits, Succeeded
<1>4. CASE Edited(c)
  <2> DEFINE again == [calls[c] EXCEPT !.pc = "send", !.stage = "load", !.request = NoRequest,
                                       !.attempt = 0, !.answer = None]
             call == IF ~Rereads(calls[c].op) THEN Done(c) ELSE again
  <2>1. /\ calls[c].answer.kind = "ok" /\ calls[c].stage = "edit"
        /\ session' = [session EXCEPT !.required = calls[c].answer.rev]
        /\ calls' = [calls EXCEPT ![c] = call]
        /\ service' = service /\ applied' = applied /\ torn' = torn
    BY <1>0, <1>4 DEF Edited, Received
  <2>2. again.pc = "send" /\ again.stage = "load" /\ again.op = calls[c].op
    BY <1>0 DEF CallRecords
  <2>3. Done(c).pc = "ok" /\ Done(c).op = calls[c].op
    BY DEF Done, Idle
  <2>4. /\ session'.required = calls[c].answer.rev
        /\ session'.cache = session.cache /\ session'.mapping = session.mapping
    <3>1. session \in Sessions
      BY DEF Shape, Types
    <3> QED BY <2>1, <3>1 DEF Sessions
  <2> HIDE DEF again, call
  <2>5. OthersRest(c) /\ calls'[c] = call
    BY <1>1, <2>1, OthersAreResting
  <2>6. CASE calls[c].op = "format"
    <3>1. call = Done(c)
      BY <2>6 DEF call, Rereads
    <3> QED BY <1>1, <2>1, <2>3, <2>4, <2>5, <2>6, <3>1 DEF CallStep, EditDone, Succeeded
  <2>7. CASE calls[c].op # "format"
    <3>1. call = again
      BY <2>7 DEF call, Rereads
    <3> QED BY <1>1, <2>1, <2>2, <2>4, <2>5, <2>7, <3>1 DEF CallStep, EditDone, Succeeded
  <2> QED BY <2>6, <2>7
<1>5. CASE Loaded(c)
  <2> DEFINE got == calls[c].answer.got
  <2>1. /\ WellFormed(got) /\ calls[c].answer.rev = got.rev
        /\ calls[c].pc = "answer" /\ calls[c].stage \in {"load", "reload"} /\ calls[c].answer.kind = "ok"
        /\ session'.cache = Cached(got).cache
        /\ session'.required = Cached(got).required /\ session'.mapping = Cached(got).mapping
        /\ calls'[c].op = calls[c].op
        /\ \/ calls'[c].pc = "ok"
           \/ calls'[c].pc = "send" /\ calls'[c].stage = "names" /\ Prepared(calls'[c], session')
        /\ \A d \in Calls \ {c} : calls'[d] = [calls[d] EXCEPT !.own = FALSE]
        /\ service' = service /\ applied' = applied /\ torn' = FALSE
    BY <1>5, LoadedStep
  <2> HIDE DEF got
  <2>2. Cached(got).cache = Parse(got) /\ Cached(got).required = got.rev
    BY <2>1, CachedIsTyped DEF Shape, Types
  <2>3. OthersRest(c)
    <3> SUFFICES ASSUME NEW d \in Calls \ {c}
                 PROVE  calls'[d].pc = calls[d].pc /\ calls'[d].op = calls[d].op
      BY <1>1, <2>1 DEF OthersRest
    <3>1. calls[d] \in CallRecords
      BY <1>0
    <3>2. [calls[d] EXCEPT !.own = FALSE].pc = calls[d].pc /\ [calls[d] EXCEPT !.own = FALSE].op = calls[d].op
      BY <3>1 DEF CallRecords
    <3> QED BY <2>1, <3>2
  <2>4. LoadDone(c)
    BY <2>1, <2>2 DEF LoadDone, Succeeded, got
  <2> QED BY <2>3, <2>4 DEF CallStep
<1>6. CASE Named(c)
  <2> DEFINE rids == calls[c].answer.got
             names == GivenNames(calls[c], session.mapping)
  <2>1. /\ calls[c].pc = "answer" /\ calls[c].stage = "names" /\ calls[c].answer.kind = "ok"
        /\ rids \in Seq(Nat) /\ Len(rids) \in Nat
        /\ session'.required = calls[c].answer.rev
        /\ session'.mapping = session.mapping \cup {[rid |-> rids[i], name |-> names[i]] : i \in 1..Len(rids)}
        /\ session'.cache = IF ~calls[c].own THEN session.cache
                            ELSE Patched(session.cache, calls[c].paras, names)
        /\ calls' = [calls EXCEPT ![c] = calls'[c]]
        /\ calls'[c].pc = "send" /\ calls'[c].stage = "reload" /\ calls'[c].op = calls[c].op
        /\ service' = service /\ applied' = applied /\ torn' = torn
    BY <1>6, NamedStep
  <2>2. OthersRest(c)
    BY <1>1, <2>1, OthersAreResting
  <2>3. NameDone(c)
    BY <2>1 DEF NameDone, Succeeded
  <2> QED BY <2>2, <2>3 DEF CallStep
<1> QED BY <1>2, <1>3, <1>4, <1>5, <1>6 DEF Receive

(* When calls do not overlap, every step is that of the one call under     *)
(* way, the closing of the session, or another client's.                   *)
LEMMA StepsWithoutOverlap ==
  ASSUME Shape, Serial, ~Overlap, Next
  PROVE  (\E c \in Calls : CallStep(c)) \/ Closing \/ ByOthers
<1>1. CASE Close
  BY <1>1, WaitingIsActive DEF Close, Closing
<1>2. CASE Outside
  BY <1>2, OutsideStep DEF ByOthers
<1> QED BY <1>1, <1>2, AsksIsAStep, AttemptIsAStep, ReceiveIsAStep DEF Next

(* No call is under way in the first state. *)
LEMMA InitSerial == Init => Serial
<1> SUFFICES ASSUME Init PROVE Serial
  OBVIOUS
<1>1. \A c \in Calls : ~Waits(calls[c])
  BY DEF Init, Idle, Waits
<1>2. session.required \notin Nat
  BY GoogleDocsAssumption DEF Init, Closed
<1> QED BY <1>1, <1>2 DEF Serial, OneAtATime, EditsAreBare

(* The document after a batch: the revision, and the names it leaves.      *)
LEMMA ServedService ==
  ASSUME Shape, NEW c \in Calls, Served(c)
  PROVE  /\ WellFormed(service) /\ WellFormed(service') /\ calls[c].request \in Requests
         /\ service.rev \in Nat /\ service'.rev = service.rev + 1 /\ service'.rev \in Nat
<1>1. WellFormed(service) /\ calls[c].request \in Requests /\ service.rev \in Nat
  BY DEF Shape, Types, CallRecords, WellFormed, Services
<1>2. Fits(service, calls[c].request) /\ service' = Applied(service, calls[c].request)
  BY DEF Served
<1>3. WellFormed(service') /\ service'.rev = service.rev + 1
  BY <1>1, <1>2, AppliedIsWellFormed
<1> QED BY <1>1, <1>3

(* Other people's batches move the revision on by one. *)
LEMMA ByOthersService ==
  ASSUME Shape, ByOthers
  PROVE  /\ WellFormed(service) /\ WellFormed(service')
         /\ service.rev \in Nat /\ service'.rev = service.rev + 1 /\ service'.rev \in Nat
<1>1. PICK r \in Requests : Fits(service, r) /\ service' = Applied(service, r)
  BY DEF ByOthers, OutsideRequest
<1>2. WellFormed(service) /\ service.rev \in Nat
  BY DEF Shape, Types, WellFormed, Services
<1>3. WellFormed(service') /\ service'.rev = service.rev + 1
  BY <1>1, <1>2, AppliedIsWellFormed
<1> QED BY <1>2, <1>3

(* A call that succeeded got a revision of the document.                   *)
LEMMA SucceededAnswer ==
  ASSUME Shape, NEW c \in Calls, Succeeded(calls[c])
  PROVE  /\ calls[c].answer.rev \in Nat /\ calls[c].answer.rev <= service.rev
         /\ service.rev \in Nat
         /\ calls[c].stage \in {"load", "reload"} =>
              WellFormed(calls[c].answer.got) /\ calls[c].answer.rev = calls[c].answer.got.rev
         /\ calls[c].stage = "names" =>
              calls[c].answer.got \in Seq(Nat) /\ Len(calls[c].answer.got) = Len(calls[c].paras)
BY DEF Shape, Types, Staged, Succeeded, WellFormed, Services

(* Every step leaves at most one call under way, and a session that        *)
(* requires no revision the document has not had.                          *)
LEMMA StepKeepsSerial ==
  ASSUME Shape, Serial, ~Overlap, [Next]_vars
  PROVE  Serial'
<1>0. service.rev \in Nat /\ session.required \in Nat \cup {None}
  BY DEF Shape, Types, WellFormed, Services, Sessions
<1>1. ASSUME NEW c \in Calls, OthersRest(c), EditsAreBare(calls'[c]),
             session'.required \in Nat => session'.required <= service'.rev
      PROVE  Serial'
  BY <1>1 DEF Serial, OneAtATime, EditsAreBare, OthersRest, Waits
<1>2. Closed.required \notin Nat
  BY GoogleDocsAssumption DEF Closed
<1>3. session.required \in Nat => session.required <= service.rev
  BY DEF Serial
<1>4. ASSUME NEW c \in Calls, CallStep(c) PROVE Serial'
  <2>0. OthersRest(c) /\ EditsAreBare(calls[c])
    BY <1>4 DEF CallStep, Serial
  <2>1. CASE Began(c)
    <3>1. EditsAreBare(calls'[c])
      BY <2>1 DEF Began, EditsAreBare
    <3>2. session'.required \in Nat => session'.required <= service'.rev
      BY <2>1, <1>2, <1>3 DEF Began
    <3> QED BY <1>1, <2>0, <3>1, <3>2
  <2>9. CASE Skipped(c)
    <3>1. EditsAreBare(calls'[c])
      BY <2>9 DEF Skipped, EditsAreBare, Waits
    <3>2. session'.required \in Nat => session'.required <= service'.rev
      BY <2>9, <1>3 DEF Skipped
    <3> QED BY <1>1, <2>0, <3>1, <3>2
  <2>2. CASE Waited(c)
    <3>1. EditsAreBare(calls'[c])
      BY <2>0, <2>2 DEF Waited, EditsAreBare, SameCall
    <3>2. session'.required \in Nat => session'.required <= service'.rev
      BY <2>2, <1>3 DEF Waited
    <3> QED BY <1>1, <2>0, <3>1, <3>2
  <2>3. CASE Served(c)
    <3>1. EditsAreBare(calls'[c])
      BY <2>0, <2>3 DEF Served, EditsAreBare, SameCall, Waits
    <3>2. session'.required \in Nat => session'.required <= service'.rev
      <4>1. service'.rev = service.rev + 1 /\ session' = session
        BY <2>3, ServedService DEF Served
      <4> QED BY <4>1, <1>0, <1>3
    <3> QED BY <1>1, <2>0, <3>1, <3>2
  <2>4. CASE Fetched(c)
    <3>1. EditsAreBare(calls'[c])
      BY <2>4 DEF Fetched, EditsAreBare, SameCall
    <3>2. session'.required \in Nat => session'.required <= service'.rev
      BY <2>4, <1>3 DEF Fetched
    <3> QED BY <1>1, <2>0, <3>1, <3>2
  <2>5. CASE Failed(c)
    <3>1. EditsAreBare(calls'[c])
      BY <2>5 DEF Failed, EditsAreBare, Waits
    <3>2. session'.required \in Nat => session'.required <= service'.rev
      BY <2>5, <1>2, <1>3 DEF Failed
    <3> QED BY <1>1, <2>0, <3>1, <3>2
  <2>6. CASE EditDone(c)
    <3>1. EditsAreBare(calls'[c])
      BY <2>6 DEF EditDone, EditsAreBare, Waits
    <3>2. session'.required \in Nat => session'.required <= service'.rev
      BY <2>6, SucceededAnswer DEF EditDone
    <3> QED BY <1>1, <2>0, <3>1, <3>2
  <2>7. CASE LoadDone(c)
    <3>1. EditsAreBare(calls'[c])
      BY <2>7 DEF LoadDone, EditsAreBare, Waits
    <3>2. session'.required \in Nat => session'.required <= service'.rev
      BY <2>7, SucceededAnswer DEF LoadDone
    <3> QED BY <1>1, <2>0, <3>1, <3>2
  <2>8. CASE NameDone(c)
    <3>1. EditsAreBare(calls'[c])
      BY <2>8 DEF NameDone, EditsAreBare, Waits
    <3>2. session'.required \in Nat => session'.required <= service'.rev
      BY <2>8, SucceededAnswer DEF NameDone
    <3> QED BY <1>1, <2>0, <3>1, <3>2
  <2> QED BY <1>4, <2>1, <2>2, <2>3, <2>4, <2>5, <2>6, <2>7, <2>8, <2>9 DEF CallStep
<1>5. CASE Closing
  BY <1>2, <1>5 DEF Closing, Serial, OneAtATime, EditsAreBare, Waits
<1>6. CASE ByOthers
  <2>1. service'.rev = service.rev + 1 /\ session' = session /\ calls' = calls
    BY <1>6, ByOthersService DEF ByOthers
  <2>2. session'.required \in Nat => session'.required <= service'.rev
    BY <2>1, <1>0, <1>3
  <2> QED BY <2>1, <2>2 DEF Serial, OneAtATime, EditsAreBare
<1>7. CASE UNCHANGED vars
  BY <1>7 DEF vars, Serial, OneAtATime, EditsAreBare, Waits
<1> QED BY <1>4, <1>5, <1>6, <1>7, StepsWithoutOverlap


(* How often the edit of a call was applied: once its batch was accepted,  *)
(* the revision the batch requires is gone.                                *)
Counted(call, n, required, rev) ==
  /\ n <= 1
  /\ call.op \in {"open", "lines"} \/ call.pc = "idle" => n = 0
  /\ call.pc = "ok" /\ call.op \notin {"open", "lines"} => n = 1
  /\ call.op = "lines" => ~Waits(call)
  /\ Waits(call) /\ call.op # "open" =>
       \/ call.stage # "edit" /\ n = 1
       \/ call.stage = "edit" /\ Succeeded(call) /\ n = 1
       \/ call.stage = "edit" /\ ~Succeeded(call) /\ (n = 1 => required \in Nat /\ required < rev)

EditsAreCounted == \A c \in Calls : Counted(calls[c], applied[c], session.required, service.rev)

(* Nothing has been applied in the first state. *)
LEMMA InitCounted == Init => EditsAreCounted
<1> SUFFICES ASSUME Init PROVE EditsAreCounted
  OBVIOUS
<1>1. \A c \in Calls : calls[c].pc = "idle" /\ applied[c] = 0
  BY DEF Init, Idle
<1> QED BY <1>1 DEF EditsAreCounted, Counted, Waits

(* A batch is applied only when the call's edit has not been: a second     *)
(* attempt requires a revision that is gone.                               *)
LEMMA StepKeepsCount ==
  ASSUME Shape, Serial, EditsAreCounted, ~Overlap, [Next]_vars
  PROVE  EditsAreCounted'
<1>0. service.rev \in Nat /\ session.required \in Nat \cup {None}
      /\ \A c \in Calls : applied[c] \in Nat /\ Counted(calls[c], applied[c], session.required, service.rev)
  BY DEF Shape, Types, WellFormed, Services, Sessions, EditsAreCounted
<1>1. ASSUME NEW c \in Calls, OthersRest(c),
             Counted(calls'[c], applied'[c], session'.required, service'.rev)
      PROVE  EditsAreCounted'
  <2> SUFFICES ASSUME NEW d \in Calls
               PROVE  Counted(calls'[d], applied'[d], session'.required, service'.rev)
    BY DEF EditsAreCounted
  <2>1. CASE d = c
    BY <1>1, <2>1
  <2>2. CASE d # c
    BY <1>0, <1>1, <2>2 DEF Counted, OthersRest, Waits
  <2> QED BY <2>1, <2>2
<1>2. ASSUME NEW c \in Calls, CallStep(c) PROVE EditsAreCounted'
  <2>0. /\ OthersRest(c) /\ EditsAreBare(calls[c]) /\ applied[c] \in Nat
        /\ Counted(calls[c], applied[c], session.required, service.rev)
    BY <1>0, <1>2 DEF CallStep, Serial
  <2>1. CASE Began(c)
    <3>1. Counted(calls'[c], applied'[c], session'.required, service'.rev)
      BY <2>0, <2>1 DEF Began, Counted, Succeeded
    <3> QED BY <1>1, <2>0, <3>1
  <2>9. CASE Skipped(c)
    <3>1. Counted(calls'[c], applied'[c], session'.required, service'.rev)
      BY <2>0, <2>9 DEF Skipped, Counted, Waits
    <3> QED BY <1>1, <2>0, <3>1
  <2>2. CASE Waited(c)
    <3>1. Counted(calls'[c], applied'[c], session'.required, service'.rev)
      BY <2>0, <2>2 DEF Waited, SameCall, Counted, Waits
    <3> QED BY <1>1, <2>0, <3>1
  <2>3. CASE Served(c)
    <3>1. service'.rev = service.rev + 1 /\ session' = session /\ session.required = service.rev
      BY <2>3, ServedService DEF Served
    <3>2. CASE calls[c].stage = "edit"
      <4>1. /\ calls[c].pc = "send" /\ calls'[c].pc = "answer" /\ calls'[c].stage = "edit"
            /\ calls'[c].op = calls[c].op /\ applied'[c] = applied[c] + 1
        BY <2>3, <3>2 DEF Served, SameCall
      <4>2. calls[c].op \notin {"open", "lines"}
        BY <2>0, <3>2, <4>1 DEF EditsAreBare, Waits, Counted
      <4>3. applied[c] = 0
        BY <1>0, <2>0, <3>1, <3>2, <4>1, <4>2 DEF Counted, Waits, Succeeded
      <4>4. session'.required \in Nat /\ session'.required < service'.rev
        BY <1>0, <3>1
      <4>5. Counted(calls'[c], applied'[c], session'.required, service'.rev)
        BY <4>1, <4>2, <4>3, <4>4 DEF Counted, Waits
      <4> QED BY <1>1, <2>0, <4>5
    <3>3. CASE calls[c].stage = "names"
      <4>1. /\ calls[c].pc = "send" /\ calls'[c].pc = "answer" /\ calls'[c].stage = "names"
            /\ calls'[c].op = calls[c].op /\ applied'[c] = applied[c]
        BY <2>3, <3>3 DEF Served, SameCall
      <4>2. Counted(calls'[c], applied'[c], session'.required, service'.rev)
        BY <2>0, <3>3, <4>1 DEF Counted, Waits
      <4> QED BY <1>1, <2>0, <4>2
    <3> QED BY <2>3, <3>2, <3>3 DEF Served
  <2>4. CASE Fetched(c)
    <3>1. Counted(calls'[c], applied'[c], session'.required, service'.rev)
      BY <2>0, <2>4 DEF Fetched, SameCall, Counted, Waits
    <3> QED BY <1>1, <2>0, <3>1
  <2>5. CASE Failed(c)
    <3>1. Counted(calls'[c], applied'[c], session'.required, service'.rev)
      BY <2>0, <2>5 DEF Failed, Counted, Waits
    <3> QED BY <1>1, <2>0, <3>1
  <2>6. CASE EditDone(c)
    <3>1. calls[c].op # "open" /\ Waits(calls[c])
      BY <2>0, <2>6 DEF EditDone, EditsAreBare, Succeeded, Waits
    <3>2. applied[c] = 1 /\ calls[c].op # "lines"
      BY <2>0, <2>6, <3>1 DEF EditDone, Counted
    <3>3. Counted(calls'[c], applied'[c], session'.required, service'.rev)
      BY <2>6, <3>1, <3>2 DEF EditDone, Counted, Waits
    <3> QED BY <1>1, <2>0, <3>3
  <2>7. CASE LoadDone(c)
    <3>1. Counted(calls'[c], applied'[c], session'.required, service'.rev)
      BY <2>0, <2>7 DEF LoadDone, Counted, Waits, Succeeded
    <3> QED BY <1>1, <2>0, <3>1
  <2>8. CASE NameDone(c)
    <3>1. Counted(calls'[c], applied'[c], session'.required, service'.rev)
      BY <2>0, <2>8 DEF NameDone, Counted, Waits, Succeeded
    <3> QED BY <1>1, <2>0, <3>1
  <2> QED BY <1>2, <2>1, <2>2, <2>3, <2>4, <2>5, <2>6, <2>7, <2>8, <2>9 DEF CallStep
<1>3. CASE Closing
  BY <1>0, <1>3 DEF Closing, EditsAreCounted, Counted
<1>4. CASE ByOthers
  <2>1. service'.rev = service.rev + 1 /\ session' = session /\ calls' = calls /\ applied' = applied
    BY <1>4, ByOthersService DEF ByOthers
  <2>2. ASSUME NEW c \in Calls PROVE Counted(calls[c], applied[c], session.required, service.rev + 1)
    <3>1. Counted(calls[c], applied[c], session.required, service.rev)
      BY <1>0
    <3>2. session.required \in Nat /\ session.required < service.rev => session.required < service.rev + 1
      BY <1>0
    <3> QED BY <3>1, <3>2 DEF Counted
  <2> QED BY <2>1, <2>2 DEF EditsAreCounted
<1>5. CASE UNCHANGED vars
  BY <1>5 DEF vars, EditsAreCounted, Counted, Waits, Succeeded
<1> QED BY <1>2, <1>3, <1>4, <1>5, StepsWithoutOverlap

(* For every number of calls, every budget of retries and whatever other   *)
(* people do meanwhile: a batch whose answer was lost is not applied again *)
(* when it is retried, and a tool that answers ok has applied its edit     *)
(* once, if it had one to send, as long as a call starts after the one     *)
(* before it has ended.                                                    *)
THEOREM AppliedOnceHolds ==
  ASSUME ~Overlap
  PROVE  Spec => []AppliedOnce
<1>1. EditsAreCounted => AppliedOnce
  BY DEF EditsAreCounted, Counted, AppliedOnce
<1>2. Init => Shape /\ Serial /\ EditsAreCounted
  BY InitShape, InitSerial, InitCounted
<1>3. Shape /\ Serial /\ EditsAreCounted /\ [Next]_vars => (Shape /\ Serial /\ EditsAreCounted)'
  BY StepKeepsShape, StepKeepsSerial, StepKeepsCount
<1> QED BY <1>1, <1>2, <1>3, PTL DEF Spec

-------------------------------------------------------------------------------
(***************************************************************************)
(* Batches that move no text                                               *)
(***************************************************************************)

(* The ranges a batch names.                                               *)
NamedBy(srv, r) ==
  {[rid |-> srv.next + Len(r.put) + i, name |-> r.names[i].name,
    at |-> srv.doc[r.names[i].at].id] : i \in DOMAIN r.names}

(* A batch that cuts and puts nothing leaves the text. *)
LEMMA TextStays ==
  ASSUME NEW srv, WellFormed(srv), NEW r \in Requests, Fits(srv, r), r.cut = 0, r.put = <<>>
  PROVE  /\ Applied(srv, r).doc = srv.doc
         /\ Applied(srv, r).names = srv.names \cup NamedBy(srv, r)
<1> DEFINE doc == Applied(srv, r).doc
           old == srv.doc
           n == Len(old)
<1>1. srv \in Services /\ old \in Seq(Items) /\ r.at \in 1..n /\ n \in Nat /\ Len(r.put) = 0
  BY DEF WellFormed, Services, Fits
<1>2. /\ doc \in Seq(Items) /\ Len(doc) = n - 0 + 0
      /\ \A i \in 1..(r.at - 1) : doc[i] = old[i]
      /\ \A i \in (r.at + 0)..(n - 0 + 0) : doc[i] = old[i - 0 + 0]
  <2>1. r.at \in DOMAIN srv.doc /\ r.at + r.cut <= Len(srv.doc)
    BY DEF Fits
  <2>2. /\ Applied(srv, r).doc \in Seq(Items)
        /\ Len(Applied(srv, r).doc) = Len(srv.doc) - r.cut + Len(r.put)
        /\ \A i \in 1..(r.at - 1) : Applied(srv, r).doc[i] = srv.doc[i]
        /\ \A i \in (r.at + Len(r.put))..(Len(srv.doc) - r.cut + Len(r.put)) :
             Applied(srv, r).doc[i] = srv.doc[i - Len(r.put) + r.cut]
    BY <1>1, <2>1, AppliedDocument
  <2>3. r.cut = 0 /\ Len(r.put) = 0
    BY <1>1
  <2> QED BY <2>2, <2>3
<1> HIDE DEF doc, old, n
<1>3. \A i \in 1..n : doc[i] = old[i]
  <2> SUFFICES ASSUME NEW i \in 1..n PROVE doc[i] = old[i]
    OBVIOUS
  <2>1. CASE i < r.at
    BY <1>1, <1>2, <2>1
  <2>2. CASE ~(i < r.at)
    <3>1. i \in (r.at + 0)..(n - 0 + 0) /\ i - 0 + 0 = i
      BY <1>1, <2>2
    <3> QED BY <1>2, <3>1
  <2> QED BY <2>1, <2>2
<1>4. doc = old
  <2>1. Len(doc) = n /\ Len(old) = n
    BY <1>1, <1>2 DEF n
  <2>2. doc = [i \in 1..n |-> doc[i]] /\ old = [i \in 1..n |-> old[i]]
    BY <1>1, <1>2, <2>1
  <2> QED BY <1>3, <2>2
<1>5. ASSUME NEW x \in srv.names \cup NamedBy(srv, r) PROVE \E i \in DOMAIN doc : doc[i].id = x.at
  <2>1. CASE x \in srv.names
    BY <1>4, <2>1 DEF WellFormed, old
  <2>2. CASE x \in NamedBy(srv, r)
    <3>1. PICK i \in DOMAIN r.names : x.at = srv.doc[r.names[i].at].id
      BY <2>2 DEF NamedBy
    <3>2. r.names[i].at \in DOMAIN srv.doc
      BY DEF Fits
    <3> QED BY <1>4, <3>1, <3>2 DEF old
  <2> QED BY <2>1, <2>2
<1>6. Applied(srv, r).names = {x \in srv.names \cup NamedBy(srv, r) : \E i \in DOMAIN doc : doc[i].id = x.at}
  BY DEF Applied, NamedBy, doc
<1> QED BY <1>4, <1>5, <1>6 DEF doc, old

(* The revision has no part in what Parse gives. *)
LEMMA ParseReadsTextAndNames ==
  ASSUME NEW s, NEW t, s.doc = t.doc, s.names = t.names
  PROVE  Parse(s) = Parse(t)
<1>1. \A i, j : NamesIn(s, i, j) = NamesIn(t, i, j)
  BY DEF NamesIn
<1>2. ASSUME NEW i, NEW j PROVE AnchorIn(s, i, j) = AnchorIn(t, i, j)
  <2> DEFINE least(names) == IF names = {} THEN None ELSE CHOOSE n \in names : \A m \in names : n <= m
  <2>1. AnchorIn(s, i, j) = least({r.name : r \in NamesIn(s, i, j)})
    BY DEF AnchorIn
  <2>2. AnchorIn(t, i, j) = least({r.name : r \in NamesIn(t, i, j)})
    BY DEF AnchorIn
  <2>3. NamesIn(s, i, j) = NamesIn(t, i, j)
    BY <1>1
  <2> HIDE DEF least
  <2> QED BY <2>1, <2>2, <2>3
<1> QED BY <1>2 DEF Parse

(* A layout edit leaves every index, text and anchor.                      *)
LEMMA LayoutKeepsParse ==
  ASSUME NEW srv, WellFormed(srv), NEW r \in Requests, Fits(srv, r),
         r.cut = 0, r.put = <<>>, r.names = <<>>
  PROVE  Parse(Applied(srv, r)) = Parse(srv)
<1>1. NamedBy(srv, r) = {}
  BY DEF NamedBy
<1>2. Applied(srv, r).doc = srv.doc /\ Applied(srv, r).names = srv.names \cup NamedBy(srv, r)
  BY TextStays
<1>3. Applied(srv, r).names = srv.names
  BY <1>1, <1>2
<1> QED BY <1>2, <1>3, ParseReadsTextAndNames

(* The k-th paragraph of a document and its place.                         *)
EndAt(doc, k) == Ascending(Ends(doc))[k]
StartAt(doc, k) == StartOf(doc, EndAt(doc, k))

(* Paragraphs are numbered by their newlines and lie apart. *)
LEMMA ParagraphPlaces ==
  ASSUME NEW doc \in Seq(Items)
  PROVE  LET n == Cardinality(Ends(doc))
         IN /\ n \in Nat
            /\ \A k \in 1..n : /\ EndAt(doc, k) \in 1..Len(doc) /\ StartAt(doc, k) \in 1..Len(doc)
                               /\ StartAt(doc, k) <= EndAt(doc, k)
            /\ \A k, l \in 1..n : StartAt(doc, l) \in StartAt(doc, k)..EndAt(doc, k) => l = k
<1> DEFINE E == Ends(doc)
           n == Cardinality(E)
<1>1. E \in SUBSET (1..Len(doc)) /\ IsFiniteSet(E) /\ E \in SUBSET Nat
  BY EndsAreFinite
<1> HIDE DEF E
<1>2. /\ n \in Nat /\ Ascending(E) \in [1..n -> E]
      /\ \A k, l \in 1..n : k < l => Ascending(E)[k] < Ascending(E)[l]
  BY <1>1, AscendingListsAll
<1> HIDE DEF n
<1>3. ASSUME NEW k \in 1..n
      PROVE  /\ EndAt(doc, k) \in E /\ EndAt(doc, k) \in 1..Len(doc) /\ EndAt(doc, k) \in Nat
             /\ StartAt(doc, k) \in 1..EndAt(doc, k)
  <2>1. EndAt(doc, k) \in E
    BY <1>2 DEF EndAt, E
  <2>2. StartAt(doc, k) \in 1..EndAt(doc, k)
    BY <2>1, StartIsFirst DEF StartAt, E
  <2> QED BY <1>1, <2>1, <2>2
<1>4. ASSUME NEW k \in 1..n, NEW l \in 1..n, k < l PROVE EndAt(doc, k) < StartAt(doc, l)
  <2>1. EndAt(doc, k) < EndAt(doc, l)
    BY <1>2, <1>4 DEF EndAt, E
  <2>2. EndAt(doc, k) \in Ends(doc) /\ EndAt(doc, l) \in Ends(doc)
    BY <1>3 DEF E
  <2> QED BY <2>1, <2>2, ParagraphsAreDisjoint DEF StartAt
<1>5. ASSUME NEW k \in 1..n, NEW l \in 1..n, StartAt(doc, l) \in StartAt(doc, k)..EndAt(doc, k)
      PROVE  l = k
  <2>1. PICK sk \in Nat, ek \in Nat, sl \in Nat, el \in Nat :
           /\ sk = StartAt(doc, k) /\ ek = EndAt(doc, k) /\ sl = StartAt(doc, l) /\ el = EndAt(doc, l)
           /\ sk <= ek /\ sl <= el /\ sk <= sl /\ sl <= ek
    <3>1. EndAt(doc, k) \in Nat /\ EndAt(doc, l) \in Nat /\ StartAt(doc, k) \in 1..EndAt(doc, k)
          /\ StartAt(doc, l) \in 1..EndAt(doc, l)
      BY <1>3
    <3> QED BY <3>1, <1>5
  <2>2. k < l => ek < sl
    BY <1>4, <2>1
  <2>3. l < k => el < sk
    BY <1>4, <2>1
  <2> QED BY <2>1, <2>2, <2>3
<1>6. ASSUME NEW k \in 1..n
      PROVE  /\ EndAt(doc, k) \in 1..Len(doc) /\ StartAt(doc, k) \in 1..Len(doc)
             /\ StartAt(doc, k) <= EndAt(doc, k)
  BY <1>3
<1> QED BY <1>2, <1>5, <1>6 DEF n, E

(* The names given to the paragraphs without an anchor become theirs, and  *)
(* no other paragraph's: the document is read as injectAnchors patches the *)
(* cache.                                                                  *)
LEMMA NamingIsForeseen ==
  ASSUME NEW srv, WellFormed(srv), NEW s \in Sessions, IsFiniteSet(s.mapping), s.cache = Parse(srv),
         NEW call, Prepared(call, s), NEW r \in Requests, r = call.request, Fits(srv, r)
  PROVE  Parse(Applied(srv, r)) = Patched(s.cache, Bare(s), BareNames(s))
<1> DEFINE doc == srv.doc
           new == Applied(srv, r)
           n == Cardinality(Ends(doc))
           B == Bare(s)
           N == BareNames(s)
           b == Len(B)
<1>1. /\ srv \in Services /\ doc \in Seq(Items) /\ IsFiniteSet(srv.names) /\ srv.names \in SUBSET Ranges
      /\ \A i, j \in DOMAIN doc : doc[i].id = doc[j].id => i = j
      /\ DOMAIN doc = 1..Len(doc) /\ Len(doc) \in Nat
  BY DEF WellFormed, Services
<1>2. /\ n \in Nat
      /\ \A k \in 1..n : /\ EndAt(doc, k) \in 1..Len(doc) /\ StartAt(doc, k) \in 1..Len(doc)
                         /\ StartAt(doc, k) <= EndAt(doc, k)
      /\ \A k, l \in 1..n : StartAt(doc, l) \in StartAt(doc, k)..EndAt(doc, k) => l = k
  BY <1>1, ParagraphPlaces
<1>3. r.put = <<>> /\ r.cut = 0
      /\ r.names = [i \in DOMAIN B |-> [at |-> s.cache[B[i]].start, name |-> N[i]]]
  <2>1. NoRequest = [at |-> 1, cut |-> 0, put |-> <<>>, names |-> <<>>]
    BY DEF NoRequest
  <2> QED BY <2>1 DEF Prepared
<1>4. new.doc = doc /\ new.names = srv.names \cup NamedBy(srv, r)
  BY <1>3, TextStays
<1>5. WellFormed(new) /\ new \in Services /\ IsFiniteSet(new.names)
  <2>1. WellFormed(new)
    BY AppliedIsWellFormed
  <2> HIDE DEF new
  <2> QED BY <2>1 DEF WellFormed
<1>6. /\ b \in Nat /\ DOMAIN B = 1..b
      /\ B \in [1..b -> {k \in DOMAIN s.cache : s.cache[k].anchor = None}]
      /\ \A i, j \in DOMAIN B : B[i] = B[j] => i = j
      /\ \A k \in DOMAIN s.cache : s.cache[k].anchor = None => \E i \in DOMAIN B : B[i] = k
  BY BareIsTyped
<1>7. N \in [1..b -> Nat]
  BY BareNamesAreFree
<1> HIDE DEF new, B, N, b, doc, n
<1>8. /\ Parse(srv) \in Seq(Paragraphs) /\ Len(Parse(srv)) = n /\ DOMAIN Parse(srv) = 1..n
      /\ \A k \in 1..n : Parse(srv)[k] =
           [start |-> StartAt(doc, k), end |-> EndAt(doc, k),
            text |-> TextOf(doc, StartAt(doc, k), EndAt(doc, k)),
            anchor |-> AnchorIn(srv, StartAt(doc, k), EndAt(doc, k))]
  BY <1>1, ParseIsTyped DEF StartAt, EndAt, doc, n
<1>9. /\ Parse(new) \in Seq(Paragraphs) /\ Len(Parse(new)) = n /\ DOMAIN Parse(new) = 1..n
      /\ \A k \in 1..n : Parse(new)[k] =
           [start |-> StartAt(doc, k), end |-> EndAt(doc, k),
            text |-> TextOf(doc, StartAt(doc, k), EndAt(doc, k)),
            anchor |-> AnchorIn(new, StartAt(doc, k), EndAt(doc, k))]
  <2>1. /\ Parse(new) \in Seq(Paragraphs)
        /\ Len(Parse(new)) = Cardinality(Ends(new.doc))
        /\ \A k \in 1..Len(Parse(new)) :
             Parse(new)[k] = [start |-> StartAt(new.doc, k), end |-> EndAt(new.doc, k),
                              text |-> TextOf(new.doc, StartAt(new.doc, k), EndAt(new.doc, k)),
                              anchor |-> AnchorIn(new, StartAt(new.doc, k), EndAt(new.doc, k))]
    BY <1>5, ParseIsTyped DEF StartAt, EndAt
  <2>2. DOMAIN Parse(new) = 1..Len(Parse(new))
    BY <2>1
  <2> QED BY <1>4, <2>1, <2>2 DEF n
<1> DEFINE named(i) == [rid |-> srv.next + Len(r.put) + i, name |-> r.names[i].name,
                        at |-> srv.doc[r.names[i].at].id]
<1>10. NamedBy(srv, r) = {named(i) : i \in 1..b}
  <2>1. DOMAIN r.names = 1..b
    BY <1>3, <1>6
  <2> QED BY <2>1 DEF NamedBy
<1>11. ASSUME NEW i \in 1..b
       PROVE  /\ B[i] \in 1..n /\ named(i).name = N[i] /\ named(i).at = doc[StartAt(doc, B[i])].id
              /\ N[i] \in Nat
  <2>1. B[i] \in 1..n
    BY <1>6, <1>8
  <2>2. r.names[i].name = N[i] /\ r.names[i].at = s.cache[B[i]].start
    BY <1>3, <1>6
  <2>3. s.cache[B[i]].start = StartAt(doc, B[i])
    BY <1>8, <2>1
  <2> QED BY <1>7, <2>1, <2>2, <2>3 DEF doc
<1> HIDE DEF named
<1>12. ASSUME NEW k \in 1..n, NEW x
       PROVE  x \in NamesIn(new, StartAt(doc, k), EndAt(doc, k)) <=>
                \/ x \in NamesIn(srv, StartAt(doc, k), EndAt(doc, k))
                \/ \E i \in 1..b : x = named(i) /\ B[i] = k
  <2>1. ASSUME NEW i \in 1..b
        PROVE  (\E j \in StartAt(doc, k)..EndAt(doc, k) : doc[j].id = named(i).at) <=> B[i] = k
    <3>1. B[i] \in 1..n /\ named(i).at = doc[StartAt(doc, B[i])].id
      BY <1>11
    <3>2. StartAt(doc, B[i]) \in DOMAIN doc
      BY <1>1, <1>2, <3>1
    <3>3. ASSUME NEW j \in StartAt(doc, k)..EndAt(doc, k), doc[j].id = named(i).at PROVE B[i] = k
      <4>1. j \in DOMAIN doc
        <5>1. EndAt(doc, k) \in 1..Len(doc) /\ StartAt(doc, k) \in 1..Len(doc)
          BY <1>2
        <5> QED BY <5>1, <1>1
      <4>2. j = StartAt(doc, B[i])
        BY <1>1, <3>1, <3>2, <3>3, <4>1
      <4>3. StartAt(doc, B[i]) \in StartAt(doc, k)..EndAt(doc, k)
        BY <4>2
      <4> QED BY <1>2, <3>1, <4>3
    <3>4. ASSUME B[i] = k PROVE \E j \in StartAt(doc, k)..EndAt(doc, k) : doc[j].id = named(i).at
      <4>1. StartAt(doc, k) \in StartAt(doc, k)..EndAt(doc, k)
        <5>1. EndAt(doc, k) \in 1..Len(doc) /\ StartAt(doc, k) \in 1..Len(doc)
              /\ StartAt(doc, k) <= EndAt(doc, k)
          BY <1>2
        <5> QED BY <5>1, <1>1
      <4> QED BY <3>1, <3>4, <4>1
    <3> QED BY <3>3, <3>4
  <2>2. NamesIn(new, StartAt(doc, k), EndAt(doc, k)) =
          {z \in srv.names \cup NamedBy(srv, r) : \E j \in StartAt(doc, k)..EndAt(doc, k) : doc[j].id = z.at}
    BY <1>4 DEF NamesIn
  <2>3. NamesIn(srv, StartAt(doc, k), EndAt(doc, k)) =
          {z \in srv.names : \E j \in StartAt(doc, k)..EndAt(doc, k) : doc[j].id = z.at}
    BY DEF NamesIn, doc
  <2> QED BY <1>10, <2>1, <2>2, <2>3
<1>13. ASSUME NEW k \in 1..n
       PROVE  Parse(new)[k] = Patched(s.cache, B, N)[k]
  <2> DEFINE sk == StartAt(doc, k)
             ek == EndAt(doc, k)
  <2>1. sk \in Nat /\ ek \in Nat /\ k \in DOMAIN s.cache
    BY <1>2, <1>8
  <2> HIDE DEF sk, ek
  <2>2. CASE k \in Range(B)
    <3> DEFINE pos == CHOOSE i \in DOMAIN B : B[i] = k
    <3>1. pos \in 1..b /\ B[pos] = k
      BY <1>6, <2>2 DEF Range
    <3>2. Patched(s.cache, B, N)[k] = [s.cache[k] EXCEPT !.anchor = N[pos]]
      BY <2>1, <2>2 DEF Patched
    <3> HIDE DEF pos
    <3>3. NamesIn(srv, sk, ek) = {}
      <4>1. s.cache[k].anchor = None
        BY <1>6, <3>1
      <4>2. AnchorIn(srv, sk, ek) = None
        BY <1>8, <4>1 DEF sk, ek
      <4>3. NamesIn(srv, sk, ek) # {} => AnchorIn(srv, sk, ek) \in {z.name : z \in NamesIn(srv, sk, ek)}
        BY <1>1, <2>1, AnchorIsThere
      <4>4. \A z \in NamesIn(srv, sk, ek) : z.name \in Nat
        BY <1>1 DEF NamesIn, Ranges
      <4>5. None \notin {z.name : z \in NamesIn(srv, sk, ek)}
        BY <4>4, GoogleDocsAssumption
      <4> QED BY <4>2, <4>3, <4>5
    <3>4. NamesIn(new, sk, ek) = {named(pos)}
      <4>1. \A x : x \in NamesIn(new, sk, ek) <=> \E i \in 1..b : x = named(i) /\ B[i] = k
        BY <1>12, <3>3 DEF sk, ek
      <4>2. \A i \in 1..b : B[i] = k => i = pos
        BY <1>6, <3>1
      <4> QED BY <3>1, <4>1, <4>2
    <3>5. AnchorIn(new, sk, ek) = N[pos]
      <4>1. {z.name : z \in NamesIn(new, sk, ek)} = {N[pos]}
        BY <1>11, <3>1, <3>4
      <4>2. AnchorIn(new, sk, ek) \in {z.name : z \in NamesIn(new, sk, ek)}
        <5>1. NamesIn(new, sk, ek) # {}
          BY <3>4
        <5> QED BY <5>1, <1>5, <2>1, AnchorIsThere
      <4> QED BY <4>1, <4>2
    <3>6. s.cache[k] = [start |-> sk, end |-> ek, text |-> TextOf(doc, sk, ek), anchor |-> AnchorIn(srv, sk, ek)]
      BY <1>8 DEF sk, ek
    <3>7. Parse(new)[k] = [start |-> sk, end |-> ek, text |-> TextOf(doc, sk, ek), anchor |-> AnchorIn(new, sk, ek)]
      BY <1>9 DEF sk, ek
    <3> QED BY <3>2, <3>5, <3>6, <3>7
  <2>3. CASE k \notin Range(B)
    <3>1. Patched(s.cache, B, N)[k] = s.cache[k]
      BY <2>1, <2>3 DEF Patched
    <3>2. \A i \in 1..b : B[i] # k
      BY <1>6, <2>3 DEF Range
    <3>3. NamesIn(new, sk, ek) = NamesIn(srv, sk, ek)
      BY <1>12, <3>2 DEF sk, ek
    <3>4. AnchorIn(new, sk, ek) = AnchorIn(srv, sk, ek)
      BY <3>3 DEF AnchorIn
    <3> QED BY <1>8, <1>9, <3>1, <3>4 DEF sk, ek
  <2> QED BY <2>2, <2>3
<1>14. Patched(s.cache, B, N) = [k \in 1..n |-> Patched(s.cache, B, N)[k]]
  BY <1>8 DEF Patched
<1>15. Parse(new) = [k \in 1..n |-> Parse(new)[k]]
  <2>1. Parse(new) \in [1..n -> Paragraphs]
    BY <1>9
  <2> QED BY <2>1
<1> QED BY <1>13, <1>14, <1>15 DEF new, B, N

(* The cache, and what it will be when the answer of a call is received.   *)
CacheIsCurrent == session.required = service.rev => session.cache = Parse(service)

Foreseen(call) ==
  /\ Waits(call) /\ call.stage \in {"names", "reload"} => ~torn
  /\ Waits(call) /\ call.stage = "names" => Prepared(call, session)
  /\ Succeeded(call) /\ call.answer.rev = service.rev =>
       /\ call.stage \in {"load", "reload"} => call.answer.got = service
       /\ call.stage = "edit" /\ call.op = "format" /\ ~torn => session.cache = Parse(service)
       /\ call.stage = "names" =>
            Patched(session.cache, call.paras, GivenNames(call, session.mapping)) = Parse(service)

CacheInv ==
  /\ ~torn /\ (\A c \in Calls : ~(Waits(calls[c]) /\ calls[c].stage = "load")) => CacheIsCurrent
  /\ \A c \in Calls : Foreseen(calls[c])

(* The closed session has cached nothing. *)
LEMMA InitCache == Init => CacheInv
<1> SUFFICES ASSUME Init PROVE CacheInv
  OBVIOUS
<1>1. \A c \in Calls : calls[c].pc = "idle"
  BY DEF Init, Idle
<1>2. session.required = None /\ service.rev = 0
  BY DEF Init, Closed
<1>3. session.required # service.rev
  BY <1>2, GoogleDocsAssumption
<1> QED BY <1>1, <1>3 DEF CacheInv, CacheIsCurrent, Foreseen, Waits, Succeeded

(* A step whose call keeps what it owes keeps the invariant.               *)
LEMMA OneCallKeepsCache ==
  ASSUME NEW c \in Calls, OthersRest(c), Foreseen(calls[c])',
         ~torn' /\ ~(Waits(calls'[c]) /\ calls'[c].stage = "load") => CacheIsCurrent'
  PROVE  CacheInv'
<1>1. ASSUME NEW d \in Calls, d # c PROVE ~Waits(calls'[d]) /\ ~Succeeded(calls'[d])
  BY <1>1 DEF OthersRest, Waits, Succeeded
<1>2. ASSUME NEW d \in Calls PROVE Foreseen(calls[d])'
  <2>1. CASE d = c
    BY <2>1
  <2>2. CASE d # c
    BY <1>1, <2>2 DEF Foreseen
  <2> QED BY <2>1, <2>2
<1> QED BY <1>2 DEF CacheInv

(* An accepted batch moves the revision past the cached one, or its answer *)
(* says what will be cached.                                               *)
LEMMA ServedKeepsCache ==
  ASSUME Shape, Serial, CacheInv, NEW c \in Calls, OthersRest(c), Served(c)
  PROVE  CacheInv'
<1> DEFINE r == calls[c].request
<1>1. /\ WellFormed(service) /\ r \in Requests /\ service.rev \in Nat /\ service'.rev = service.rev + 1
      /\ session \in Sessions /\ IsFiniteSet(session.mapping)
  BY ServedService DEF Shape, Types
<1>2. /\ session.required = service.rev /\ Fits(service, r) /\ service' = Applied(service, r)
      /\ session' = session /\ torn' = torn /\ Waits(calls[c]) /\ SameCall(c)
      /\ calls'[c].answer.got = [i \in DOMAIN r.names |-> service.next + Len(r.put) + i]
      /\ calls[c].stage \in {"edit", "names"}
  BY DEF Served, Waits
<1>3. ~torn => session.cache = Parse(service)
  <2>1. \A d \in Calls : ~(Waits(calls[d]) /\ calls[d].stage = "load")
    BY <1>2 DEF OthersRest
  <2> QED BY <1>2, <2>1 DEF CacheInv, CacheIsCurrent
<1>4. session'.required # service'.rev
  BY <1>1, <1>2
<1>5. CASE calls[c].stage = "edit"
  <2>1. calls[c].op = "format" /\ ~torn => session.cache = Parse(service')
    <3> SUFFICES ASSUME calls[c].op = "format", ~torn PROVE session.cache = Parse(service')
      OBVIOUS
    <3>1. r.names = <<>> /\ r.cut = 0 /\ r.put = <<>>
      BY <1>2, <1>5 DEF Serial, EditsAreBare
    <3>2. Parse(Applied(service, r)) = Parse(service)
      BY <1>1, <1>2, <3>1, LayoutKeepsParse
    <3> QED BY <1>2, <1>3, <3>2
  <2>2. Foreseen(calls[c])'
    BY <1>2, <1>5, <2>1 DEF Foreseen, SameCall
  <2> QED BY <1>4, <2>2, OneCallKeepsCache DEF CacheIsCurrent
<1>6. CASE calls[c].stage = "names"
  <2>1. ~torn /\ Prepared(calls[c], session)
    BY <1>2, <1>6 DEF CacheInv, Foreseen
  <2>2. Parse(service') = Patched(session.cache, Bare(session), BareNames(session))
    <3>1. PICK call : call = calls[c]
      OBVIOUS
    <3>2. Prepared(call, session) /\ r = call.request
      BY <2>1, <3>1
    <3> HIDE DEF r
    <3> QED BY <1>1, <1>2, <1>3, <2>1, <3>2, NamingIsForeseen
  <2>3. /\ calls'[c].paras = Bare(session) /\ calls'[c].occupied = NamesOf(session.mapping)
        /\ Prepared(calls'[c], session)
    BY <1>2, <2>1 DEF SameCall, Prepared
  <2>4. GivenNames(calls'[c], session.mapping) = BareNames(session)
    <3>1. Len(Bare(session)) \in Nat /\ DOMAIN Bare(session) = 1..Len(Bare(session))
      BY <1>1, BareIsTyped
    <3>2. DOMAIN r.names = 1..Len(Bare(session))
      <4>1. r = [NoRequest EXCEPT !.names =
                   [i \in DOMAIN Bare(session) |->
                     [at |-> session.cache[Bare(session)[i]].start, name |-> BareNames(session)[i]]]]
        BY <2>1 DEF Prepared
      <4>2. NoRequest = [at |-> 1, cut |-> 0, put |-> <<>>, names |-> <<>>]
        BY DEF NoRequest
      <4> QED BY <3>1, <4>1, <4>2
    <3>3. calls'[c].answer.got = [i \in 1..Len(Bare(session)) |-> service.next + Len(r.put) + i]
      BY <1>2, <3>2
    <3>4. Len(calls'[c].answer.got) = Len(Bare(session))
      BY <3>1, <3>3
    <3> QED BY <2>3, <3>4 DEF GivenNames, BareNames
  <2>5. Patched(session.cache, calls'[c].paras, GivenNames(calls'[c], session.mapping)) = Parse(service')
    BY <2>2, <2>3, <2>4
  <2>6. Foreseen(calls[c])'
    BY <1>2, <1>6, <2>1, <2>3, <2>5 DEF Foreseen, SameCall
  <2> QED BY <1>4, <2>6, OneCallKeepsCache DEF CacheIsCurrent
<1> QED BY <1>2, <1>5, <1>6

(* Every step keeps the cache equal to its revision of the document. *)
LEMMA StepKeepsCache ==
  ASSUME Shape, Serial, CacheInv, ~Overlap, [Next]_vars
  PROVE  CacheInv'
<1>0. service.rev \in Nat /\ session.required \in Nat \cup {None}
      /\ (session.required \in Nat => session.required <= service.rev)
  BY DEF Shape, Types, WellFormed, Services, Sessions, Serial
<1>1. Closed.required \notin Nat /\ Closed.required # service.rev
  BY <1>0, GoogleDocsAssumption DEF Closed
<1>2. ASSUME NEW c \in Calls, CallStep(c) PROVE CacheInv'
  <2>0. OthersRest(c) /\ Foreseen(calls[c])
    BY <1>2 DEF CallStep, CacheInv
  <2>00. ~torn /\ ~(Waits(calls[c]) /\ calls[c].stage = "load") => CacheIsCurrent
    BY <2>0 DEF CacheInv, OthersRest
  <2>1. CASE Began(c)
    <3>1. Foreseen(calls[c])'
      BY <2>1 DEF Began, Foreseen, Succeeded
    <3>2. ~torn' /\ ~(Waits(calls'[c]) /\ calls'[c].stage = "load") => CacheIsCurrent'
      BY <2>00, <2>1 DEF Began, CacheIsCurrent, Waits
    <3> QED BY <2>0, <3>1, <3>2, OneCallKeepsCache
  <2>9. CASE Skipped(c)
    <3>1. Foreseen(calls[c])'
      BY <2>9 DEF Skipped, Foreseen, Succeeded, Waits
    <3>2. ~torn' /\ ~(Waits(calls'[c]) /\ calls'[c].stage = "load") => CacheIsCurrent'
      BY <2>00, <2>9 DEF Skipped, CacheIsCurrent, Waits
    <3> QED BY <2>0, <3>1, <3>2, OneCallKeepsCache
  <2>2. CASE Waited(c)
    <3>1. Foreseen(calls[c])'
      BY <2>0, <2>2 DEF Waited, SameCall, Foreseen, Prepared
    <3>2. ~torn' /\ ~(Waits(calls'[c]) /\ calls'[c].stage = "load") => CacheIsCurrent'
      BY <2>00, <2>2 DEF Waited, SameCall, CacheIsCurrent
    <3> QED BY <2>0, <3>1, <3>2, OneCallKeepsCache
  <2>3. CASE Served(c)
    BY <2>0, <2>3, ServedKeepsCache
  <2>4. CASE Fetched(c)
    <3>1. Foreseen(calls[c])'
      BY <2>0, <2>4 DEF Fetched, SameCall, Foreseen, Waits
    <3>2. ~torn' /\ ~(Waits(calls'[c]) /\ calls'[c].stage = "load") => CacheIsCurrent'
      BY <2>00, <2>4 DEF Fetched, SameCall, CacheIsCurrent, Waits
    <3> QED BY <2>0, <3>1, <3>2, OneCallKeepsCache
  <2>5. CASE Failed(c)
    <3>1. Foreseen(calls[c])'
      BY <2>5 DEF Failed, Foreseen, Waits, Succeeded
    <3>2. ~torn' /\ ~(Waits(calls'[c]) /\ calls'[c].stage = "load") => CacheIsCurrent'
      BY <1>1, <2>00, <2>5 DEF Failed, CacheIsCurrent
    <3> QED BY <2>0, <3>1, <3>2, OneCallKeepsCache
  <2>6. CASE EditDone(c)
    <3>1. Foreseen(calls[c])'
      BY <2>6 DEF EditDone, Foreseen, Waits, Succeeded
    <3>2. ~torn' /\ ~(Waits(calls'[c]) /\ calls'[c].stage = "load") => CacheIsCurrent'
      BY <2>0, <2>6 DEF EditDone, CacheIsCurrent, Foreseen, Waits
    <3> QED BY <2>0, <3>1, <3>2, OneCallKeepsCache
  <2>7. CASE LoadDone(c)
    <3>1. Foreseen(calls[c])'
      BY <2>7 DEF LoadDone, Foreseen, Waits, Succeeded
    <3>2. ~torn' /\ ~(Waits(calls'[c]) /\ calls'[c].stage = "load") => CacheIsCurrent'
      BY <2>0, <2>7 DEF LoadDone, CacheIsCurrent, Foreseen
    <3> QED BY <2>0, <3>1, <3>2, OneCallKeepsCache
  <2>8. CASE NameDone(c)
    <3>1. ~torn /\ calls[c].own = TRUE
      BY <2>0, <2>8 DEF NameDone, Foreseen, Waits, Succeeded, Prepared
    <3>2. Foreseen(calls[c])'
      BY <2>8, <3>1 DEF NameDone, Foreseen, Waits, Succeeded
    <3>3. ~torn' /\ ~(Waits(calls'[c]) /\ calls'[c].stage = "load") => CacheIsCurrent'
      BY <2>0, <2>8, <3>1 DEF NameDone, CacheIsCurrent, Foreseen
    <3> QED BY <2>0, <3>2, <3>3, OneCallKeepsCache
  <2> QED BY <1>2, <2>1, <2>2, <2>3, <2>4, <2>5, <2>6, <2>7, <2>8, <2>9 DEF CallStep
<1>3. CASE Closing
  BY <1>1, <1>3 DEF Closing, CacheInv, CacheIsCurrent, Foreseen, Waits, Succeeded
<1>4. CASE ByOthers
  <2>1. service'.rev = service.rev + 1 /\ session' = session /\ calls' = calls /\ torn' = torn
    BY <1>4, ByOthersService DEF ByOthers
  <2>2. session'.required # service'.rev
    BY <1>0, <2>1, GoogleDocsAssumption
  <2>3. ASSUME NEW c \in Calls PROVE Foreseen(calls[c])'
    <3>1. Succeeded(calls[c]) => calls[c].answer.rev # service'.rev
      BY <2>1, SucceededAnswer
    <3>2. Foreseen(calls[c])
      BY DEF CacheInv
    <3> QED BY <2>1, <3>1, <3>2 DEF Foreseen
  <2> QED BY <2>2, <2>3 DEF CacheInv, CacheIsCurrent
<1>5. CASE UNCHANGED vars
  BY <1>5 DEF vars, CacheInv, CacheIsCurrent, Foreseen, Waits, Succeeded
<1> QED BY <1>2, <1>3, <1>4, <1>5, StepsWithoutOverlap

(* For every document and any number of calls, one after the other: a      *)
(* client whose revision is the document's has the document in its cache,  *)
(* also when it learned the revision from the answer to a layout edit or   *)
(* to a naming batch and patched its cache itself.                         *)
THEOREM CacheMatchesRevisionHolds ==
  ASSUME ~Overlap
  PROVE  Spec => []CacheMatchesRevision
<1>1. Shape /\ CacheInv => CacheMatchesRevision
  BY WaitingIsActive DEF CacheInv, CacheIsCurrent, CacheMatchesRevision
<1>2. Init => Shape /\ Serial /\ CacheInv
  BY InitShape, InitSerial, InitCache
<1>3. Shape /\ Serial /\ CacheInv /\ [Next]_vars => (Shape /\ Serial /\ CacheInv)'
  BY StepKeepsShape, StepKeepsSerial, StepKeepsCache
<1> QED BY <1>1, <1>2, <1>3, PTL DEF Spec

(* The names of ranges, and what the mapping will be.                      *)
Covered(rids) == \A x \in service.names : x.rid \in rids
RidsOf(mapping) == {m.rid : m \in mapping}

NamesForeseen(call) ==
  /\ Succeeded(call) /\ call.stage = "edit" /\ call.answer.rev = service.rev => Covered(RidsOf(session.mapping))
  /\ Succeeded(call) /\ call.stage \in {"load", "reload"} =>
       /\ call.answer.got.next <= service.next
       /\ \A x \in service.names, n \in call.answer.got.names : x.rid = n.rid => x.name = n.name
  /\ Succeeded(call) /\ call.stage = "names" =>
       /\ \A i \in DOMAIN call.answer.got : call.answer.got[i] <= service.next
       /\ call.answer.rev = service.rev => Covered(RidsOf(session.mapping) \cup Range(call.answer.got))
       /\ \A x \in service.names, i \in DOMAIN call.answer.got :
            x.rid = call.answer.got[i] => x.name = GivenNames(call, session.mapping)[i]

NamesAgree ==
  /\ \A x, y \in service.names : x.name = y.name => x = y
  /\ \A x \in service.names, m \in session.mapping : x.rid = m.rid => x.name = m.name
  /\ session.required = service.rev => Covered(RidsOf(session.mapping))
  /\ \A m \in session.mapping : m.rid <= service.next

NamesInv == NamesAgree /\ \A c \in Calls : NamesForeseen(calls[c])

(* The closed session names nothing. *)
LEMMA InitNames == Init => NamesInv
<1> SUFFICES ASSUME Init PROVE NamesInv
  OBVIOUS
<1>1. \A c \in Calls : calls[c].pc = "idle"
  BY DEF Init, Idle
<1>2. session.mapping = {} /\ service.names = {}
  BY DEF Init, Closed
<1> QED BY <1>1, <1>2 DEF NamesInv, NamesAgree, NamesForeseen, Covered, Succeeded

(* Only the call under way foresees names. *)
LEMMA OneCallKeepsNames ==
  ASSUME NEW c \in Calls, OthersRest(c), NamesAgree', NamesForeseen(calls[c])'
  PROVE  NamesInv'
<1>1. ASSUME NEW d \in Calls PROVE NamesForeseen(calls[d])'
  <2>1. CASE d = c
    BY <2>1
  <2>2. CASE d # c
    <3>1. ~Succeeded(calls'[d])
      BY <2>2 DEF OthersRest, Waits, Succeeded
    <3> QED BY <3>1 DEF NamesForeseen
  <2> QED BY <2>1, <2>2
<1> QED BY <1>1 DEF NamesInv

(* Ranges a batch adds have ids above those of the document it changes.    *)
LEMMA BatchNames ==
  ASSUME NEW srv, WellFormed(srv), NEW r \in Requests, Fits(srv, r),
         NEW new, new = Applied(srv, r)
  PROVE  /\ srv.next \in Nat /\ new.next \in Nat /\ srv.next <= new.next
         /\ \A x \in srv.names : x.rid \in Nat /\ x.rid <= srv.next
         /\ \A x \in new.names :
              \/ x \in srv.names
              \/ srv.next < x.rid /\ \E i \in DOMAIN r.names :
                   x.rid = srv.next + Len(r.put) + i /\ x.name = r.names[i].name
         /\ \A x, y \in new.names : x.rid = y.rid => x = y
<1>1. srv.next \in Nat /\ \A x \in srv.names : x.rid \in Nat /\ x.rid <= srv.next
  BY DEF WellFormed, Services, Ranges
<1>2. /\ WellFormed(new) /\ Len(r.put) \in Nat /\ Len(r.names) \in Nat
      /\ new.next = srv.next + Len(r.put) + Len(r.names)
      /\ \A x \in new.names :
           \/ x \in srv.names
           \/ \E i \in DOMAIN r.names : x.rid = srv.next + Len(r.put) + i /\ x.name = r.names[i].name
  BY AppliedIsWellFormed
<1>3. DOMAIN r.names \subseteq Nat \ {0}
  <2>1. r.names \in Seq([at : Nat, name : Nat])
    BY DEF Requests
  <2>2. DOMAIN r.names = 1..Len(r.names)
    BY <2>1
  <2> QED BY <1>2, <2>2
<1>4. ASSUME NEW x \in new.names
      PROVE  \/ x \in srv.names
             \/ srv.next < x.rid /\ \E i \in DOMAIN r.names :
                  x.rid = srv.next + Len(r.put) + i /\ x.name = r.names[i].name
  <2>1. CASE x \in srv.names
    BY <2>1
  <2>2. CASE \E i \in DOMAIN r.names : x.rid = srv.next + Len(r.put) + i /\ x.name = r.names[i].name
    <3>1. PICK i \in DOMAIN r.names : x.rid = srv.next + Len(r.put) + i /\ x.name = r.names[i].name
      BY <2>2
    <3>2. i \in Nat /\ i # 0
      BY <1>3
    <3>3. srv.next < x.rid
      BY <1>1, <1>2, <3>1, <3>2
    <3> QED BY <3>1, <3>3
  <2> QED BY <1>2, <2>1, <2>2
<1>5. new.next \in Nat /\ srv.next <= new.next
  BY <1>1, <1>2
<1>6. \A x, y \in new.names : x.rid = y.rid => x = y
  BY <1>2 DEF WellFormed
<1> QED BY <1>1, <1>4, <1>5, <1>6

(* Names that are given once, and to nothing yet, stay unique.             *)
LEMMA BatchNamesStayUnique ==
  ASSUME NEW srv, WellFormed(srv), NEW r \in Requests, Fits(srv, r),
         NEW new, new = Applied(srv, r),
         \A x, y \in srv.names : x.name = y.name => x = y,
         \A i, j \in DOMAIN r.names : r.names[i].name = r.names[j].name => i = j,
         \A i \in DOMAIN r.names, x \in srv.names : x.name # r.names[i].name
  PROVE  \A x, y \in new.names : x.name = y.name => x = y
<1>1. /\ \A x \in new.names :
           \/ x \in srv.names
           \/ \E i \in DOMAIN r.names : x.rid = srv.next + Len(r.put) + i /\ x.name = r.names[i].name
      /\ \A x, y \in new.names : x.rid = y.rid => x = y
  BY BatchNames
<1> SUFFICES ASSUME NEW x \in new.names, NEW y \in new.names, x.name = y.name PROVE x = y
  OBVIOUS
<1>2. CASE x \in srv.names /\ y \in srv.names
  BY <1>2
<1>3. CASE x \in srv.names /\ y \notin srv.names
  BY <1>1, <1>3
<1>4. CASE x \notin srv.names /\ y \in srv.names
  BY <1>1, <1>4
<1>5. CASE x \notin srv.names /\ y \notin srv.names
  <2>1. PICK i \in DOMAIN r.names : x.rid = srv.next + Len(r.put) + i /\ x.name = r.names[i].name
    BY <1>1, <1>5
  <2>2. PICK j \in DOMAIN r.names : y.rid = srv.next + Len(r.put) + j /\ y.name = r.names[j].name
    BY <1>1, <1>5
  <2>3. i = j
    BY <2>1, <2>2
  <2> QED BY <1>1, <2>1, <2>2, <2>3
<1> QED BY <1>2, <1>3, <1>4, <1>5

(* Every range the document has is in the mapping, or was added by a batch *)
(* the mapping was not told of: what the document's next number tells.     *)
LEMMA AddedNamesAgree ==
  ASSUME NamesAgree, Shape, NEW r \in Requests, Fits(service, r), service' = Applied(service, r),
         session' = session, session'.required # service'.rev,
         \A x, y \in service'.names : x.name = y.name => x = y
  PROVE  NamesAgree'
<1>1. WellFormed(service) /\ session.mapping \in SUBSET [rid : Nat, name : Nat]
  BY DEF Shape, Types, Sessions
<1>2. /\ service.next \in Nat /\ service'.next \in Nat /\ service.next <= service'.next
      /\ \A x \in service'.names : x \in service.names \/ (service.next < x.rid /\ x.rid \in Nat)
  <2>1. /\ service.next \in Nat /\ service'.next \in Nat /\ service.next <= service'.next
        /\ \A x \in service'.names : x \in service.names \/ service.next < x.rid
    BY <1>1, BatchNames
  <2>2. WellFormed(service')
    BY <1>1, AppliedIsWellFormed
  <2>3. \A x \in service'.names : x.rid \in Nat
    BY <2>2 DEF WellFormed, Services, Ranges
  <2> QED BY <2>1, <2>3
<1>3. \A m \in session.mapping : m.rid \in Nat /\ m.rid <= service.next
  BY <1>1 DEF NamesAgree
<1>4. \A x \in service'.names, m \in session.mapping : x.rid = m.rid => x.name = m.name
  BY <1>2, <1>3 DEF NamesAgree
<1>5. \A m \in session.mapping : m.rid <= service'.next
  BY <1>2, <1>3
<1> QED BY <1>4, <1>5 DEF NamesAgree

(* The request of a naming batch.                                          *)
LEMMA NamingRequest ==
  ASSUME NEW s \in Sessions, NEW call, Prepared(call, s)
  PROVE  LET r == call.request
             b == Len(Bare(s))
         IN /\ b \in Nat /\ DOMAIN r.names = 1..b /\ r.put = <<>> /\ r.cut = 0
            /\ \A i \in 1..b : r.names[i].name = BareNames(s)[i]
<1>1. Len(Bare(s)) \in Nat /\ DOMAIN Bare(s) = 1..Len(Bare(s))
  BY BareIsTyped
<1>2. call.request = [NoRequest EXCEPT !.names =
         [i \in DOMAIN Bare(s) |-> [at |-> s.cache[Bare(s)[i]].start, name |-> BareNames(s)[i]]]]
  BY DEF Prepared
<1>3. NoRequest = [at |-> 1, cut |-> 0, put |-> <<>>, names |-> <<>>]
  BY DEF NoRequest
<1> QED BY <1>1, <1>2, <1>3

(* An accepted naming batch gives its ids to names that its call foresees. *)
LEMMA ServedKeepsNames ==
  ASSUME Shape, Serial, CacheInv, NamesInv, NEW c \in Calls, OthersRest(c), Served(c)
  PROVE  NamesInv'
<1> DEFINE r == calls[c].request
           got == calls'[c].answer.got
<1>1. /\ WellFormed(service) /\ r \in Requests /\ service.rev \in Nat /\ service'.rev = service.rev + 1
      /\ session \in Sessions /\ IsFiniteSet(session.mapping)
  BY ServedService DEF Shape, Types
<1>2. /\ session.required = service.rev /\ Fits(service, r) /\ service' = Applied(service, r)
      /\ session' = session /\ Waits(calls[c]) /\ SameCall(c)
      /\ got = [i \in DOMAIN r.names |-> service.next + Len(r.put) + i]
      /\ calls[c].stage \in {"edit", "names"}
  BY DEF Served, Waits
<1>3. session'.required # service'.rev
  BY <1>1, <1>2
<1>4. NamesAgree /\ Covered(RidsOf(session.mapping))
  BY <1>2 DEF NamesInv, NamesAgree
<1>5. /\ service.next \in Nat /\ service'.next \in Nat /\ service.next <= service'.next
      /\ \A x \in service.names : x.rid \in Nat /\ x.rid <= service.next
      /\ \A x \in service'.names :
           \/ x \in service.names
           \/ \E i \in DOMAIN r.names : x.rid = service.next + Len(r.put) + i /\ x.name = r.names[i].name
  <2> HIDE DEF r
  <2> QED BY <1>1, <1>2, BatchNames
<1>6. CASE calls[c].stage = "edit"
  <2>1. r.names = <<>>
    BY <1>2, <1>6 DEF Serial, EditsAreBare
  <2>2. service'.names \subseteq service.names
    BY <1>5, <2>1
  <2>3. \A x, y \in service'.names : x.name = y.name => x = y
    BY <1>4, <2>2 DEF NamesAgree
  <2>4. NamesAgree'
    <3> HIDE DEF r
    <3> QED BY <1>1, <1>2, <1>3, <1>4, <2>3, AddedNamesAgree
  <2>5. Covered(RidsOf(session.mapping))'
    BY <1>2, <1>4, <2>2 DEF Covered, RidsOf
  <2>6. calls'[c].stage = "edit"
    BY <1>2, <1>6 DEF SameCall
  <2>7. NamesForeseen(calls[c])'
    BY <2>5, <2>6 DEF NamesForeseen
  <2> QED BY <2>4, <2>7, OneCallKeepsNames
<1>7. CASE calls[c].stage = "names"
  <2> DEFINE b == Len(Bare(session))
             names == BareNames(session)
  <2>1. Prepared(calls[c], session)
    BY <1>2, <1>7 DEF CacheInv, Foreseen
  <2>2. /\ b \in Nat /\ DOMAIN r.names = 1..b /\ r.put = <<>>
        /\ \A i \in 1..b : r.names[i].name = names[i]
    <3>1. PICK call : call = calls[c]
      OBVIOUS
    <3> QED BY <1>1, <2>1, <3>1, NamingRequest
  <2>3. /\ names \in [1..b -> Nat \ NamesOf(session.mapping)]
        /\ \A i, j \in 1..b : names[i] = names[j] => i = j
    BY <1>1, BareNamesAreFree
  <2> HIDE DEF b, names
  <2>4. ASSUME NEW x \in service.names PROVE x.name \in NamesOf(session.mapping)
    <3>1. PICK m \in session.mapping : m.rid = x.rid
      BY <1>4 DEF Covered, RidsOf
    <3>2. x.name = m.name
      BY <1>4, <3>1 DEF NamesAgree
    <3> QED BY <3>2 DEF NamesOf
  <2>5. \A x, y \in service'.names : x.name = y.name => x = y
    <3>1. \A i, j \in DOMAIN r.names : r.names[i].name = r.names[j].name => i = j
      BY <2>2, <2>3
    <3>2. \A i \in DOMAIN r.names, x \in service.names : x.name # r.names[i].name
      BY <2>2, <2>3, <2>4
    <3>3. \A x, y \in service.names : x.name = y.name => x = y
      BY <1>4 DEF NamesAgree
    <3> HIDE DEF r
    <3> QED BY <1>1, <1>2, <3>1, <3>2, <3>3, BatchNamesStayUnique
  <2>6. NamesAgree'
    <3> HIDE DEF r
    <3> QED BY <1>1, <1>2, <1>3, <1>4, <2>5, AddedNamesAgree
  <2>7. DOMAIN got = 1..b /\ Len(got) = b /\ \A i \in 1..b : got[i] = service.next + 0 + i
    <3>1. Len(r.put) = 0
      BY <2>2
    <3>2. got = [i \in 1..b |-> service.next + 0 + i]
      BY <1>2, <2>2, <3>1
    <3> HIDE DEF got
    <3> QED BY <2>2, <3>2
  <2>8. GivenNames(calls'[c], session.mapping) = names
    <3>1. calls'[c].occupied = NamesOf(session.mapping)
      BY <1>2, <2>1 DEF SameCall, Prepared
    <3> QED BY <2>7, <3>1 DEF GivenNames, BareNames, b, names
  <2>9. \A x \in service'.names :
          x \in service.names \/ \E i \in 1..b : x.rid = got[i] /\ x.name = names[i]
    <3>1. Len(r.put) = 0
      BY <2>2
    <3> QED BY <1>5, <2>2, <2>7, <3>1
  <2>10. \A i \in DOMAIN got : got[i] <= service'.next
    <3>1. Len(r.put) \in Nat /\ Len(r.names) \in Nat /\ Applied(service, r).next = service.next + Len(r.put) + Len(r.names)
      <4> HIDE DEF r
      <4> QED BY <1>1, <1>2, AppliedIsWellFormed
    <3>2. Len(r.put) = 0 /\ Len(r.names) = b
      <4>1. r.names \in Seq([at : Nat, name : Nat])
        BY <1>1 DEF Requests
      <4>2. DOMAIN r.names = 1..Len(r.names)
        BY <4>1
      <4> QED BY <2>2, <3>1, <4>2
    <3> QED BY <1>2, <1>5, <2>2, <2>7, <3>1, <3>2
  <2>11. Covered(RidsOf(session.mapping) \cup Range(calls[c].answer.got))'
    <3>1. \A x \in service'.names : x.rid \in RidsOf(session.mapping) \/ \E i \in DOMAIN got : x.rid = got[i]
      BY <1>4, <2>7, <2>9 DEF Covered
    <3>2. RidsOf(session.mapping)' = RidsOf(session.mapping)
      BY <1>2 DEF RidsOf
    <3>3. \A x \in service'.names : x.rid \in RidsOf(session'.mapping) \cup Range(got)
      BY <1>2, <3>1 DEF Range
    <3> QED BY <3>3 DEF Covered
  <2>12. \A x \in service'.names, i \in DOMAIN got : x.rid = got[i] => x.name = names[i]
    <3> SUFFICES ASSUME NEW x \in service'.names, NEW i \in 1..b, x.rid = got[i] PROVE x.name = names[i]
      BY <2>7
    <3>1. x \notin service.names
      BY <1>5, <2>2, <2>7
    <3>2. PICK j \in 1..b : x.rid = got[j] /\ x.name = names[j]
      BY <2>9, <3>1
    <3>3. service.next + 0 + i = service.next + 0 + j
      BY <2>7, <3>2
    <3>4. i = j
      BY <1>5, <2>2, <3>3
    <3> QED BY <3>2, <3>4
  <2>13. calls'[c].stage = "names"
    BY <1>2, <1>7 DEF SameCall
  <2>14. NamesForeseen(calls[c])'
    <3>1. \A i \in DOMAIN got : got[i] <= service'.next
      BY <2>10
    <3>2. \A x \in service'.names, i \in DOMAIN got :
            x.rid = got[i] => x.name = GivenNames(calls'[c], session'.mapping)[i]
      BY <1>2, <2>8, <2>12
    <3> QED BY <2>11, <2>13, <3>1, <3>2 DEF NamesForeseen
  <2> QED BY <2>6, <2>14, OneCallKeepsNames
<1> QED BY <1>2, <1>6, <1>7

(* A fetched document tells the session of names it already has. *)
LEMMA LoadDoneKeepsNames ==
  ASSUME Shape, CacheInv, NamesInv, NEW c \in Calls, OthersRest(c), LoadDone(c)
  PROVE  NamesInv'
<1> DEFINE got == calls[c].answer.got
<1>1. /\ Succeeded(calls[c]) /\ calls[c].stage \in {"load", "reload"} /\ WellFormed(got)
      /\ calls[c].answer.rev = got.rev /\ session'.required = got.rev
      /\ session'.mapping = Cached(got).mapping /\ service' = service /\ ~Succeeded(calls'[c])
  BY DEF LoadDone, Succeeded
<1>2. /\ NamesAgree /\ got.next <= service.next
      /\ got.rev = service.rev => got = service
      /\ \A x \in service.names, n \in got.names : x.rid = n.rid => x.name = n.name
  BY <1>1 DEF NamesInv, NamesForeseen, CacheInv, Foreseen
<1>3. got.next \in Nat /\ service.next \in Nat /\ \A n \in got.names : n.rid \in Nat /\ n.rid <= got.next
  BY <1>1 DEF WellFormed, Services, Ranges, Shape, Types
<1> HIDE DEF got
<1>4. /\ \A m \in Cached(got).mapping :
           m \in session.mapping \/ \E n \in got.names : m = [rid |-> n.rid, name |-> n.name]
      /\ \A n \in got.names : \E m \in Cached(got).mapping : m.rid = n.rid
  BY <1>1, CachedIsTyped DEF Shape, Types
<1>5. \A x \in service.names, m \in session'.mapping : x.rid = m.rid => x.name = m.name
  BY <1>1, <1>2, <1>4 DEF NamesAgree
<1>6. \A m \in session'.mapping : m.rid <= service.next
  <2> SUFFICES ASSUME NEW m \in Cached(got).mapping PROVE m.rid <= service.next
    BY <1>1
  <2>1. CASE m \in session.mapping
    BY <1>2, <2>1 DEF NamesAgree
  <2>2. CASE \E n \in got.names : m = [rid |-> n.rid, name |-> n.name]
    <3>1. PICK n \in got.names : m = [rid |-> n.rid, name |-> n.name]
      BY <2>2
    <3> QED BY <1>2, <1>3, <3>1
  <2> QED BY <1>4, <2>1, <2>2
<1>7. session'.required = service.rev => \A x \in service.names : x.rid \in {m.rid : m \in session'.mapping}
  BY <1>1, <1>2, <1>4
<1>8. NamesAgree'
  BY <1>1, <1>2, <1>5, <1>6, <1>7 DEF NamesAgree, Covered, RidsOf
<1>9. NamesForeseen(calls[c])'
  BY <1>1 DEF NamesForeseen
<1> QED BY <1>8, <1>9, OneCallKeepsNames

(* The answer to a naming batch brings in the names it foresaw. *)
LEMMA NameDoneKeepsNames ==
  ASSUME Shape, NamesInv, NEW c \in Calls, OthersRest(c), NameDone(c)
  PROVE  NamesInv'
<1> DEFINE got == calls[c].answer.got
           names == GivenNames(calls[c], session.mapping)
           added == {[rid |-> got[i], name |-> names[i]] : i \in 1..Len(got)}
<1>1. /\ Succeeded(calls[c]) /\ calls[c].stage = "names" /\ got \in Seq(Nat)
      /\ session'.required = calls[c].answer.rev /\ session'.mapping = session.mapping \cup added
      /\ service' = service /\ ~Succeeded(calls'[c])
  BY DEF NameDone, Succeeded
<1>2. /\ NamesAgree
      /\ \A i \in DOMAIN got : got[i] <= service.next
      /\ calls[c].answer.rev = service.rev => Covered(RidsOf(session.mapping) \cup Range(got))
      /\ \A x \in service.names, i \in DOMAIN got : x.rid = got[i] => x.name = names[i]
  BY <1>1 DEF NamesInv, NamesForeseen
<1>3. DOMAIN got = 1..Len(got)
  BY <1>1
<1> HIDE DEF got, names
<1>4. \A m \in added : \E i \in DOMAIN got : m.rid = got[i] /\ m.name = names[i]
  BY <1>3
<1>5. \A i \in DOMAIN got : \E m \in added : m.rid = got[i]
  <2> SUFFICES ASSUME NEW i \in 1..Len(got) PROVE \E m \in added : m.rid = got[i]
    BY <1>3
  <2>1. [rid |-> got[i], name |-> names[i]] \in added
    OBVIOUS
  <2>2. [rid |-> got[i], name |-> names[i]].rid = got[i]
    OBVIOUS
  <2> HIDE DEF added
  <2> QED BY <2>1, <2>2
<1> HIDE DEF added
<1>6. \A x \in service.names, m \in session'.mapping : x.rid = m.rid => x.name = m.name
  BY <1>1, <1>2, <1>4 DEF NamesAgree
<1>7. \A m \in session'.mapping : m.rid <= service.next
  BY <1>1, <1>2, <1>4 DEF NamesAgree
<1>8. session'.required = service.rev => \A x \in service.names : x.rid \in {m.rid : m \in session'.mapping}
  <2> SUFFICES ASSUME session'.required = service.rev, NEW x \in service.names
               PROVE  \E m \in session'.mapping : x.rid = m.rid
    OBVIOUS
  <2>1. x.rid \in RidsOf(session.mapping) \/ \E i \in DOMAIN got : x.rid = got[i]
    BY <1>1, <1>2 DEF Covered, Range
  <2> QED BY <1>1, <1>5, <2>1 DEF RidsOf
<1>9. NamesAgree'
  BY <1>1, <1>2, <1>6, <1>7, <1>8 DEF NamesAgree, Covered, RidsOf
<1>10. NamesForeseen(calls[c])'
  BY <1>1 DEF NamesForeseen
<1> QED BY <1>9, <1>10, OneCallKeepsNames

(* Other people take names with ids the session never saw. *)
LEMMA OthersKeepNames ==
  ASSUME Shape, Serial, NamesInv, ByOthers
  PROVE  NamesInv'
<1>1. PICK r \in Requests :
         /\ Fits(service, r) /\ service' = Applied(service, r)
         /\ \A i, j \in DOMAIN r.names : i = j
         /\ \A i \in DOMAIN r.names : r.names[i].name \notin UsedNames
  BY DEF ByOthers, OutsideRequest
<1>2. /\ WellFormed(service) /\ service.rev \in Nat /\ service'.rev = service.rev + 1
      /\ session' = session /\ calls' = calls
  BY ByOthersService DEF ByOthers
<1>3. /\ service.next \in Nat /\ service'.next \in Nat /\ service.next <= service'.next
      /\ \A x \in service'.names : x \in service.names \/ service.next < x.rid
  BY <1>1, <1>2, BatchNames
<1>4. \A x, y \in service'.names : x.name = y.name => x = y
  <2>1. \A i \in DOMAIN r.names, x \in service.names : x.name # r.names[i].name
    BY <1>1 DEF UsedNames
  <2>2. \A x, y \in service.names : x.name = y.name => x = y
    BY DEF NamesInv, NamesAgree
  <2> QED BY <1>1, <1>2, <2>1, <2>2, BatchNamesStayUnique
<1>5. session'.required # service'.rev
  <2>1. session.required \in Nat \cup {None} /\ (session.required \in Nat => session.required <= service.rev)
    BY DEF Shape, Types, Sessions, Serial
  <2> QED BY <1>2, <2>1, GoogleDocsAssumption
<1>6. NamesAgree'
  BY <1>1, <1>2, <1>4, <1>5, AddedNamesAgree DEF NamesInv
<1>7. \A x \in service'.names : x.rid \in Nat
  <2>1. WellFormed(service')
    BY <1>1, <1>2, AppliedIsWellFormed
  <2> QED BY <2>1 DEF WellFormed, Services, Ranges
<1>8. ASSUME NEW c \in Calls PROVE NamesForeseen(calls[c])'
  <2> DEFINE call == calls[c]
             got == call.answer.got
  <2>1. NamesForeseen(call)
    BY DEF NamesInv
  <2>2. Succeeded(call) => call.answer.rev # service'.rev
    BY <1>2, SucceededAnswer
  <2>3. ASSUME Succeeded(call), call.stage \in {"load", "reload"}
        PROVE  /\ got.next <= service'.next
               /\ \A x \in service'.names, n \in got.names : x.rid = n.rid => x.name = n.name
    <3>1. /\ WellFormed(got) /\ got.next <= service.next
          /\ \A x \in service.names, n \in got.names : x.rid = n.rid => x.name = n.name
      BY <2>1, <2>3, SucceededAnswer DEF NamesForeseen
    <3>2. got.next \in Nat /\ \A n \in got.names : n.rid \in Nat /\ n.rid <= got.next
      BY <3>1 DEF WellFormed, Services, Ranges
    <3> HIDE DEF got
    <3> QED BY <1>3, <1>7, <3>1, <3>2
  <2>4. ASSUME Succeeded(call), call.stage = "names"
        PROVE  /\ \A i \in DOMAIN got : got[i] <= service'.next
               /\ \A x \in service'.names, i \in DOMAIN got :
                    x.rid = got[i] => x.name = GivenNames(call, session.mapping)[i]
    <3>1. /\ got \in Seq(Nat) /\ \A i \in DOMAIN got : got[i] <= service.next
          /\ \A x \in service.names, i \in DOMAIN got :
               x.rid = got[i] => x.name = GivenNames(call, session.mapping)[i]
      BY <2>1, <2>4, SucceededAnswer DEF NamesForeseen
    <3>2. \A i \in DOMAIN got : got[i] \in Nat
      BY <3>1
    <3> HIDE DEF got, call
    <3> QED BY <1>3, <1>7, <3>1, <3>2
  <2> HIDE DEF call, got
  <2>5. calls'[c] = call
    BY <1>2 DEF call
  <2> QED BY <1>2, <2>2, <2>3, <2>4, <2>5 DEF NamesForeseen, got
<1> QED BY <1>6, <1>8 DEF NamesInv

(* Every step keeps the names of the session and of the document together. *)
LEMMA StepKeepsNames ==
  ASSUME Shape, Serial, CacheInv, NamesInv, ~Overlap, [Next]_vars
  PROVE  NamesInv'
<1>0. NamesAgree /\ service.rev \in Nat /\ WellFormed(service) /\ service.next \in Nat
  BY DEF NamesInv, Shape, Types, WellFormed, Services
<1>1. Closed.required # service.rev /\ Closed.mapping = {}
  BY <1>0, GoogleDocsAssumption DEF Closed
<1>2. ASSUME NEW c \in Calls, CallStep(c) PROVE NamesInv'
  <2>0. OthersRest(c)
    BY <1>2 DEF CallStep
  <2>1. CASE Began(c)
    <3>1. NamesForeseen(calls[c])'
      BY <2>1 DEF Began, NamesForeseen, Succeeded
    <3>2. NamesAgree'
      BY <1>0, <1>1, <2>1 DEF Began, NamesAgree, Covered, RidsOf
    <3> QED BY <2>0, <3>1, <3>2, OneCallKeepsNames
  <2>9. CASE Skipped(c)
    <3>1. NamesForeseen(calls[c])'
      BY <2>9 DEF Skipped, NamesForeseen, Succeeded
    <3>2. NamesAgree'
      BY <1>0, <2>9 DEF Skipped, NamesAgree, Covered, RidsOf
    <3> QED BY <2>0, <3>1, <3>2, OneCallKeepsNames
  <2>2. CASE Waited(c)
    <3>1. NamesForeseen(calls[c])'
      BY <2>2 DEF Waited, NamesForeseen
    <3>2. NamesAgree'
      BY <1>0, <2>2 DEF Waited, NamesAgree, Covered, RidsOf
    <3> QED BY <2>0, <3>1, <3>2, OneCallKeepsNames
  <2>3. CASE Served(c)
    BY <2>0, <2>3, ServedKeepsNames
  <2>4. CASE Fetched(c)
    <3>1. \A x, n \in service.names : x.rid = n.rid => x.name = n.name
      BY <1>0 DEF WellFormed
    <3>2. service.next <= service.next
      BY <1>0
    <3>3. NamesForeseen(calls[c])'
      BY <2>4, <3>1, <3>2 DEF Fetched, SameCall, NamesForeseen
    <3>4. NamesAgree'
      BY <1>0, <2>4 DEF Fetched, NamesAgree, Covered, RidsOf
    <3> QED BY <2>0, <3>3, <3>4, OneCallKeepsNames
  <2>5. CASE Failed(c)
    <3>1. NamesForeseen(calls[c])'
      BY <2>5 DEF Failed, NamesForeseen, Succeeded
    <3>2. NamesAgree'
      BY <1>0, <1>1, <2>5 DEF Failed, NamesAgree, Covered, RidsOf
    <3> QED BY <2>0, <3>1, <3>2, OneCallKeepsNames
  <2>6. CASE EditDone(c)
    <3>1. NamesForeseen(calls[c])'
      BY <2>6 DEF EditDone, NamesForeseen, Succeeded
    <3>2. NamesForeseen(calls[c])
      BY DEF NamesInv
    <3>3. NamesAgree'
      BY <1>0, <2>6, <3>2 DEF EditDone, NamesForeseen, NamesAgree, Covered, RidsOf
    <3> QED BY <2>0, <3>1, <3>3, OneCallKeepsNames
  <2>7. CASE LoadDone(c)
    BY <2>0, <2>7, LoadDoneKeepsNames
  <2>8. CASE NameDone(c)
    BY <2>0, <2>8, NameDoneKeepsNames
  <2> QED BY <1>2, <2>1, <2>2, <2>3, <2>4, <2>5, <2>6, <2>7, <2>8, <2>9 DEF CallStep
<1>3. CASE Closing
  <2>1. \A c \in Calls : ~Succeeded(calls[c])
    BY <1>3 DEF Closing, Waits, Succeeded
  <2>2. \A c \in Calls : NamesForeseen(calls[c])'
    BY <1>3, <2>1 DEF Closing, NamesForeseen, Succeeded
  <2>3. NamesAgree'
    BY <1>0, <1>1, <1>3 DEF Closing, NamesAgree, Covered, RidsOf
  <2> QED BY <2>2, <2>3 DEF NamesInv
<1>4. CASE ByOthers
  BY <1>4, OthersKeepNames
<1>5. CASE UNCHANGED vars
  BY <1>5 DEF vars, NamesInv, NamesAgree, NamesForeseen, Covered, RidsOf, Succeeded
<1> QED BY <1>2, <1>3, <1>4, <1>5, StepsWithoutOverlap

(* For every document and any number of calls, one after the other, with   *)
(* other clients naming paragraphs meanwhile: no two ranges get the same   *)
(* name, although names are counted from the size of a mapping and         *)
(* computed a second time after the answer; and the mapping knows every    *)
(* range by the name the service knows it by.                              *)
THEOREM AnchorsAreUniqueHolds ==
  ASSUME ~Overlap
  PROVE  Spec => []AnchorsAreUnique
<1>1. NamesInv => AnchorsAreUnique
  BY DEF NamesInv, NamesAgree, AnchorsAreUnique
<1>2. Init => Shape /\ Serial /\ CacheInv /\ NamesInv
  BY InitShape, InitSerial, InitCache, InitNames
<1>3. Shape /\ Serial /\ CacheInv /\ NamesInv /\ [Next]_vars => (Shape /\ Serial /\ CacheInv /\ NamesInv)'
  BY StepKeepsShape, StepKeepsSerial, StepKeepsCache, StepKeepsNames
<1> QED BY <1>1, <1>2, <1>3, PTL DEF Spec

-------------------------------------------------------------------------------
(***************************************************************************)
(* Edits hit their target.  As long as the session requires the revision   *)
(* of the document, the request of a call under way hits, in the document  *)
(* as it is, what its caller named.                                        *)
(***************************************************************************)

(* Pieces of one token each are joined to the sequence of the tokens.      *)
LEMMA FlattenedTokens ==
  ASSUME NEW T, NEW n \in Nat, NEW x \in [1..n -> T], NEW seqs, seqs = [i \in 1..n |-> <<x[i]>>]
  PROVE  FlattenSeq(seqs) = x
<1> DEFINE all == CHOOSE f : f = [i \in 1..n |-> IF i = 1 THEN seqs[i] ELSE f[i - 1] \o seqs[i]]
           first(i) == [k \in 1..i |-> x[k]]
           g == [i \in 1..n |-> first(i)]
<1>1. Len(seqs) = n
  OBVIOUS
<1>2. CASE n = 0
  <2>1. FlattenSeq(seqs) = seqs
    BY <1>1, <1>2 DEF FlattenSeq
  <2> QED BY <2>1, <1>2
<1>3. CASE n # 0
  <2>1. FlattenSeq(seqs) = all[n]
    BY <1>1, <1>3 DEF FlattenSeq
  <2>2. ASSUME NEW i \in 1..n PROVE first(i) \in Seq(T) /\ Len(first(i)) = i
    <3>1. first(i) \in [1..i -> T] /\ i \in Nat
      OBVIOUS
    <3> HIDE DEF first
    <3> QED BY <3>1
  <2>3. ASSUME NEW i \in 1..n, i # 1 PROVE first(i) = first(i - 1) \o seqs[i]
    <3>1. PICK y \in T : y = x[i]
      OBVIOUS
    <3>2. seqs[i] = <<y>>
      BY <3>1
    <3>3. first(i - 1) \in Seq(T) /\ Len(first(i - 1)) = i - 1
      BY <2>2, <2>3
    <3>4. PICK s \in Seq(T) : s = first(i - 1) /\ Len(s) = i - 1 /\ \A k \in 1..(i - 1) : s[k] = x[k]
      BY <3>3
    <3>5. s \o <<y>> \in Seq(T) /\ Len(s \o <<y>>) = i
          /\ \A k \in 1..i : (s \o <<y>>)[k] = IF k <= i - 1 THEN s[k] ELSE y
      BY <3>4
    <3>6. \A k \in 1..i : (s \o <<y>>)[k] = x[k]
      BY <3>1, <3>4, <3>5
    <3>7. s \o <<y>> = [k \in 1..i |-> (s \o <<y>>)[k]]
      BY <3>5
    <3> QED BY <3>2, <3>4, <3>6, <3>7
  <2>4. first(1) = seqs[1]
    <3>1. PICK y \in T : y = x[1]
      BY <1>3
    <3>2. seqs[1] = <<y>>
      BY <3>1, <1>3
    <3>3. first(1) = <<y>>
      BY <3>1
    <3> QED BY <3>2, <3>3
  <2>5. g = [i \in 1..n |-> IF i = 1 THEN seqs[i] ELSE g[i - 1] \o seqs[i]]
    <3> HIDE DEF first
    <3>1. \A i \in 1..n : g[i] = IF i = 1 THEN seqs[i] ELSE g[i - 1] \o seqs[i]
      <4> SUFFICES ASSUME NEW i \in 1..n PROVE g[i] = IF i = 1 THEN seqs[i] ELSE g[i - 1] \o seqs[i]
        OBVIOUS
      <4>1. CASE i = 1
        BY <2>4, <4>1
      <4>2. CASE i # 1
        <5>1. i - 1 \in 1..n
          BY <4>2
        <5>2. g[i - 1] = first(i - 1) /\ g[i] = first(i)
          BY <5>1
        <5> QED BY <2>3, <4>2, <5>2
      <4> QED BY <4>1, <4>2
    <3> QED BY <3>1
  <2>6. all = [i \in 1..n |-> IF i = 1 THEN seqs[i] ELSE all[i - 1] \o seqs[i]]
    <3> HIDE DEF g
    <3> QED BY <2>5
  <2> HIDE DEF all, g, first
  <2>7. \A i \in 1..n : all[i] = IF i = 1 THEN seqs[i] ELSE all[i - 1] \o seqs[i]
    BY <2>6
  <2> DEFINE G == {i \in 0..n : i = 0 \/ all[i] = first(i)}
  <2>8. 0 \in G
    OBVIOUS
  <2>9. ASSUME NEW i \in 1..n, i - 1 \in G PROVE i \in G
    <3>1. all[i] = IF i = 1 THEN seqs[i] ELSE all[i - 1] \o seqs[i]
      BY <2>7
    <3>2. i # 1 => all[i - 1] = first(i - 1)
      BY <2>9
    <3>3. all[i] = first(i)
      BY <3>1, <3>2, <2>3, <2>4
    <3> QED BY <3>3
  <2> HIDE DEF G
  <2>10. \A i \in 0..n : i \in G
    BY <2>8, <2>9, InductionUpTo
  <2>11. all[n] = first(n)
    BY <2>10, <1>3 DEF G
  <2>12. first(n) = x
    BY DEF first
  <2> QED BY <2>1, <2>11, <2>12
<1> QED BY <1>2, <1>3

(* Without objects, the shown text of a paragraph has its tokens at their  *)
(* places.                                                                 *)
LEMMA PlainTextIsShown ==
  ASSUME NEW doc \in Seq(Items), NEW s \in Nat, NEW e \in 1..Len(doc), 1 <= s, s <= e,
         \A j \in DOMAIN doc : doc[j].tok # Obj
  PROVE  /\ DOMAIN TextOf(doc, s, e) = 1..(e - s)
         /\ \A o \in 1..(e - s) : TextOf(doc, s, e)[o] = doc[s + o - 1].tok
<1> DEFINE n == e - s
           x == [i \in 1..n |-> doc[s + i - 1].tok]
           pieces == [i \in 1..(e - s) |-> Shown(doc[s + i - 1].tok)]
<1>1. n \in Nat
  OBVIOUS
<1>2. ASSUME NEW i \in 1..n PROVE doc[s + i - 1].tok \in Text /\ doc[s + i - 1].tok # Obj
  <2>1. s + i - 1 \in 1..Len(doc)
    OBVIOUS
  <2>2. doc[s + i - 1] \in Items
    BY <2>1
  <2> QED BY <2>1, <2>2 DEF Items
<1>3. x \in [1..n -> Text]
  BY <1>2
<1>4. pieces = [i \in 1..n |-> <<x[i]>>]
  <2>1. \A i \in 1..n : Shown(doc[s + i - 1].tok) = <<x[i]>>
    BY <1>2 DEF Shown
  <2> QED BY <2>1
<1>5. TextOf(doc, s, e) = FlattenSeq(pieces)
  BY DEF TextOf
<1> HIDE DEF pieces
<1>6. TextOf(doc, s, e) = x
  <2> HIDE DEF x, n
  <2> QED BY <1>1, <1>3, <1>4, <1>5, FlattenedTokens
<1> QED BY <1>6

(* The paragraph of an item ends with the newline behind it.               *)
LEMMA ParagraphOfItem ==
  ASSUME NEW doc \in Seq(Items), NEW e \in Ends(doc), NEW i \in StartOf(doc, e)..e
  PROVE  EndOf(doc, i) = e
<1>0. e \in Nat /\ Ends(doc) \in SUBSET Nat
  BY EndsAreFinite
<1>1. StartOf(doc, e) \in 1..e /\ \A j \in StartOf(doc, e)..(e - 1) : j \notin Ends(doc)
  BY StartIsFirst
<1>2. e >= i /\ ~\E f \in Ends(doc) : i <= f /\ f < e
  BY <1>0, <1>1
<1>3. ASSUME NEW d \in Ends(doc), d >= i, ~\E f \in Ends(doc) : i <= f /\ f < d PROVE d = e
  <2>1. i <= d /\ i <= e /\ d \in Nat /\ i \in Nat
    BY <1>0, <1>1, <1>3
  <2>2. ~(d < e) /\ ~(e < d)
    BY <1>2, <1>3, <2>1
  <2> QED BY <1>0, <2>1, <2>2
<1>4. EndOf(doc, i) = CHOOSE d \in Ends(doc) : d >= i /\ ~\E f \in Ends(doc) : i <= f /\ f < d
  BY DEF EndOf
<1> QED BY <1>2, <1>3, <1>4

(* What the request of a call must meet in the document.                   *)
ParagraphStart(doc, i) == StartOf(doc, EndOf(doc, i))
InAim(srv, aim, i) ==
  \A n \in srv.names : n.name = aim =>
    \A j \in DOMAIN srv.doc : srv.doc[j].id = n.at => ParagraphStart(srv.doc, j) = ParagraphStart(srv.doc, i)

(* Hits, kind by kind of request. *)
LEMMA HitsByKind ==
  ASSUME NEW srv, NEW call
  PROVE  /\ call.stage = "names" =>
              (Hits(srv, call) <=>
                 \A i \in DOMAIN call.request.names :
                   LET at == call.request.names[i].at
                       e == EndOf(srv.doc, at)
                   IN at = ParagraphStart(srv.doc, e) /\ NamesIn(srv, ParagraphStart(srv.doc, e), e) = {})
         /\ call.stage = "edit" /\ call.op = "replace" =>
              (Hits(srv, call) <=> /\ srv.doc[call.request.at].tok = call.find
                                   /\ InAim(srv, call.aim, call.request.at))
         /\ call.stage = "edit" /\ call.op = "insert" /\ call.find = "AFTER" =>
              (Hits(srv, call) <=> call.request.at \in Ends(srv.doc) /\ InAim(srv, call.aim, call.request.at))
         /\ call.stage = "edit" /\ (call.op = "format" \/ (call.op = "insert" /\ call.find # "AFTER")) =>
              (Hits(srv, call) <=> /\ call.request.at = ParagraphStart(srv.doc, call.request.at)
                                   /\ InAim(srv, call.aim, call.request.at))
<1>1. CASE call.stage = "names"
  BY <1>1 DEF Hits, ParagraphStart
<1>2. CASE call.stage = "edit" /\ call.op = "replace"
  BY <1>2 DEF Hits, InAim, ParagraphStart
<1>3. CASE call.stage = "edit" /\ call.op = "insert" /\ call.find = "AFTER"
  BY <1>3 DEF Hits, InAim, ParagraphStart
<1>4. CASE call.stage = "edit" /\ (call.op = "format" \/ (call.op = "insert" /\ call.find # "AFTER"))
  BY <1>4 DEF Hits, InAim, ParagraphStart
<1> QED BY <1>1, <1>2, <1>3, <1>4

(* The anchor of a paragraph leads into it, when no two ranges have the    *)
(* same name.                                                              *)
LEMMA AnchorLeadsHome ==
  ASSUME NEW srv, WellFormed(srv), \A x, y \in srv.names : x.name = y.name => x = y,
         NEW e \in Ends(srv.doc), NEW aim, aim = AnchorIn(srv, StartOf(srv.doc, e), e), aim # None,
         NEW i \in StartOf(srv.doc, e)..e
  PROVE  InAim(srv, aim, i)
<1> DEFINE s == StartOf(srv.doc, e)
<1>1. /\ srv \in Services /\ srv.doc \in Seq(Items) /\ IsFiniteSet(srv.names)
      /\ \A k, l \in DOMAIN srv.doc : srv.doc[k].id = srv.doc[l].id => k = l
  BY DEF WellFormed, Services
<1>2. e \in 1..Len(srv.doc) /\ s \in 1..e
  BY <1>1, EndsAreFinite, StartIsFirst
<1> HIDE DEF s
<1>3. PICK m \in NamesIn(srv, s, e) : m.name = aim
  <2>1. s \in Nat /\ e \in Nat
    BY <1>2
  <2>2. aim = AnchorIn(srv, s, e)
    BY DEF s
  <2> QED BY <1>1, <2>1, <2>2, AnchorIsThere
<1>4. PICK k \in s..e : srv.doc[k].id = m.at
  BY DEF NamesIn
<1>5. m \in srv.names /\ k \in DOMAIN srv.doc
  BY <1>1, <1>2 DEF NamesIn
<1>6. ASSUME NEW n \in srv.names, n.name = aim, NEW j \in DOMAIN srv.doc, srv.doc[j].id = n.at
      PROVE  ParagraphStart(srv.doc, j) = ParagraphStart(srv.doc, i)
  <2>1. n = m
    BY <1>3, <1>5, <1>6
  <2>2. j = k
    BY <1>1, <1>4, <1>5, <1>6, <2>1
  <2>3. EndOf(srv.doc, j) = e /\ EndOf(srv.doc, i) = e
    BY <1>1, <1>4, <2>2, ParagraphOfItem DEF s
  <2> QED BY <2>3 DEF ParagraphStart
<1> QED BY <1>6 DEF InAim

(* A paragraph of a cache that is the document's.                          *)
LEMMA CachedParagraph ==
  ASSUME NEW srv, WellFormed(srv), NEW cache, cache = Parse(srv), NEW k \in DOMAIN cache
  PROVE  \E e \in Ends(srv.doc) :
           LET s == StartOf(srv.doc, e) IN
           /\ e \in 1..Len(srv.doc) /\ s \in 1..e
           /\ cache[k].start = s /\ cache[k].end = e
           /\ cache[k].text = TextOf(srv.doc, s, e) /\ cache[k].anchor = AnchorIn(srv, s, e)
<1>1. srv \in Services /\ srv.doc \in Seq(Items) /\ IsFiniteSet(srv.names)
  BY DEF WellFormed, Services
<1>2. k \in 1..Len(Parse(srv))
  <2>1. Parse(srv) \in Seq(Paragraphs)
    BY <1>1, ParseIsTyped
  <2> QED BY <2>1
<1> DEFINE e == Ascending(Ends(srv.doc))[k]
           s == StartOf(srv.doc, e)
<1>3. e \in Ends(srv.doc)
      /\ cache[k] = [start |-> s, end |-> e, text |-> TextOf(srv.doc, s, e), anchor |-> AnchorIn(srv, s, e)]
  BY <1>1, <1>2, ParseIsTyped
<1>4. e \in 1..Len(srv.doc) /\ s \in 1..e
  BY <1>1, <1>3, EndsAreFinite, StartIsFirst
<1> QED BY <1>3, <1>4

(* A call that has just begun, with its request.                           *)
LEMMA BegunCall ==
  ASSUME Shape, NEW c \in Calls, NEW op, NEW aim, NEW find, NEW request,
         Begin(c, op, "edit", aim, find, request)
  PROVE  /\ calls'[c].op = op /\ calls'[c].stage = "edit" /\ calls'[c].aim = aim
         /\ calls'[c].find = find /\ calls'[c].request = request
<1> DEFINE call == [Idle EXCEPT !.op = op, !.pc = "send", !.stage = "edit",
                                !.aim = aim, !.find = find, !.request = request]
<1>1. call.op = op /\ call.stage = "edit" /\ call.aim = aim /\ call.find = find /\ call.request = request
  BY DEF Idle
<1>2. calls' = [calls EXCEPT ![c] = call] /\ calls \in [Calls -> CallRecords]
  BY DEF Begin, Shape, Types
<1> HIDE DEF call
<1>3. calls'[c] = call
  BY <1>2
<1> QED BY <1>1, <1>3

PutsNoObject(request) == \A i \in DOMAIN request.put : request.put[i] # Obj

(* A layout call that sends nothing has ended. *)
LEMMA LinesOnlyEnds ==
  ASSUME Shape, NEW c \in Calls, FormatLinesOnly(c)
  PROVE  calls'[c].pc = "ok"
<1> DEFINE call == [Idle EXCEPT !.op = "lines", !.pc = "ok"]
<1>1. calls' = [calls EXCEPT ![c] = call] /\ calls \in [Calls -> CallRecords]
  BY DEF FormatLinesOnly, Shape, Types
<1>2. call.pc = "ok"
  BY DEF Idle
<1> HIDE DEF call
<1> QED BY <1>1, <1>2

(* What an edit puts is text. *)
LEMMA EditsPutText ==
  ASSUME Shape, NL # Obj, NEW c \in Calls, Asks(c), calls'[c].stage = "edit",
         calls'[c].pc = "send"
  PROVE  PutsNoObject(calls'[c].request)
<1>0. NoRequest = [at |-> 1, cut |-> 0, put |-> <<>>, names |-> <<>>]
  BY DEF NoRequest
<1>1. CASE Open(c)
  <2>1. Begin(c, "open", "load", None, None, NoRequest) /\ calls \in [Calls -> CallRecords]
    BY <1>1 DEF Open, Shape, Types
  <2>2. calls'[c].stage = "load"
    BY <2>1 DEF Begin, Idle
  <2> QED BY <2>2
<1>2. CASE ReplaceText(c)
  <2>1. PICK aim, find, at, put :
          /\ put \in {<<>>} \cup (Tokens \X Tokens)
          /\ Begin(c, "replace", "edit", aim, find, [NoRequest EXCEPT !.at = at, !.cut = 1, !.put = put])
    BY <1>2 DEF ReplaceText
  <2> DEFINE request == [NoRequest EXCEPT !.at = at, !.cut = 1, !.put = put]
  <2>2. request.put = put
    BY <1>0
  <2> HIDE DEF request
  <2>3. calls'[c].request = request
    BY <2>1, BegunCall DEF request
  <2>4. PutsNoObject(request)
    <3>1. CASE put = <<>>
      BY <2>2, <3>1 DEF PutsNoObject
    <3>2. CASE put # <<>>
      <4>1. PICK t \in Tokens, u \in Tokens : put = <<t, u>>
        BY <2>1, <3>2
      <4>2. t # Obj /\ u # Obj
        BY GoogleDocsAssumption
      <4> QED BY <2>2, <4>1, <4>2 DEF PutsNoObject
    <3> QED BY <3>1, <3>2
  <2> QED BY <2>3, <2>4
<1>3. CASE InsertParagraph(c)
  <2>1. PICK aim, at, t, position :
          /\ t \in Tokens
          /\ Begin(c, "insert", "edit", aim, position,
                   [NoRequest EXCEPT !.at = at, !.put = IF position = "BEFORE" THEN <<t, NL>> ELSE <<NL, t>>])
    BY <1>3 DEF InsertParagraph
  <2> DEFINE put == IF position = "BEFORE" THEN <<t, NL>> ELSE <<NL, t>>
             request == [NoRequest EXCEPT !.at = at, !.put = put]
  <2>2. request.put = put
    BY <1>0
  <2> HIDE DEF request
  <2>3. calls'[c].request = request
    BY <2>1, BegunCall DEF request
  <2>4. PutsNoObject(request)
    <3>1. t # Obj
      BY <2>1, GoogleDocsAssumption
    <3> QED BY <2>2, <3>1 DEF PutsNoObject
  <2> QED BY <2>3, <2>4
<1>4. CASE FormatLayout(c)
  <2>1. PICK aim, at : Begin(c, "format", "edit", aim, None, [NoRequest EXCEPT !.at = at])
    BY <1>4 DEF FormatLayout
  <2> DEFINE request == [NoRequest EXCEPT !.at = at]
  <2>2. request.put = <<>>
    BY <1>0
  <2> HIDE DEF request
  <2>3. calls'[c].request = request
    BY <2>1, BegunCall DEF request
  <2> QED BY <2>2, <2>3 DEF PutsNoObject
<1>5. CASE FormatLinesOnly(c)
  BY <1>5, LinesOnlyEnds
<1> QED BY <1>1, <1>2, <1>3, <1>4, <1>5 DEF Asks

(* An edit asked for with the document in the cache hits what it names.    *)
LEMMA AskedEditsHit ==
  ASSUME Shape, NEW c \in Calls, Asks(c), calls'[c].stage = "edit",
         calls'[c].pc = "send",
         session.cache = Parse(service), \A j \in DOMAIN service.doc : service.doc[j].tok # Obj,
         \A x, y \in service.names : x.name = y.name => x = y
  PROVE  Hits(service, calls'[c])
<1>0. NoRequest = [at |-> 1, cut |-> 0, put |-> <<>>, names |-> <<>>] /\ WellFormed(service)
      /\ service.doc \in Seq(Items)
  BY DEF NoRequest, Shape, Types, WellFormed, Services
<1>1. ASSUME NEW k \in Anchored
      PROVE  \E e \in Ends(service.doc) :
               LET s == StartOf(service.doc, e) IN
               /\ e \in 1..Len(service.doc) /\ s \in 1..e
               /\ session.cache[k].start = s /\ session.cache[k].end = e
               /\ session.cache[k].text = TextOf(service.doc, s, e)
               /\ \A i \in s..e : /\ ParagraphStart(service.doc, i) = s
                                  /\ InAim(service, session.cache[k].anchor, i)
  <2>1. k \in DOMAIN session.cache /\ session.cache[k].anchor # None
    BY DEF Anchored
  <2>2. PICK e \in Ends(service.doc) :
           LET s == StartOf(service.doc, e) IN
           /\ e \in 1..Len(service.doc) /\ s \in 1..e
           /\ session.cache[k].start = s /\ session.cache[k].end = e
           /\ session.cache[k].text = TextOf(service.doc, s, e)
           /\ session.cache[k].anchor = AnchorIn(service, s, e)
    <3>1. PICK cache : cache = session.cache
      OBVIOUS
    <3> QED BY <1>0, <2>1, <3>1, CachedParagraph
  <2>3. ASSUME NEW i \in StartOf(service.doc, e)..e
        PROVE  /\ ParagraphStart(service.doc, i) = StartOf(service.doc, e)
               /\ InAim(service, session.cache[k].anchor, i)
    <3>1. PICK aim : aim = session.cache[k].anchor
      OBVIOUS
    <3> QED BY <1>0, <2>1, <2>2, <3>1, ParagraphOfItem, AnchorLeadsHome DEF ParagraphStart
  <2> QED BY <2>2, <2>3
<1>2. CASE Open(c)
  <2>1. Begin(c, "open", "load", None, None, NoRequest) /\ calls \in [Calls -> CallRecords]
    BY <1>2 DEF Open, Shape, Types
  <2>2. calls'[c].stage = "load"
    BY <2>1 DEF Begin, Idle
  <2> QED BY <2>2
<1>3. CASE ReplaceText(c)
  <2>1. PICK k \in Anchored, find \in Tokens, put \in {<<>>} \cup (Tokens \X Tokens) :
          LET para == session.cache[k]
              o == CHOOSE o \in DOMAIN para.text :
                     para.text[o] = find /\ \A p \in 1..(o - 1) : para.text[p] # find
          IN /\ find \in Range(para.text)
             /\ Begin(c, "replace", "edit", para.anchor, find,
                      [NoRequest EXCEPT !.at = MatchAt(para, o), !.cut = 1, !.put = put])
    BY <1>3 DEF ReplaceText
  <2> DEFINE para == session.cache[k]
             text == para.text
             o == CHOOSE o \in DOMAIN text : text[o] = find /\ \A p \in 1..(o - 1) : text[p] # find
             request == [NoRequest EXCEPT !.at = MatchAt(para, o), !.cut = 1, !.put = put]
  <2>2. PICK e, s :
           /\ e \in Ends(service.doc)
           /\ s = StartOf(service.doc, e) /\ e \in 1..Len(service.doc) /\ s \in 1..e
           /\ para.start = s /\ text = TextOf(service.doc, s, e)
           /\ \A i \in s..e : InAim(service, para.anchor, i)
    BY <1>1
  <2>3. o \in DOMAIN text /\ text[o] = find
    <3>1. text \in Seq(Text) /\ find \in Range(text)
      <4>1. s \in Nat /\ 1 <= s /\ s <= e
        BY <2>2
      <4> QED BY <1>0, <2>1, <2>2, <4>1, TextIsTyped
    <3> HIDE DEF text
    <3> QED BY <3>1, FirstOccurrence
  <2>4. DOMAIN text = 1..(e - s) /\ \A i \in 1..(e - s) : text[i] = service.doc[s + i - 1].tok
    <3>1. PICK doc \in Seq(Items) : doc = service.doc
      BY <1>0
    <3>2. s \in Nat /\ 1 <= s /\ s <= e /\ e \in 1..Len(doc) /\ \A j \in DOMAIN doc : doc[j].tok # Obj
      BY <2>2, <3>1
    <3>3. text = TextOf(doc, s, e)
      BY <2>2, <3>1
    <3> HIDE DEF text
    <3> QED BY <3>1, <3>2, <3>3, PlainTextIsShown
  <2>5. request.at = para.start + o - 1
    BY <1>0 DEF MatchAt
  <2>6. Begin(c, "replace", "edit", para.anchor, find, request)
    BY <2>1
  <2> HIDE DEF request, o, text, para
  <2>7. o \in 1..(e - s) /\ request.at = s + o - 1 /\ request.at \in s..e
    BY <2>2, <2>3, <2>4, <2>5
  <2>8. service.doc[request.at].tok = find /\ InAim(service, para.anchor, request.at)
    BY <2>2, <2>3, <2>4, <2>7
  <2>9. /\ calls'[c].op = "replace" /\ calls'[c].stage = "edit" /\ calls'[c].aim = para.anchor
        /\ calls'[c].find = find /\ calls'[c].request = request
    BY <2>6, BegunCall
  <2> QED BY <2>8, <2>9, HitsByKind
<1>4. CASE InsertParagraph(c)
  <2>1. PICK k, put, position :
          /\ k \in Anchored /\ position \in {"BEFORE", "AFTER"}
          /\ Begin(c, "insert", "edit", session.cache[k].anchor, position,
                   [NoRequest EXCEPT !.at = InsertIndex(session.cache[k], position), !.put = put])
    BY <1>4 DEF InsertParagraph
  <2> DEFINE para == session.cache[k]
             request == [NoRequest EXCEPT !.at = InsertIndex(para, position), !.put = put]
  <2>2. PICK e, s :
           /\ e \in Ends(service.doc)
           /\ s = StartOf(service.doc, e) /\ e \in 1..Len(service.doc) /\ s \in 1..e
           /\ para.start = s /\ para.end = e
           /\ \A i \in s..e : ParagraphStart(service.doc, i) = s /\ InAim(service, para.anchor, i)
    BY <1>1, <2>1
  <2>3. request.at = IF position = "BEFORE" THEN s ELSE e
    BY <1>0, <2>2 DEF InsertIndex
  <2>4. Begin(c, "insert", "edit", para.anchor, position, request)
    BY <2>1
  <2> HIDE DEF request, para
  <2>5. /\ calls'[c].op = "insert" /\ calls'[c].stage = "edit" /\ calls'[c].aim = para.anchor
        /\ calls'[c].find = position /\ calls'[c].request = request
    BY <2>4, BegunCall
  <2>6. s \in s..e /\ e \in s..e
    BY <2>2
  <2>7. CASE position = "BEFORE"
    <3>1. request.at = ParagraphStart(service.doc, request.at) /\ InAim(service, para.anchor, request.at)
      BY <2>2, <2>3, <2>6, <2>7
    <3> QED BY <2>5, <2>7, <3>1, HitsByKind
  <2>8. CASE position = "AFTER"
    <3>1. request.at \in Ends(service.doc) /\ InAim(service, para.anchor, request.at)
      BY <2>2, <2>3, <2>6, <2>8
    <3> QED BY <2>5, <2>8, <3>1, HitsByKind
  <2> QED BY <2>1, <2>7, <2>8
<1>5. CASE FormatLayout(c)
  <2>1. PICK k \in Anchored :
          Begin(c, "format", "edit", session.cache[k].anchor, None,
                [NoRequest EXCEPT !.at = session.cache[k].start])
    BY <1>5 DEF FormatLayout
  <2> DEFINE para == session.cache[k]
             request == [NoRequest EXCEPT !.at = para.start]
  <2>2. PICK e, s :
           /\ e \in Ends(service.doc)
           /\ s = StartOf(service.doc, e) /\ e \in 1..Len(service.doc) /\ s \in 1..e
           /\ para.start = s
           /\ \A i \in s..e : ParagraphStart(service.doc, i) = s /\ InAim(service, para.anchor, i)
    BY <1>1
  <2>3. request.at = s
    BY <1>0, <2>2
  <2>4. Begin(c, "format", "edit", para.anchor, None, request)
    BY <2>1
  <2> HIDE DEF request, para
  <2>5. /\ calls'[c].op = "format" /\ calls'[c].stage = "edit" /\ calls'[c].aim = para.anchor
        /\ calls'[c].request = request
    BY <2>4, BegunCall
  <2>6. s \in s..e
    BY <2>2
  <2>7. request.at = ParagraphStart(service.doc, request.at) /\ InAim(service, para.anchor, request.at)
    BY <2>2, <2>3, <2>6
  <2> QED BY <2>5, <2>7, HitsByKind
<1>6. CASE FormatLinesOnly(c)
  BY <1>6, LinesOnlyEnds
<1> QED BY <1>2, <1>3, <1>4, <1>5, <1>6 DEF Asks

(* A naming request computed from the document names first items of        *)
(* paragraphs that have no name.                                           *)
LEMMA PreparedNamesHit ==
  ASSUME NEW srv, WellFormed(srv), NEW s \in Sessions, s.cache = Parse(srv),
         NEW call, call.stage = "names", Prepared(call, s)
  PROVE  Hits(srv, call)
<1>1. /\ srv \in Services /\ srv.doc \in Seq(Items) /\ IsFiniteSet(srv.names)
      /\ NoRequest = [at |-> 1, cut |-> 0, put |-> <<>>, names |-> <<>>]
  BY DEF WellFormed, Services, NoRequest
<1> DEFINE names == [i \in DOMAIN Bare(s) |-> [at |-> s.cache[Bare(s)[i]].start, name |-> BareNames(s)[i]]]
<1>2. call.request.names = names
  BY <1>1 DEF Prepared
<1>3. ASSUME NEW i \in DOMAIN names
      PROVE  LET at == names[i].at
                 e == EndOf(srv.doc, at)
             IN at = ParagraphStart(srv.doc, e) /\ NamesIn(srv, ParagraphStart(srv.doc, e), e) = {}
  <2>1. Bare(s)[i] \in DOMAIN s.cache /\ s.cache[Bare(s)[i]].anchor = None
    BY BareIsTyped
  <2>2. PICK k \in DOMAIN s.cache : k = Bare(s)[i] /\ s.cache[k].anchor = None
    BY <2>1
  <2>3. PICK e, first :
           /\ e \in Ends(srv.doc)
           /\ first = StartOf(srv.doc, e) /\ e \in 1..Len(srv.doc) /\ first \in 1..e
           /\ s.cache[k].start = first /\ s.cache[k].anchor = AnchorIn(srv, first, e)
    <3>1. PICK cache : cache = s.cache
      OBVIOUS
    <3> QED BY <3>1, CachedParagraph
  <2>4. names[i].at = first
    BY <2>2, <2>3
  <2> HIDE DEF names
  <2>5. EndOf(srv.doc, first) = e /\ ParagraphStart(srv.doc, e) = first
    <3>1. first \in StartOf(srv.doc, e)..e /\ e \in StartOf(srv.doc, e)..e
      BY <2>3
    <3> QED BY <1>1, <2>3, <3>1, ParagraphOfItem DEF ParagraphStart
  <2>6. NamesIn(srv, first, e) = {}
    <3>1. first \in Nat /\ e \in Nat
      BY <2>3
    <3>2. AnchorIn(srv, first, e) = None
      BY <2>2, <2>3
    <3> SUFFICES ASSUME NamesIn(srv, first, e) # {} PROVE FALSE
      OBVIOUS
    <3>3. None \in {r.name : r \in NamesIn(srv, first, e)}
      BY <1>1, <3>1, <3>2, AnchorIsThere
    <3>4. \A r \in NamesIn(srv, first, e) : r.name \in Nat
      BY <1>1 DEF NamesIn, Services, Ranges
    <3> QED BY <3>3, <3>4, GoogleDocsAssumption
  <2> QED BY <2>3, <2>4, <2>5, <2>6
<1> HIDE DEF names
<1> QED BY <1>2, <1>3, HitsByKind

(* The text of the document and of the edits under way.                    *)
PlainText == \A j \in DOMAIN service.doc : service.doc[j].tok # Obj
PutsText(call) == Waits(call) /\ call.stage = "edit" => PutsNoObject(call.request)

(* A request that may still be accepted hits what it was made for.         *)
Aimed(call) ==
  Waits(call) /\ ~Succeeded(call) /\ call.stage \in {"edit", "names"} /\ ~torn
    /\ session.required = service.rev => Hits(service, call)

TargetInv ==
  /\ PlainText
  /\ \A c \in Calls : PutsText(calls[c]) /\ Aimed(calls[c])
  /\ OnlyTornCachesMiss

(* A document without objects: its last item is a newline, so that is none. *)
NoObjects == \A i \in DOMAIN Doc0 : Doc0[i] # Obj

LEMMA NewlineIsNoObject == NoObjects => NL # Obj
<1> SUFFICES ASSUME NoObjects PROVE NL # Obj
  OBVIOUS
<1>1. PICK doc \in Seq(Tokens \cup {NL, Obj}) : doc = Doc0 /\ doc # <<>> /\ Last(doc) = NL
  BY GoogleDocsAssumption
<1>2. Len(doc) \in DOMAIN doc /\ doc[Len(doc)] = NL
  BY <1>1 DEF Last
<1> QED BY <1>1, <1>2 DEF NoObjects

(* Nothing has been missed in the first state.                             *)
LEMMA InitTarget == NoObjects /\ Init => TargetInv
<1> SUFFICES ASSUME NoObjects, Init PROVE TargetInv
  OBVIOUS
<1>1. \A c \in Calls : ~Waits(calls[c])
  BY DEF Init, Idle, Waits
<1>2. PlainText
  BY DEF Init, PlainText, NoObjects
<1> QED BY <1>1, <1>2 DEF Init, TargetInv, PutsText, Aimed, OnlyTornCachesMiss

(* A batch that puts no object leaves none.                                *)
LEMMA BatchKeepsText ==
  ASSUME NEW srv, WellFormed(srv), NEW r \in Requests, Fits(srv, r), PutsNoObject(r),
         \A j \in DOMAIN srv.doc : srv.doc[j].tok # Obj
  PROVE  \A j \in DOMAIN Applied(srv, r).doc : Applied(srv, r).doc[j].tok # Obj
<1> DEFINE doc == Applied(srv, r).doc
<1>1. /\ srv \in Services /\ srv.doc \in Seq(Items) /\ r.at \in DOMAIN srv.doc
      /\ r.at + r.cut <= Len(srv.doc) /\ r.cut \in Nat /\ r.at \in 1..Len(srv.doc)
  BY DEF WellFormed, Services, Requests, Fits
<1>2. PICK put \in Nat, n \in Nat, at \in Nat, cut \in Nat :
        put = Len(r.put) /\ n = Len(srv.doc) /\ at = r.at /\ cut = r.cut /\ 1 <= at /\ at + cut <= n
  BY <1>1 DEF Requests
<1>3. /\ doc \in Seq(Items) /\ Len(doc) = n - cut + put
      /\ \A i \in 1..(at - 1) : doc[i] = srv.doc[i]
      /\ \A i \in at..(at + put - 1) :
           doc[i] = [id |-> srv.next + (i - at + 1), tok |-> r.put[i - at + 1]]
      /\ \A i \in (at + put)..(n - cut + put) : doc[i] = srv.doc[i - put + cut]
  BY <1>1, <1>2, AppliedDocument
<1> HIDE DEF doc
<1>4. DOMAIN srv.doc = 1..n /\ DOMAIN r.put = 1..put /\ DOMAIN doc = 1..(n - cut + put)
  BY <1>1, <1>2, <1>3 DEF Requests
<1>5. ASSUME NEW j \in 1..(n - cut + put) PROVE doc[j].tok # Obj
  <2>1. CASE j \in 1..(at - 1)
    <3>1. j \in 1..n
      BY <1>2, <2>1
    <3> QED BY <1>3, <1>4, <2>1, <3>1
  <2>2. CASE j \in at..(at + put - 1)
    <3> DEFINE k == j - at + 1
    <3>1. k \in 1..put
      BY <1>2, <2>2
    <3>2. doc[j] = [id |-> srv.next + k, tok |-> r.put[k]]
      BY <1>3, <2>2
    <3> HIDE DEF k
    <3>3. doc[j].tok = r.put[k]
      BY <3>2
    <3> QED BY <1>4, <3>1, <3>3 DEF PutsNoObject
  <2>3. CASE j \in (at + put)..(n - cut + put)
    <3> DEFINE k == j - put + cut
    <3>0. j \in Int /\ at + put <= j /\ j <= n - cut + put
      BY <1>2, <2>3
    <3>1. k \in Int /\ at + cut <= k /\ k <= n
      BY <3>0
    <3>2. doc[j] = srv.doc[k]
      BY <1>3, <2>3
    <3> HIDE DEF k
    <3>3. k \in 1..n
      BY <1>2, <3>1
    <3> QED BY <1>4, <3>2, <3>3
  <2> QED BY <1>2, <2>1, <2>2, <2>3
<1> QED BY <1>4, <1>5 DEF doc

(* Only Serve counts misses, of requests that do not hit.                  *)
LEMMA MissedStep ==
  ASSUME Shape, [Next]_vars
  PROVE  \/ missed' = missed
         \/ \E c \in Calls :
              /\ Waits(calls[c]) /\ ~Succeeded(calls[c]) /\ calls[c].stage \in {"edit", "names"}
              /\ session.required = service.rev /\ ~Hits(service, calls[c])
              /\ missed' = missed \cup {[call |-> c, torn |-> torn]}
<1>1. ASSUME NEW c \in Calls, NEW kind \in {"ok", "lost"}, Serve(c, kind), missed' # missed
      PROVE  /\ Waits(calls[c]) /\ ~Succeeded(calls[c]) /\ calls[c].stage \in {"edit", "names"}
             /\ session.required = service.rev /\ ~Hits(service, calls[c])
             /\ missed' = missed \cup {[call |-> c, torn |-> torn]}
  <2>1. calls[c].stage \in {"edit", "load", "names", "reload"}
    BY DEF Shape, Types, CallRecords
  <2>2. /\ calls[c].pc = "send" /\ ~Fetching(c) /\ session.required = service.rev
        /\ missed' = IF Hits(service, calls[c]) THEN missed ELSE missed \cup {[call |-> c, torn |-> torn]}
    BY <1>1 DEF Serve, Sending, Accepted
  <2>3. ~Hits(service, calls[c])
    BY <1>1, <2>2
  <2> QED BY <2>1, <2>2, <2>3 DEF Waits, Succeeded, Fetching
<1>2. ASSUME NEW c \in Calls, Asks(c) PROVE missed' = missed
  BY <1>2 DEF Asks, Open, ReplaceText, InsertParagraph, FormatLayout, FormatLinesOnly
<1>3. ASSUME NEW c \in Calls, Fetch(c) \/ \E kind \in {"busy", "down", "conflict", "refused"} : Refuse(c, kind)
      PROVE  missed' = missed
  BY <1>3 DEF Fetch, Refuse
<1>4. ASSUME NEW c \in Calls, Receive(c) PROVE missed' = missed
  BY <1>4 DEF Receive, Retry, Fail, Edited, Loaded, Named
<1>5. CASE Close \/ Outside
  BY <1>5 DEF Close, Outside
<1>6. CASE UNCHANGED vars
  BY <1>6 DEF vars
<1> QED BY <1>1, <1>2, <1>3, <1>4, <1>5, <1>6 DEF Next, Attempt

(* A miss needs a request that does not hit, and so a cache left behind.   *)
LEMMA StepKeepsMisses ==
  ASSUME Shape, TargetInv, [Next]_vars
  PROVE  OnlyTornCachesMiss'
<1>1. CASE missed' = missed
  BY <1>1 DEF TargetInv, OnlyTornCachesMiss
<1>2. ASSUME NEW c \in Calls, Waits(calls[c]), ~Succeeded(calls[c]), calls[c].stage \in {"edit", "names"},
             session.required = service.rev, ~Hits(service, calls[c]),
             missed' = missed \cup {[call |-> c, torn |-> torn]}
      PROVE  OnlyTornCachesMiss'
  <2>1. torn
    BY <1>2 DEF TargetInv, Aimed
  <2>2. torn = TRUE
    BY <2>1 DEF Shape, Types
  <2>3. [call |-> c, torn |-> torn].torn = TRUE
    BY <2>2
  <2>4. \A m \in missed : m.torn
    BY DEF TargetInv, OnlyTornCachesMiss
  <2> QED BY <1>2, <2>3, <2>4 DEF OnlyTornCachesMiss
<1> QED BY <1>1, <1>2, MissedStep

(* A step whose call keeps its aim keeps the invariant.                    *)
LEMMA OneCallKeepsTarget ==
  ASSUME NEW c \in Calls, OthersRest(c), PlainText', PutsText(calls[c])', Aimed(calls[c])',
         OnlyTornCachesMiss'
  PROVE  TargetInv'
<1>1. ASSUME NEW d \in Calls PROVE PutsText(calls[d])' /\ Aimed(calls[d])'
  <2>1. CASE d = c
    BY <2>1
  <2>2. CASE d # c
    <3>1. ~Waits(calls'[d])
      BY <2>2 DEF OthersRest, Waits
    <3> QED BY <3>1 DEF PutsText, Aimed
  <2> QED BY <2>1, <2>2
<1> QED BY <1>1 DEF TargetInv

(* Every step leaves the requests under way on their targets.              *)
LEMMA StepKeepsTarget ==
  ASSUME NoObjects, Shape, Shape', Serial, CacheInv, NamesInv, TargetInv, ~Overlap, [Next]_vars
  PROVE  TargetInv'
<1>0. /\ NL # Obj /\ OnlyTornCachesMiss' /\ PlainText /\ service.rev \in Nat /\ None \notin Nat
      /\ (session.required \in Nat => session.required <= service.rev)
      /\ session.required \in Nat \cup {None}
  BY NewlineIsNoObject, StepKeepsMisses, GoogleDocsAssumption
     DEF TargetInv, Shape, Types, WellFormed, Services, Sessions, Serial
<1>1. service' = service => PlainText'
  BY <1>0 DEF PlainText
<1>2. ASSUME NEW c \in Calls, CallStep(c) PROVE TargetInv'
  <2>0. OthersRest(c) /\ PutsText(calls[c]) /\ Aimed(calls[c]) /\ Foreseen(calls[c])
    BY <1>2 DEF CallStep, TargetInv, CacheInv
  <2>1. CASE Began(c)
    <3>1. PlainText'
      BY <1>1, <2>1 DEF Began
    <3>2. calls'[c].stage \in {"load", "edit"} /\ Asks(c)
      BY <2>1 DEF Began
    <3>3. PutsText(calls[c])'
      BY <1>0, <2>1, <3>2, EditsPutText DEF PutsText, Began
    <3>4. Aimed(calls[c])'
      <4> SUFFICES ASSUME calls'[c].stage = "edit", ~torn', session'.required = service'.rev
                   PROVE  Hits(service', calls'[c])
        BY <3>2 DEF Aimed
      <4>1. service' = service /\ session' = session /\ torn' = torn
        BY <2>1 DEF Began
      <4>2. session.cache = Parse(service)
        <5>1. \A d \in Calls : ~(Waits(calls[d]) /\ calls[d].stage = "load")
          BY <2>0, <2>1 DEF OthersRest, Began, Waits
        <5> QED BY <4>1, <5>1 DEF CacheInv, CacheIsCurrent
      <4>3. Hits(service, calls'[c])
        BY <1>0, <2>1, <3>2, <4>2, AskedEditsHit DEF PlainText, NamesInv, NamesAgree, Began
      <4> QED BY <4>1, <4>3
    <3> QED BY <1>0, <2>0, <3>1, <3>3, <3>4, OneCallKeepsTarget
  <2>9. CASE Skipped(c)
    <3>1. PlainText'
      BY <1>1, <2>9 DEF Skipped
    <3>2. PutsText(calls[c])' /\ Aimed(calls[c])'
      BY <2>9 DEF Skipped, PutsText, Aimed, Waits
    <3> QED BY <1>0, <2>0, <3>1, <3>2, OneCallKeepsTarget
  <2>2. CASE Waited(c)
    <3>1. PlainText'
      BY <1>1, <2>2 DEF Waited
    <3>2. PutsText(calls[c])'
      BY <2>0, <2>2 DEF Waited, SameCall, PutsText
    <3>3. Hits(service, calls'[c]) = Hits(service, calls[c])
      BY <2>2 DEF Waited, SameCall, Hits
    <3>4. Aimed(calls[c])'
      BY <2>0, <2>2, <3>3 DEF Waited, SameCall, Aimed
    <3> QED BY <1>0, <2>0, <3>1, <3>2, <3>4, OneCallKeepsTarget
  <2>3. CASE Served(c)
    <3>1. /\ service' = Applied(service, calls[c].request) /\ Fits(service, calls[c].request)
          /\ session' = session /\ session.required = service.rev /\ SameCall(c) /\ Waits(calls[c])
          /\ calls[c].stage \in {"edit", "names"}
      BY <2>3 DEF Served, Waits
    <3>2. WellFormed(service) /\ calls[c].request \in Requests /\ service'.rev = service.rev + 1
      BY <2>3, ServedService
    <3>3. PutsNoObject(calls[c].request)
      <4>1. CASE calls[c].stage = "edit"
        BY <2>0, <3>1, <4>1 DEF PutsText
      <4>2. CASE calls[c].stage = "names"
        <5>1. Prepared(calls[c], session)
          BY <2>0, <3>1, <4>2 DEF Foreseen
        <5>2. calls[c].request.put = <<>>
          BY <5>1 DEF Prepared, NoRequest
        <5> QED BY <5>2 DEF PutsNoObject
      <4> QED BY <3>1, <4>1, <4>2
    <3>4. PlainText'
      <4>1. PICK srv, r : srv = service /\ r = calls[c].request
        OBVIOUS
      <4>2. \A j \in DOMAIN srv.doc : srv.doc[j].tok # Obj
        BY <1>0, <4>1 DEF PlainText
      <4>3. \A j \in DOMAIN Applied(srv, r).doc : Applied(srv, r).doc[j].tok # Obj
        BY <3>1, <3>2, <3>3, <4>1, <4>2, BatchKeepsText
      <4>4. service' = Applied(srv, r)
        BY <3>1, <4>1
      <4> QED BY <4>3, <4>4 DEF PlainText
    <3>5. PutsText(calls[c])'
      BY <3>1, <3>3 DEF SameCall, PutsText
    <3>6. session'.required # service'.rev
      BY <1>0, <3>1, <3>2
    <3>7. Aimed(calls[c])'
      BY <3>6 DEF Aimed
    <3> QED BY <1>0, <2>0, <3>4, <3>5, <3>7, OneCallKeepsTarget
  <2>4. CASE Fetched(c)
    <3>1. PlainText'
      BY <1>1, <2>4 DEF Fetched
    <3>2. PutsText(calls[c])' /\ Aimed(calls[c])'
      BY <2>4 DEF Fetched, SameCall, PutsText, Aimed
    <3> QED BY <1>0, <2>0, <3>1, <3>2, OneCallKeepsTarget
  <2>5. CASE Failed(c)
    <3>1. PlainText'
      BY <1>1, <2>5 DEF Failed
    <3>2. PutsText(calls[c])' /\ Aimed(calls[c])'
      BY <2>5 DEF Failed, PutsText, Aimed, Waits
    <3> QED BY <1>0, <2>0, <3>1, <3>2, OneCallKeepsTarget
  <2>6. CASE EditDone(c)
    <3>1. PlainText'
      BY <1>1, <2>6 DEF EditDone
    <3>2. PutsText(calls[c])' /\ Aimed(calls[c])'
      BY <2>6 DEF EditDone, PutsText, Aimed, Waits
    <3> QED BY <1>0, <2>0, <3>1, <3>2, OneCallKeepsTarget
  <2>7. CASE LoadDone(c)
    <3>1. PlainText'
      BY <1>1, <2>7 DEF LoadDone
    <3>2. PutsText(calls[c])'
      BY <2>7 DEF LoadDone, PutsText, Waits
    <3>3. Aimed(calls[c])'
      <4> SUFFICES ASSUME Waits(calls'[c]), session'.required = service'.rev
                   PROVE  Hits(service', calls'[c])
        BY DEF Aimed
      <4>1. /\ calls'[c].stage = "names" /\ Prepared(calls'[c], session') /\ service' = service
            /\ session'.cache = Parse(calls[c].answer.got) /\ session'.required = calls[c].answer.got.rev
            /\ Succeeded(calls[c]) /\ calls[c].answer.rev = calls[c].answer.got.rev
            /\ calls[c].stage \in {"load", "reload"}
        BY <2>7 DEF LoadDone, Waits
      <4>2. calls[c].answer.got = service
        BY <2>0, <4>1 DEF Foreseen
      <4>3. WellFormed(service) /\ session' \in Sessions /\ session'.cache = Parse(service)
        BY <4>1, <4>2 DEF Shape, Types
      <4>4. PICK s, call : s = session' /\ call = calls'[c]
        OBVIOUS
      <4>5. Hits(service, call)
        BY <4>1, <4>3, <4>4, PreparedNamesHit
      <4> QED BY <4>1, <4>4, <4>5
    <3> QED BY <1>0, <2>0, <3>1, <3>2, <3>3, OneCallKeepsTarget
  <2>8. CASE NameDone(c)
    <3>1. PlainText'
      BY <1>1, <2>8 DEF NameDone
    <3>2. PutsText(calls[c])' /\ Aimed(calls[c])'
      BY <2>8 DEF NameDone, PutsText, Aimed
    <3> QED BY <1>0, <2>0, <3>1, <3>2, OneCallKeepsTarget
  <2> QED BY <1>2, <2>1, <2>2, <2>3, <2>4, <2>5, <2>6, <2>7, <2>8, <2>9 DEF CallStep
<1>3. CASE Closing
  BY <1>0, <1>1, <1>3 DEF Closing, TargetInv, PutsText, Aimed
<1>4. CASE ByOthers
  <2>1. PICK r \in Requests : /\ Fits(service, r) /\ service' = Applied(service, r)
                              /\ PutsNoObject(r)
    BY <1>4 DEF ByOthers, OutsideRequest, PutsNoObject
  <2>2. session' = session /\ calls' = calls /\ service'.rev = service.rev + 1 /\ WellFormed(service)
    BY <1>4, ByOthersService DEF ByOthers
  <2>3. session'.required # service'.rev
    BY <1>0, <2>2
  <2>4. PlainText'
    <3>1. PICK srv : srv = service
      OBVIOUS
    <3>2. \A j \in DOMAIN srv.doc : srv.doc[j].tok # Obj
      BY <1>0, <3>1 DEF PlainText
    <3>3. \A j \in DOMAIN Applied(srv, r).doc : Applied(srv, r).doc[j].tok # Obj
      BY <2>1, <2>2, <3>1, <3>2, BatchKeepsText
    <3>4. service' = Applied(srv, r)
      BY <2>1, <3>1
    <3> QED BY <3>3, <3>4 DEF PlainText
  <2>5. \A c \in Calls : PutsText(calls[c])' /\ Aimed(calls[c])'
    BY <2>2, <2>3 DEF TargetInv, PutsText, Aimed
  <2> QED BY <1>0, <2>4, <2>5 DEF TargetInv
<1>5. CASE UNCHANGED vars
  <2>1. PlainText'
    BY <1>1, <1>5 DEF vars
  <2>2. \A c \in Calls : PutsText(calls[c])' /\ Aimed(calls[c])'
    BY <1>5 DEF vars, TargetInv, PutsText, Aimed
  <2> QED BY <1>0, <2>1, <2>2 DEF TargetInv
<1> QED BY <1>2, <1>3, <1>4, <1>5, StepsWithoutOverlap

(* For every text document and any number of calls, one after the other:   *)
(* an edit or an anchor lands where its caller named, whatever other       *)
(* people do and whichever answers are lost, unless it was computed from a *)
(* cache that could not be read again after an edit.                       *)
THEOREM OnlyTornCachesMissHolds ==
  ASSUME ~Overlap, NoObjects
  PROVE  Spec => []OnlyTornCachesMiss
<1>1. TargetInv => OnlyTornCachesMiss
  BY DEF TargetInv
<1>2. Init => Shape /\ Serial /\ CacheInv /\ NamesInv /\ TargetInv
  BY InitShape, InitSerial, InitCache, InitNames, InitTarget
<1>3. Shape /\ Serial /\ CacheInv /\ NamesInv /\ TargetInv /\ [Next]_vars
        => (Shape /\ Serial /\ CacheInv /\ NamesInv /\ TargetInv)'
  BY StepKeepsShape, StepKeepsSerial, StepKeepsCache, StepKeepsNames, StepKeepsTarget
<1> QED BY <1>1, <1>2, <1>3, PTL DEF Spec

===============================================================================
