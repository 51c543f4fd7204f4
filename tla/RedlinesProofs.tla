--------------------------- MODULE RedlinesProofs ---------------------------
(***************************************************************************)
(* Lemmas about the operators of Redlines: which revisions an edit puts    *)
(* into a document, what is visible after a replacement, and that a        *)
(* document with tracked edits of an author stays one that rejecting those *)
(* turns back into what was there; that resolving some revisions and then  *)
(* others is resolving them together; that a document and the same one     *)
(* edited without tracking stay twins, which accepting everything makes    *)
(* the same.                                                               *)
(***************************************************************************)
EXTENDS Redlines, FiniteSetTheorems, WellFoundedInduction, SequenceTheorems, TLAPS

(***************************************************************************)
(* Sets of naturals                                                        *)
(***************************************************************************)

(* Induction over finite sets: a smallest set of naturals that is not      *)
(* bounded would be bounded without one of its members.                    *)
LEMMA GreatestNatural ==
  ASSUME NEW S \in SUBSET Nat, IsFiniteSet(S), S # {}
  PROVE  \E m \in S : \A n \in S : n <= m
<1> DEFINE Bounded(T) == \E x \in T : \A y \in T : x >= y
           Bad == {T \in FiniteSubsetsOf(Nat) : T # {} /\ ~Bounded(T)}
<1>1. ASSUME Bad # {} PROVE FALSE
  <2>1. PICK T \in Bad : \A U \in Bad : ~(<<U, T>> \in StrictSubsetOrdering(Nat))
    <3>1. Bad \subseteq FiniteSubsetsOf(Nat)
      OBVIOUS
    <3>2. IsWellFoundedOn(StrictSubsetOrdering(Nat), FiniteSubsetsOf(Nat))
      BY FS_StrictSubsetOrderingWellFounded
    <3> HIDE DEF Bad
    <3> QED BY <1>1, <3>1, <3>2, WFMin
  <2>2. T \subseteq Nat /\ IsFiniteSet(T) /\ T # {} /\ ~Bounded(T)
    BY <2>1 DEF FiniteSubsetsOf
  <2>3. PICK e \in T : TRUE
    BY <2>2
  <2> DEFINE U == T \ {e}
  <2>4. U # {}
    <3> SUFFICES ASSUME U = {} PROVE FALSE
      OBVIOUS
    <3>1. T = {e} /\ e \in Nat
      BY <2>2, <2>3
    <3> QED BY <3>1, <2>2
  <2>5. IsFiniteSet(U)
    BY <2>2, FS_RemoveElement
  <2>6. U \in FiniteSubsetsOf(Nat) /\ <<U, T>> \in StrictSubsetOrdering(Nat)
    BY <2>2, <2>3, <2>5 DEF FiniteSubsetsOf, StrictSubsetOrdering
  <2>7. Bounded(U)
    BY <2>1, <2>4, <2>6
  <2>8. PICK x \in U : \A y \in U : x >= y
    BY <2>7
  <2>9. Bounded(T)
    <3>1. CASE x >= e
      BY <3>1, <2>8, <2>2
    <3>2. CASE e >= x
      BY <3>2, <2>8, <2>2, <2>3
    <3> QED BY <3>1, <3>2, <2>2, <2>3, <2>8
  <2> QED BY <2>2, <2>9
<1>2. S \in FiniteSubsetsOf(Nat)
  BY DEF FiniteSubsetsOf
<1>3. Bounded(S)
  BY <1>1, <1>2
<1> QED BY <1>3

(* What is left of a finite set below one of its members is finite, so the *)
(* least member is the greatest distance from that member.                 *)
LEMMA LeastNatural ==
  ASSUME NEW S \in SUBSET Nat, IsFiniteSet(S), S # {}
  PROVE  \E m \in S : \A n \in S : m <= n
<1>1. PICK top \in S : \A n \in S : n <= top
  BY GreatestNatural
<1> DEFINE gap == [n \in S |-> top - n]
           gaps == {gap[n] : n \in S}
<1>2. \A n \in S : gap[n] \in Nat /\ n = top - gap[n]
  BY <1>1
<1>3. gaps \in SUBSET Nat /\ gaps # {}
  BY <1>2
<1>4. IsFiniteSet(gaps)
  <2>1. gap \in Surjection(S, gaps)
    BY DEF Surjection
  <2> QED BY <2>1, FS_Surjection
<1>5. PICK g \in gaps : \A h \in gaps : h <= g
  BY <1>3, <1>4, GreatestNatural
<1>6. PICK m \in S : g = gap[m]
  BY <1>5
<1>7. \A n \in S : gap[n] <= gap[m]
  BY <1>5, <1>6
<1> QED BY <1>2, <1>7, <1>1

(* Induction up to a number, for the set of the numbers that satisfy what  *)
(* is to be shown: the least number left out would have none before it.    *)
LEMMA InductionUpTo ==
  ASSUME NEW n \in Nat, NEW G, 0 \in G, \A m \in 1..n : m - 1 \in G => m \in G
  PROVE  \A m \in 0..n : m \in G
<1> DEFINE Bad == (0..n) \ G
<1> SUFFICES ASSUME Bad # {} PROVE FALSE
  OBVIOUS
<1>1. Bad \in SUBSET Nat /\ IsFiniteSet(Bad)
  <2>1. IsFiniteSet(0..n)
    BY FS_Interval
  <2>2. Bad \in SUBSET (0..n) /\ 0..n \subseteq Nat
    OBVIOUS
  <2> HIDE DEF Bad
  <2> QED BY <2>1, <2>2, FS_Subset
<1>2. PICK m \in Bad : \A k \in Bad : m <= k
  <2> HIDE DEF Bad
  <2> QED BY <1>1, LeastNatural
<1>3. m \in 1..n /\ m - 1 \in 0..n
  <2>1. m \in 0..n /\ m # 0
    BY <1>2
  <2> QED BY <2>1
<1>4. m - 1 \notin Bad
  BY <1>2, <1>3
<1> QED BY <1>2, <1>3, <1>4

(* Ranks are places. *)
LEMMA RankIsTyped ==
  ASSUME NEW S \in SUBSET Nat, IsFiniteSet(S), NEW i \in S
  PROVE  Rank(S, i) \in 1..Cardinality(S)
<1> DEFINE below == {j \in S : j <= i}
<1>1. IsFiniteSet(below) /\ Cardinality(below) <= Cardinality(S)
  BY FS_Subset
<1>2. Cardinality(below) \in Nat /\ Cardinality(S) \in Nat
  BY <1>1, FS_CardinalityType
<1>3. below # {}
  <2>1. i \in below
    OBVIOUS
  <2> QED BY <2>1
<1>4. Cardinality(below) # 0
  BY <1>1, <1>3, FS_EmptySet
<1> QED BY <1>1, <1>2, <1>4 DEF Rank

(* A greater member has a greater rank. *)
LEMMA RankAscends ==
  ASSUME NEW S \in SUBSET Nat, IsFiniteSet(S), NEW i \in S, NEW j \in S, i < j
  PROVE  Rank(S, i) < Rank(S, j)
<1> DEFINE A == {n \in S : n <= i}
           B == {n \in S : n <= j}
<1>1. IsFiniteSet(A) /\ IsFiniteSet(B)
  BY FS_Subset
<1>0. i \in Nat /\ j \in Nat
  OBVIOUS
<1>2. A \subseteq B /\ j \in B /\ j \notin A
  <2>1. \A n \in Nat : n <= i => n <= j
    BY <1>0
  <2>2. j <= j /\ ~(j <= i)
    BY <1>0
  <2> QED BY <2>1, <2>2
<1>3. Cardinality(A) \in Nat /\ Cardinality(B) \in Nat
  BY <1>1, FS_CardinalityType
<1> HIDE DEF A, B
<1>4. Cardinality(A) <= Cardinality(B) /\ (Cardinality(A) = Cardinality(B) => A = B)
  <2>1. A \in SUBSET B
    BY <1>2
  <2> QED BY <1>1, <2>1, FS_Subset
<1>5. Cardinality(A) < Cardinality(B)
  BY <1>2, <1>3, <1>4
<1> QED BY <1>5 DEF Rank, A, B

(* No two members have one rank. *)
LEMMA RankIsOneToOne ==
  ASSUME NEW S \in SUBSET Nat, IsFiniteSet(S), NEW i \in S, NEW j \in S, Rank(S, i) = Rank(S, j)
  PROVE  i = j
<1>1. Rank(S, i) \in Nat /\ Rank(S, j) \in Nat
  BY RankIsTyped
<1>2. ~(i < j)
  BY <1>1, RankAscends
<1>3. ~(j < i)
  BY <1>1, RankAscends
<1> QED BY <1>2, <1>3

(* Every number up to the size of the set is the rank of a member, because *)
(* the ranks are as many as the members.                                   *)
LEMMA EveryRankIsTaken ==
  ASSUME NEW S \in SUBSET Nat, IsFiniteSet(S), NEW k \in 1..Cardinality(S)
  PROVE  \E i \in S : Rank(S, i) = k
<1> DEFINE n == Cardinality(S)
           rank == [i \in S |-> Rank(S, i)]
           ranks == {rank[i] : i \in S}
<1>0. n \in Nat
  BY FS_CardinalityType
<1>1. rank \in Bijection(S, ranks)
  <2>1. rank \in Surjection(S, ranks)
    BY DEF Surjection
  <2>2. \A i, j \in S : rank[i] = rank[j] => i = j
    BY RankIsOneToOne
  <2>3. rank \in Injection(S, ranks)
    BY <2>1, <2>2 DEF Injection, Surjection, IsInjective
  <2> QED BY <2>1, <2>3 DEF Bijection
<1>2. IsFiniteSet(ranks) /\ Cardinality(ranks) = n
  BY <1>1, FS_Bijection DEF ExistsBijection
<1>3. ranks \subseteq 1..n
  BY RankIsTyped
<1>4. IsFiniteSet(1..n) /\ Cardinality(1..n) = n
  BY <1>0, FS_Interval
<1>5. ranks = 1..n
  <2> HIDE DEF ranks, n
  <2> QED BY <1>2, <1>3, <1>4, FS_Subset
<1> HIDE DEF rank
<1>6. k \in ranks
  BY <1>5
<1> QED BY <1>6 DEF rank

(* Ascending(S) is a sequence of all members of S, each once and in order. *)
LEMMA AscendingListsAll ==
  ASSUME NEW S \in SUBSET Nat, IsFiniteSet(S)
  PROVE  /\ Cardinality(S) \in Nat
         /\ Ascending(S) \in [1..Cardinality(S) -> S]
         /\ \A i \in S : \E k \in 1..Cardinality(S) : Ascending(S)[k] = i
         /\ \A k, l \in 1..Cardinality(S) : k < l => Ascending(S)[k] < Ascending(S)[l]
<1> DEFINE n == Cardinality(S)
<1>0. n \in Nat
  BY FS_CardinalityType
<1>1. \A k \in 1..n : Ascending(S)[k] \in S /\ Rank(S, Ascending(S)[k]) = k
  BY EveryRankIsTaken DEF Ascending
<1>2. Ascending(S) \in [1..n -> S]
  BY <1>1 DEF Ascending
<1>3. ASSUME NEW i \in S PROVE \E k \in 1..n : Ascending(S)[k] = i
  <2>1. Rank(S, i) \in 1..n
    BY RankIsTyped
  <2>2. PICK k \in 1..n : k = Rank(S, i)
    BY <2>1
  <2> DEFINE m == Ascending(S)[k]
  <2>3. m \in S /\ Rank(S, m) = Rank(S, i)
    BY <2>2, <1>1
  <2> HIDE DEF m
  <2>4. m = i
    BY <2>3, RankIsOneToOne
  <2> QED BY <2>2, <2>4 DEF m
<1>4. ASSUME NEW k \in 1..n, NEW l \in 1..n, k < l PROVE Ascending(S)[k] < Ascending(S)[l]
  <2> DEFINE i == Ascending(S)[k]
             j == Ascending(S)[l]
  <2>1. i \in S /\ j \in S /\ Rank(S, i) = k /\ Rank(S, j) = l
    BY <1>1
  <2> HIDE DEF i, j
  <2>2. ~(j < i)
    <3> SUFFICES ASSUME j < i PROVE FALSE
      OBVIOUS
    <3>1. Rank(S, j) < Rank(S, i)
      BY <2>1, RankAscends
    <3> QED BY <3>1, <2>1, <1>4
  <2>3. i # j
    BY <2>1, <1>4
  <2>4. i \in Nat /\ j \in Nat
    BY <2>1
  <2>5. i < j
    BY <2>2, <2>3, <2>4
  <2> QED BY <2>5 DEF i, j
<1> QED BY <1>0, <1>2, <1>3, <1>4

(* A sequence of all members of S in order is Ascending(S).                *)
LEMMA AscendingIsOnly ==
  ASSUME NEW S \in SUBSET Nat, NEW m \in Nat, NEW q \in [1..m -> S],
         \A i \in S : \E k \in 1..m : q[k] = i,
         \A k, l \in 1..m : k < l => q[k] < q[l]
  PROVE  IsFiniteSet(S) /\ Cardinality(S) = m /\ Ascending(S) = q
<1>0. \A k \in 1..m : q[k] \in S /\ q[k] \in Nat
  OBVIOUS
<1>1. ASSUME NEW k \in 1..m, NEW l \in 1..m PROVE q[k] <= q[l] <=> k <= l
  <2>1. PICK a \in Nat, b \in Nat : a = q[k] /\ b = q[l]
    BY <1>0
  <2>2. CASE k < l
    BY <2>1, <2>2
  <2>3. CASE l < k
    BY <2>1, <2>3
  <2>4. CASE k = l
    BY <2>1, <2>4
  <2> QED BY <2>2, <2>3, <2>4
<1>2. ASSUME NEW k \in 0..m
      PROVE  LET upto == {q[l] : l \in 1..k} IN IsFiniteSet(upto) /\ Cardinality(upto) = k
  <2> DEFINE upto == {q[l] : l \in 1..k}
             f == [l \in 1..k |-> q[l]]
  <2>1. f \in Surjection(1..k, upto)
    BY DEF Surjection
  <2>2. \A i, j \in 1..k : f[i] = f[j] => i = j
    <3> SUFFICES ASSUME NEW i \in 1..k, NEW j \in 1..k, q[i] = q[j] PROVE i = j
      OBVIOUS
    <3>1. i \in 1..m /\ j \in 1..m
      OBVIOUS
    <3>2. q[i] <= q[j] /\ q[j] <= q[i]
      BY <1>0, <3>1
    <3> QED BY <1>1, <3>1, <3>2
  <2>3. f \in Injection(1..k, upto)
    BY <2>1, <2>2 DEF Injection, Surjection, IsInjective
  <2>4. ExistsBijection(1..k, upto)
    BY <2>1, <2>3 DEF Bijection, ExistsBijection
  <2>5. IsFiniteSet(1..k) /\ Cardinality(1..k) = k
    BY FS_Interval
  <2>6. IsFiniteSet(upto) /\ Cardinality(upto) = k
    <3> HIDE DEF upto
    <3> QED BY <2>4, <2>5, FS_Bijection
  <2> QED BY <2>6
<1>3. S = {q[l] : l \in 1..m}
  BY <1>0
<1>4. IsFiniteSet(S) /\ Cardinality(S) = m
  <2>1. m \in 0..m
    OBVIOUS
  <2> QED BY <1>2, <1>3, <2>1
<1>5. ASSUME NEW k \in 1..m PROVE Rank(S, q[k]) = k
  <2>1. {j \in S : j <= q[k]} = {q[l] : l \in 1..k}
    <3>1. ASSUME NEW j \in S, j <= q[k] PROVE j \in {q[l] : l \in 1..k}
      <4>1. PICK l \in 1..m : q[l] = j
        OBVIOUS
      <4>2. l <= k
        BY <1>1, <3>1, <4>1
      <4> QED BY <4>1, <4>2
    <3>2. ASSUME NEW l \in 1..k PROVE q[l] \in S /\ q[l] <= q[k]
      BY <1>0, <1>1
    <3> QED BY <3>1, <3>2
  <2>2. k \in 0..m
    OBVIOUS
  <2> QED BY <1>2, <2>1, <2>2 DEF Rank
<1>6. ASSUME NEW k \in 1..m PROVE (CHOOSE i \in S : Rank(S, i) = k) = q[k]
  <2> DEFINE i == CHOOSE i \in S : Rank(S, i) = k
  <2>1. q[k] \in S /\ Rank(S, q[k]) = k
    BY <1>0, <1>5
  <2>2. i \in S /\ Rank(S, i) = k
    BY <2>1
  <2> HIDE DEF i
  <2>3. i = q[k]
    BY <1>4, <2>1, <2>2, RankIsOneToOne
  <2> QED BY <2>3 DEF i
<1> QED BY <1>4, <1>6 DEF Ascending

(* Max is the greatest.                                                    *)
LEMMA MaxIs ==
  ASSUME NEW S \in SUBSET Nat, IsFiniteSet(S), S # {}
  PROVE  Max(S) \in S /\ \A n \in S : n <= Max(S)
<1>1. PICK m \in S : \A n \in S : n <= m
  BY GreatestNatural
<1>2. \A n \in S : m >= n
  BY <1>1
<1>3. Max(S) \in S /\ \A n \in S : Max(S) >= n
  BY <1>2 DEF Max
<1> QED BY <1>3

(***************************************************************************)
(* What a document may hold                                                *)
(***************************************************************************)

Toks == Tokens \cup {Obj, Mk, Open}
ItemsIn(E) == [tok : Toks, in : Seq(E)]
ParagraphsIn(E) == [id : Nat, mark : Marks(E), body : Bodies(E)]

(* What may hold more revisions may hold these.                            *)
LEMMA DocumentsGrow ==
  ASSUME NEW E, NEW F, E \subseteq F
  PROVE  /\ Marks(E) \subseteq Marks(F)
         /\ ItemsIn(E) \subseteq ItemsIn(F)
         /\ Bodies(E) \subseteq Bodies(F)
         /\ ParagraphsIn(E) \subseteq ParagraphsIn(F)
         /\ Documents(E) \subseteq Documents(F)
<1>1. Marks(E) \subseteq Marks(F)
  BY DEF Marks
<1>2. Seq(E) \subseteq Seq(F)
  BY SeqMonotonic
<1>3. ItemsIn(E) \subseteq ItemsIn(F)
  BY <1>2 DEF ItemsIn
<1>4. Bodies(E) \subseteq Bodies(F)
  BY <1>3, SeqMonotonic DEF Bodies, ItemsIn, Toks
<1>5. ParagraphsIn(E) \subseteq ParagraphsIn(F)
  BY <1>1, <1>4 DEF ParagraphsIn
<1>6. Documents(E) \subseteq Documents(F)
  BY <1>5, SeqMonotonic DEF Documents, ParagraphsIn
<1> QED BY <1>1, <1>3, <1>4, <1>5, <1>6

(* The revisions of a document, one by one.                                *)
LEMMA RevisionsAre ==
  ASSUME NEW d, NEW r
  PROVE  r \in Revisions(d) <=>
           \E j \in DOMAIN d :
             \/ r \in d[j].mark
             \/ \E i \in DOMAIN d[j].body : r \in Range(d[j].body[i].in) /\ r.kind # "link"
BY DEF Revisions

(* A document's revisions are among those it may hold.                     *)
LEMMA RevisionsAreIn ==
  ASSUME NEW E, NEW d \in Documents(E)
  PROVE  Revisions(d) \subseteq {e \in E : e.kind # "link"}
<1> SUFFICES ASSUME NEW r \in Revisions(d) PROVE r \in E /\ r.kind # "link"
  OBVIOUS
<1>1. PICK j \in DOMAIN d :
        \/ r \in d[j].mark
        \/ \E i \in DOMAIN d[j].body : r \in Range(d[j].body[i].in) /\ r.kind # "link"
  BY RevisionsAre
<1>2. d[j] \in ParagraphsIn(E)
  <2> DEFINE P == ParagraphsIn(E)
  <2>1. d \in Seq(P)
    BY DEF Documents, ParagraphsIn
  <2> HIDE DEF P
  <2>2. d[j] \in P
    BY <2>1, LenProperties, ElementOfSeq
  <2> QED BY <2>2 DEF P
<1>3. CASE r \in d[j].mark
  BY <1>2, <1>3 DEF ParagraphsIn, Marks
<1>4. ASSUME NEW i \in DOMAIN d[j].body, r \in Range(d[j].body[i].in), r.kind # "link"
      PROVE  r \in E
  <2>1. d[j].body \in Seq(ItemsIn(E))
    BY <1>2 DEF ParagraphsIn, Bodies, ItemsIn, Toks
  <2>2. d[j].body[i] \in ItemsIn(E)
    BY <2>1, LenProperties, ElementOfSeq
  <2>3. d[j].body[i].in \in Seq(E)
    BY <2>2 DEF ItemsIn
  <2> QED BY <1>4, <2>3, RangeOfSeq
<1> QED BY <1>1, <1>3, <1>4

(* A document fits any set that has its revisions and every hyperlink.     *)
LEMMA HoldsItsRevisions ==
  ASSUME NEW E, NEW F, NEW d \in Documents(E),
         \A e \in E : e.kind = "link" \/ e \in Revisions(d) => e \in F
  PROVE  d \in Documents(F)
<1> DEFINE P == ParagraphsIn(E)
           Q == ParagraphsIn(F)
<1>1. d \in Seq(P)
  BY DEF Documents, ParagraphsIn
<1>2. ASSUME NEW j \in 1..Len(d) PROVE d[j] \in Q
  <2>1. d[j] \in P /\ j \in DOMAIN d
    <3> HIDE DEF P
    <3> QED BY <1>1, LenProperties, ElementOfSeq
  <2>2. d[j].mark \in Marks(F)
    <3>1. ASSUME NEW r \in d[j].mark PROVE r \in F
      <4>1. r \in Revisions(d)
        BY <2>1, RevisionsAre
      <4>2. r \in E
        BY <2>1 DEF ParagraphsIn, Marks
      <4> QED BY <4>1, <4>2
    <3>2. \A r \in d[j].mark : r.kind # "link"
      BY <2>1 DEF ParagraphsIn, Marks
    <3> QED BY <2>1, <3>1, <3>2 DEF ParagraphsIn, Marks
  <2>3. d[j].body \in Bodies(F)
    <3> DEFINE body == d[j].body
    <3>1. body \in Seq(ItemsIn(E))
      BY <2>1 DEF ParagraphsIn, Bodies, ItemsIn, Toks
    <3>2. ASSUME NEW i \in 1..Len(body) PROVE body[i] \in ItemsIn(F)
      <4>1. body[i] \in ItemsIn(E) /\ i \in DOMAIN body
        BY <3>1, LenProperties, ElementOfSeq
      <4>2. body[i].in \in Seq(E)
        BY <4>1 DEF ItemsIn
      <4>3. ASSUME NEW k \in 1..Len(body[i].in) PROVE body[i].in[k] \in F
        <5>1. body[i].in[k] \in E
          BY <4>2, ElementOfSeq
        <5>2. body[i].in[k] \in Range(body[i].in)
          BY <4>2, RangeEquality
        <5>3. body[i].in[k].kind # "link" => body[i].in[k] \in Revisions(d)
          BY <2>1, <4>1, <5>2, RevisionsAre
        <5> QED BY <5>1, <5>3
      <4>4. body[i].in \in Seq(F)
        <5>1. body[i].in \in [1..Len(body[i].in) -> E] /\ Len(body[i].in) \in Nat
          BY <4>2, LenProperties
        <5>2. body[i].in \in [1..Len(body[i].in) -> F]
          BY <5>1, <4>3
        <5> QED BY <5>1, <5>2
      <4> QED BY <4>1, <4>4 DEF ItemsIn
    <3>3. body \in [1..Len(body) -> ItemsIn(E)] /\ Len(body) \in Nat
      BY <3>1, LenProperties
    <3>4. body \in [1..Len(body) -> ItemsIn(F)]
      BY <3>3, <3>2
    <3>5. body \in Seq(ItemsIn(F))
      BY <3>3, <3>4
    <3> QED BY <3>5 DEF Bodies, ItemsIn, Toks
  <2> QED BY <2>1, <2>2, <2>3 DEF ParagraphsIn
<1>3. d \in [1..Len(d) -> P] /\ Len(d) \in Nat
  BY <1>1, LenProperties
<1> HIDE DEF P, Q
<1>4. d \in [1..Len(d) -> Q]
  BY <1>2, <1>3
<1>5. d \in Seq(Q)
  BY <1>3, <1>4
<1> QED BY <1>5 DEF Q, Documents, ParagraphsIn

(* A document has finitely many revisions. *)
LEMMA RevisionsAreFinite ==
  ASSUME NEW E, NEW d \in Documents(E)
  PROVE  IsFiniteSet(Revisions(d))
<1> DEFINE P == ParagraphsIn(E)
           of(j, i) == {r \in Range(d[j].body[i].in) : r.kind # "link"}
           items(j) == {of(j, i) : i \in DOMAIN d[j].body}
           mine(j) == d[j].mark \cup UNION items(j)
           all == {mine(j) : j \in DOMAIN d}
<1>1. d \in Seq(P)
  BY DEF Documents, ParagraphsIn
<1>2. DOMAIN d = 1..Len(d) /\ Len(d) \in Nat
  BY <1>1, LenProperties
<1>3. ASSUME NEW j \in DOMAIN d PROVE IsFiniteSet(mine(j))
  <2>1. d[j] \in P
    <3> HIDE DEF P
    <3> QED BY <1>1, <1>2, ElementOfSeq
  <2>2. IsFiniteSet(d[j].mark)
    BY <2>1 DEF ParagraphsIn, Marks
  <2>3. d[j].body \in Seq(ItemsIn(E))
    BY <2>1 DEF ParagraphsIn, Bodies, ItemsIn, Toks
  <2>4. DOMAIN d[j].body = 1..Len(d[j].body) /\ Len(d[j].body) \in Nat
    BY <2>3, LenProperties
  <2>5. ASSUME NEW i \in DOMAIN d[j].body PROVE IsFiniteSet(of(j, i))
    <3> DEFINE path == d[j].body[i].in
    <3>0. d[j].body[i] \in ItemsIn(E)
      BY <2>3, <2>4, ElementOfSeq
    <3>1. path \in Seq(E)
      BY <3>0 DEF ItemsIn
    <3>2. DOMAIN path = 1..Len(path) /\ Len(path) \in Nat
      BY <3>1, LenProperties
    <3>3. IsFiniteSet(DOMAIN path)
      BY <3>2, FS_Interval
    <3>4. path \in Surjection(DOMAIN path, Range(path))
      BY <3>1, <3>2 DEF Surjection, Range
    <3>5. IsFiniteSet(Range(path))
      BY <3>3, <3>4, FS_Surjection
    <3> QED BY <3>5, FS_Subset
  <2>6. IsFiniteSet(items(j))
    <3> DEFINE f == [i \in DOMAIN d[j].body |-> of(j, i)]
    <3>1. f \in Surjection(DOMAIN d[j].body, items(j))
      BY DEF Surjection
    <3>2. IsFiniteSet(DOMAIN d[j].body)
      BY <2>4, FS_Interval
    <3> QED BY <3>1, <3>2, FS_Surjection
  <2>7. IsFiniteSet(UNION items(j))
    <3>1. \A s \in items(j) : IsFiniteSet(s)
      BY <2>5
    <3> HIDE DEF items
    <3> QED BY <2>6, <3>1, FS_UNION
  <2> QED BY <2>2, <2>7, FS_Union
<1>4. IsFiniteSet(all)
  <2> DEFINE f == [j \in DOMAIN d |-> mine(j)]
  <2> HIDE DEF mine
  <2>1. f \in Surjection(DOMAIN d, all)
    BY DEF Surjection
  <2>2. IsFiniteSet(DOMAIN d)
    BY <1>2, FS_Interval
  <2> QED BY <2>1, <2>2, FS_Surjection
<1>5. IsFiniteSet(UNION all)
  <2>1. \A s \in all : IsFiniteSet(s)
    <3> HIDE DEF mine
    <3> QED BY <1>3
  <2> HIDE DEF all
  <2> QED BY <1>4, <2>1, FS_UNION
<1>6. Revisions(d) = UNION all
  BY DEF Revisions
<1> QED BY <1>5, <1>6

(* So the ids of its revisions can be compared.                            *)
LEMMA IdsAreNaturals ==
  ASSUME NEW authors, NEW d \in Documents(Markup(authors))
  PROVE  Ids(Revisions(d)) \in SUBSET Nat /\ IsFiniteSet(Ids(Revisions(d)))
<1> DEFINE f == [r \in Revisions(d) |-> r.id]
<1>1. Revisions(d) \subseteq {e \in Markup(authors) : e.kind # "link"}
  BY RevisionsAreIn
<1>2. Ids(Revisions(d)) \in SUBSET Nat
  BY <1>1 DEF Ids, Markup
<1>3. f \in Surjection(Revisions(d), Ids(Revisions(d)))
  BY DEF Surjection, Ids
<1>4. IsFiniteSet(Revisions(d))
  BY RevisionsAreFinite
<1> QED BY <1>2, <1>3, <1>4, FS_Surjection

(***************************************************************************)
(* Replacements in a paragraph                                             *)
(***************************************************************************)

(* The visible items of a body are listed by their places. *)
LEMMA ShownIsListed ==
  ASSUME NEW E, NEW body \in Bodies(E)
  PROVE  /\ ShownAt(body) \in Seq(DOMAIN body) /\ IsFiniteSet(DOMAIN body)
         /\ \A k \in 1..Len(ShownAt(body)) : ShownAt(body)[k] \in DOMAIN body
<1>1. DOMAIN body = 1..Len(body) /\ Len(body) \in Nat
  BY LenProperties DEF Bodies
<1>2. IsFiniteSet(DOMAIN body)
  BY <1>1, FS_Interval
<1>3. Shown(body) \in SUBSET (DOMAIN body)
  BY DEF Shown
<1>4. IsFiniteSet(Shown(body)) /\ Shown(body) \in SUBSET Nat
  BY <1>1, <1>2, <1>3, FS_Subset
<1>5. /\ Cardinality(Shown(body)) \in Nat
      /\ Ascending(Shown(body)) \in [1..Cardinality(Shown(body)) -> Shown(body)]
  BY <1>4, AscendingListsAll
<1>6. ShownAt(body) \in [1..Cardinality(Shown(body)) -> DOMAIN body]
  BY <1>3, <1>5 DEF ShownAt
<1>7. ShownAt(body) \in Seq(DOMAIN body)
  BY <1>5, <1>6
<1> QED BY <1>2, <1>7, ElementOfSeq

(* The number of stretches of removed items. *)
Stretches(cut) == Cardinality({j \in cut : j - 1 \notin cut})

(* Every item that is cut lies in one of the stretches. *)
LEMMA StretchIsCounted ==
  ASSUME NEW cut \in SUBSET Nat, IsFiniteSet(cut), NEW i \in cut
  PROVE  Stretches(cut) \in Nat /\ StretchOf(cut, i) \in 1..Stretches(cut)
<1> DEFINE A == {j \in cut : j <= i /\ j - 1 \notin cut}
           D == {j \in cut : j - 1 \notin cut}
<1>1. IsFiniteSet(D)
  BY FS_Subset
<1>2. A \in SUBSET D
  OBVIOUS
<1>3. IsFiniteSet(A) /\ Cardinality(A) <= Cardinality(D)
  <2> HIDE DEF A, D
  <2> QED BY <1>1, <1>2, FS_Subset
<1>4. Cardinality(A) \in Nat /\ Cardinality(D) \in Nat
  BY <1>1, <1>3, FS_CardinalityType
<1>5. A # {}
  <2>1. PICK m \in cut : \A n \in cut : m <= n
    BY LeastNatural
  <2>2. m \in Nat /\ m <= i /\ ~(m <= m - 1)
    BY <2>1
  <2>3. m - 1 \notin cut
    BY <2>1, <2>2
  <2> QED BY <2>1, <2>2, <2>3
<1>6. Cardinality(A) # 0
  <2> HIDE DEF A
  <2> QED BY <1>3, <1>5, FS_EmptySet
<1>7. Cardinality(A) \in 1..Cardinality(D)
  <2> HIDE DEF A, D
  <2> QED BY <1>3, <1>4, <1>6
<1> QED BY <1>4, <1>7 DEF StretchOf, Stretches

(* Striking wraps items in deletions with the ids that are counted. *)
LEMMA StruckBody ==
  ASSUME NEW E, NEW F, E \subseteq F,
         NEW p, p.body \in Bodies(E), NEW cut \in SUBSET (DOMAIN p.body),
         NEW by, NEW next \in Nat,
         \A i \in next..(next + Stretches(cut) - 1) : Element("del", by, i) \in F
  PROVE  /\ Struck(p, cut, by, next) \in Bodies(F)
         /\ Len(Struck(p, cut, by, next)) = Len(p.body)
<1> DEFINE body == p.body
           n == Len(body)
           dels == Stretches(cut)
<1>1. body \in Seq(ItemsIn(E)) /\ n \in Nat /\ DOMAIN body = 1..n
  BY LenProperties DEF Bodies, ItemsIn, Toks
<1>2. cut \in SUBSET Nat /\ IsFiniteSet(cut)
  <2>1. cut \in SUBSET (1..n)
    BY <1>1
  <2>2. IsFiniteSet(1..n)
    BY <1>1, FS_Interval
  <2> QED BY <1>1, <2>1, <2>2, FS_Subset
<1>3. ASSUME NEW i \in 1..n PROVE Struck(p, cut, by, next)[i] \in ItemsIn(F)
  <2>1. body[i] \in ItemsIn(E)
    BY <1>1, ElementOfSeq
  <2>2. body[i] \in ItemsIn(F)
    BY <2>1, DocumentsGrow
  <2>3. CASE i \notin cut
    BY <1>1, <2>2, <2>3 DEF Struck
  <2>4. CASE i \in cut
    <3> DEFINE e == Element("del", by, next + StretchOf(cut, i) - 1)
    <3>1. StretchOf(cut, i) \in 1..dels /\ dels \in Nat
      BY <1>2, <2>4, StretchIsCounted
    <3>2. e \in F
      <4>1. next + StretchOf(cut, i) - 1 \in next..(next + dels - 1)
        <5> HIDE DEF dels
        <5> QED BY <3>1
      <4> QED BY <4>1
    <3>3. Append(body[i].in, e) \in Seq(F)
      <4> HIDE DEF e
      <4>1. body[i].in \in Seq(F)
        BY <2>2 DEF ItemsIn
      <4> QED BY <3>2, <4>1, AppendProperties
    <3>4. Struck(p, cut, by, next)[i] = [body[i] EXCEPT !.in = Append(@, e)]
      BY <1>1, <2>4 DEF Struck
    <3> HIDE DEF e
    <3> QED BY <2>2, <3>3, <3>4 DEF ItemsIn
  <2> QED BY <2>3, <2>4
<1>4. DOMAIN Struck(p, cut, by, next) = 1..n
  BY <1>1 DEF Struck
<1>5. Struck(p, cut, by, next) = [i \in 1..n |-> Struck(p, cut, by, next)[i]]
  BY <1>1 DEF Struck
<1>6. Struck(p, cut, by, next) \in [1..n -> ItemsIn(F)]
  BY <1>3, <1>5
<1>7. Struck(p, cut, by, next) \in Seq(ItemsIn(F))
  BY <1>1, <1>6
<1>8. Len(Struck(p, cut, by, next)) = n
  BY <1>1, <1>4, <1>7, LenProperties
<1> QED BY <1>7, <1>8 DEF Bodies, ItemsIn, Toks

(* New text goes into a body at any place. *)
LEMMA SplicedBody ==
  ASSUME NEW F, NEW body \in Bodies(F), NEW items \in Bodies(F), NEW after \in 0..Len(body)
  PROVE  Spliced(body, after, items) \in Bodies(F)
<1> DEFINE I == ItemsIn(F)
<1>1. body \in Seq(I) /\ items \in Seq(I)
  BY DEF Bodies, ItemsIn, Toks
<1> HIDE DEF I
<1>2. Len(body) \in Nat /\ DOMAIN body = 1..Len(body)
  BY <1>1, LenProperties
<1>3. SubSeq(body, 1, after) \in Seq(I)
  BY <1>1, <1>2, ElementOfSeq, SubSeqProperties
<1>4. SubSeq(body, after + 1, Len(body)) \in Seq(I)
  BY <1>1, <1>2, ElementOfSeq, SubSeqProperties
<1>5. Spliced(body, after, items) \in Seq(I)
  BY <1>1, <1>3, <1>4, ConcatProperties DEF Spliced
<1> QED BY <1>5 DEF I, Bodies, ItemsIn, Toks

(* Text in one path of elements is a body. *)
LEMMA ItemsBody ==
  ASSUME NEW F, NEW text \in Seq(Tokens), NEW in \in Seq(F)
  PROVE  Items(text, in) \in Bodies(F)
<1>1. Len(text) \in Nat /\ DOMAIN text = 1..Len(text) /\ text \in [1..Len(text) -> Tokens]
  BY LenProperties
<1>2. Items(text, in) \in [1..Len(text) -> ItemsIn(F)]
  BY <1>1 DEF Items, Item, ItemsIn, Toks
<1>3. Items(text, in) \in Seq(ItemsIn(F))
  BY <1>1, <1>2
<1> QED BY <1>3 DEF Bodies, ItemsIn, Toks

(* No text needs no path. *)
LEMMA NoItemsBody ==
  ASSUME NEW F, NEW in
  PROVE  Items(<<>>, in) \in Bodies(F)
<1>1. Items(<<>>, in) = <<>>
  BY DEF Items
<1>2. <<>> \in Seq(ItemsIn(F))
  BY EmptySeq
<1> QED BY <1>1, <1>2 DEF Bodies, ItemsIn, Toks

(* The replacement of an accepted range goes somewhere inside the body, in *)
(* a path that is there; what is cut is in the body.                       *)
LEMMA RangeIsInside ==
  ASSUME NEW E, NEW p \in ParagraphsIn(E), NEW s \in Nat, NEW e \in Nat, ~Refused(p, s, e)
  PROVE  /\ Place(p, s, e).after \in 0..Len(p.body)
         /\ Place(p, s, e).in \in Seq(E)
         /\ Cut(p, s, e) \in SUBSET (DOMAIN p.body)
         /\ IsFiniteSet(Cut(p, s, e))
<1> DEFINE at == ShownAt(p.body)
           n == Len(p.body)
<1>1. p.body \in Bodies(E)
  BY DEF ParagraphsIn
<1>2. p.body \in Seq(ItemsIn(E)) /\ DOMAIN p.body = 1..n /\ n \in Nat
  BY <1>1, LenProperties DEF Bodies, ItemsIn, Toks
<1>3. at \in Seq(1..n) /\ \A k \in 1..Len(at) : at[k] \in 1..n
  BY <1>1, <1>2, ShownIsListed
<1>4. at # <<>> /\ e <= Len(at) /\ Len(at) \in Nat /\ 1 <= Len(at)
  <2>1. at # <<>> /\ ~(e > Len(at))
    BY DEF Refused
  <2> QED BY <1>3, <2>1, LenProperties, EmptySeq
<1>5. \A k \in 1..n : p.body[k].in \in Seq(E)
  <2> SUFFICES ASSUME NEW k \in 1..n PROVE p.body[k].in \in Seq(E)
    OBVIOUS
  <2>1. p.body[k] \in ItemsIn(E)
    BY <1>2, ElementOfSeq
  <2> QED BY <2>1 DEF ItemsIn
<1>6. Place(p, s, e).after \in 0..n /\ Place(p, s, e).in \in Seq(E)
  <2>1. CASE e = 0
    <3>1. at[1] \in 1..n
      BY <1>3, <1>4
    <3>2. Place(p, s, e) = [after |-> at[1] - 1, in |-> p.body[at[1]].in]
      BY <2>1 DEF Place
    <3> HIDE DEF at
    <3> QED BY <3>1, <3>2, <1>2, <1>5
  <2>2. CASE e # 0
    <3>1. at[e] \in 1..n
      BY <1>3, <1>4, <2>2
    <3>2. Place(p, s, e) = [after |-> at[e], in |-> p.body[at[e]].in]
      BY <2>2 DEF Place
    <3> HIDE DEF at
    <3> QED BY <3>1, <3>2, <1>2, <1>5
  <2> QED BY <2>1, <2>2
<1>7. Cut(p, s, e) \in SUBSET (1..n)
  <2> SUFFICES ASSUME NEW k \in (s + 1)..e PROVE at[k] \in 1..n
    BY DEF Cut
  <2>1. k \in 1..Len(at)
    BY <1>4
  <2> QED BY <2>1, <1>3
<1>8. IsFiniteSet(Cut(p, s, e))
  <2>1. 1 \in Int /\ n \in Int
    BY <1>2
  <2>2. IsFiniteSet(1..n)
    BY <2>1, FS_Interval
  <2> HIDE DEF n
  <2> QED BY <1>7, <2>2, FS_Subset
<1> QED BY <1>2, <1>6, <1>7, <1>8

(* The revisions a tracked edit of somebody may add. *)
Given(by, from, next) ==
  {Element(kind, by, id) : kind \in {"ins", "del"}, id \in from..(next - 1)}

(* One for each id, of the kind K says. *)
GivenAs(K, by, from, next) == {Element(K[id], by, id) : id \in from..(next - 1)}

LEMMA GivenAsIsGiven ==
  ASSUME NEW K \in [Nat -> {"ins", "del"}], NEW by, NEW from \in Nat, NEW next \in Nat
  PROVE  GivenAs(K, by, from, next) \subseteq Given(by, from, next)
<1> SUFFICES ASSUME NEW id \in from..(next - 1) PROVE Element(K[id], by, id) \in Given(by, from, next)
  BY DEF GivenAs
<1>1. K[id] \in {"ins", "del"}
  OBVIOUS
<1> QED BY <1>1 DEF Given

(* An element with an id from the range is a given one. *)
LEMMA ElementIsGiven ==
  ASSUME NEW K, NEW by, NEW from \in Nat, NEW next \in Nat, NEW id \in from..(next - 1), NEW kind,
         K[id] = kind
  PROVE  Element(kind, by, id) \in GivenAs(K, by, from, next)
BY DEF GivenAs

(* Deleting a paragraph mark. *)
LEMMA MarkDeletedIs ==
  ASSUME NEW E, NEW mark \in Marks(E), NEW by, NEW id
  PROVE  /\ MarkDeleted(mark, by, id) \in Marks(E \cup {Element("del", by, id)})
         /\ Cardinality(mark) \in Nat
         /\ \/ /\ MarkDeleted(mark, by, id) = mark
            \/ Cardinality(MarkDeleted(mark, by, id)) = Cardinality(mark) + 1
         /\ Cardinality(MarkDeleted(mark, by, id)) - Cardinality(mark) \in {0, 1}
<1> DEFINE x == Element("del", by, id)
           new == MarkDeleted(mark, by, id)
<1>1. mark \in SUBSET {e \in E : e.kind # "link"} /\ IsFiniteSet(mark)
  BY DEF Marks
<1>2. x.kind = "del"
  BY DEF Element
<1>3. Cardinality(mark) \in Nat
  BY <1>1, FS_CardinalityType
<1>4. CASE \E r \in mark : r.kind = "del"
  <2>1. new = mark
    BY <1>4 DEF MarkDeleted
  <2>2. mark \in Marks(E \cup {x})
    BY <1>1 DEF Marks
  <2> QED BY <2>1, <2>2, <1>3
<1>5. CASE ~\E r \in mark : r.kind = "del"
  <2>1. new = mark \cup {x}
    BY <1>5 DEF MarkDeleted
  <2>2. x \notin mark
    BY <1>2, <1>5
  <2> HIDE DEF x
  <2>3. IsFiniteSet(mark \cup {x}) /\ Cardinality(mark \cup {x}) = Cardinality(mark) + 1
    BY <1>1, <2>2, FS_AddElement
  <2>4. mark \cup {x} \in SUBSET {e \in E \cup {x} : e.kind # "link"}
    BY <1>1, <1>2
  <2>5. new \in Marks(E \cup {x})
    BY <2>1, <2>3, <2>4 DEF Marks
  <2> QED BY <2>1, <2>3, <2>5, <1>3 DEF x
<1> QED BY <1>4, <1>5

(* A tracked replacement keeps the paragraph's id and adds revisions of    *)
(* its author only, with ids from the counter on.                          *)
ReplaceAdds(r, E, K, p, by, next) ==
  /\ r.next \in Nat /\ next <= r.next
  /\ r.p \in ParagraphsIn(E \cup GivenAs(K, by, next, r.next))
  /\ r.p.id = p.id

LEMMA TrackedReplaceGives ==
  ASSUME NEW E, NEW p \in ParagraphsIn(E), NEW s \in Nat, NEW e \in Nat, ~Refused(p, s, e),
         NEW new \in Seq(Tokens), NEW by, NEW next \in Nat
  PROVE  \E K \in [Nat -> {"ins", "del"}] :
           ReplaceAdds(TrackedReplace(p, s, e, new, by, next), E, K, p, by, next)
<1> DEFINE cut == Cut(p, s, e)
           dels == Stretches(cut)
           place == Place(p, s, e)
           ins == Element("ins", by, next + dels)
           body == Spliced(Struck(p, cut, by, next), place.after, Items(new, Append(place.in, ins)))
           used == next + dels + (IF new = <<>> THEN 0 ELSE 1)
           blank == Blanks(p, s, e, new) /\ Inert(body, TRUE)
           mark == IF blank THEN MarkDeleted(p.mark, by, used) ELSE p.mark
           more == Cardinality(mark) - Cardinality(p.mark)
           r == TrackedReplace(p, s, e, new, by, next)
           K == [id \in Nat |-> IF id = next + dels /\ new # <<>> THEN "ins" ELSE "del"]
           F == E \cup GivenAs(K, by, next, r.next)
<1>1. r = [p |-> [p EXCEPT !.body = body, !.mark = mark],
           next |-> used + Cardinality(mark) - Cardinality(p.mark)]
  BY DEF TrackedReplace, Stretches
<1>2. /\ p.id \in Nat /\ p.mark \in Marks(E) /\ p.body \in Bodies(E)
      /\ p = [id |-> p.id, mark |-> p.mark, body |-> p.body]
  BY DEF ParagraphsIn
<1>3. r.p = [id |-> p.id, mark |-> mark, body |-> body]
  <2> HIDE DEF body, mark, r
  <2> QED BY <1>1, <1>2
<1>4. /\ place.after \in 0..Len(p.body) /\ place.in \in Seq(E)
      /\ cut \in SUBSET (DOMAIN p.body) /\ IsFiniteSet(cut)
  BY RangeIsInside
<1>5. dels \in Nat
  <2> HIDE DEF cut
  <2>1. IsFiniteSet({i \in cut : i - 1 \notin cut})
    BY <1>4, FS_Subset
  <2> QED BY <2>1, FS_CardinalityType DEF Stretches
<1>6. used \in Nat /\ next + dels <= used /\ (new # <<>> => next + dels + 1 = used)
  <2> HIDE DEF dels
  <2> QED BY <1>5
<1>7. /\ Cardinality(p.mark) \in Nat /\ Cardinality(mark) - Cardinality(p.mark) \in {0, 1}
      /\ mark # p.mark => Cardinality(mark) - Cardinality(p.mark) = 1
      /\ mark \in Marks(E \cup {Element("del", by, used)})
      /\ mark = p.mark \/ mark = MarkDeleted(p.mark, by, used)
  <2> HIDE DEF blank, used
  <2>1. CASE blank
    BY <1>2, <2>1, MarkDeletedIs
  <2>2. CASE ~blank
    <3>1. mark = p.mark
      BY <2>2
    <3>2. Cardinality(p.mark) \in Nat
      BY <1>2, MarkDeletedIs
    <3>3. p.mark \in Marks(E \cup {Element("del", by, used)})
      BY <1>2, DocumentsGrow
    <3> QED BY <3>1, <3>2, <3>3
  <2> QED BY <2>1, <2>2
<1>8. Cardinality(mark) \in Nat
  <2>1. IsFiniteSet(mark)
    <3> HIDE DEF mark
    <3> QED BY <1>7 DEF Marks
  <2> HIDE DEF mark
  <2> QED BY <2>1, FS_CardinalityType
<1>9. /\ r.next \in Nat /\ used <= r.next /\ next <= r.next
      /\ mark # p.mark => r.next = used + 1
  <2> HIDE DEF mark, used, dels
  <2>1. r.next = used + Cardinality(mark) - Cardinality(p.mark)
    BY <1>1
  <2> HIDE DEF r
  <2> QED BY <2>1, <1>5, <1>6, <1>7, <1>8
<1>10. /\ E \subseteq F /\ K \in [Nat -> {"ins", "del"}]
       /\ \A id \in Nat : K[id] = IF id = next + dels /\ new # <<>> THEN "ins" ELSE "del"
  <2> HIDE DEF dels, r
  <2> QED OBVIOUS
<1>11. mark \in Marks(F)
  <2> HIDE DEF mark, used, r, K
  <2>1. CASE mark = p.mark
    BY <1>2, <1>10, <2>1, DocumentsGrow
  <2>2. CASE mark # p.mark
    <3> HIDE DEF K, dels
    <3>1. used \in next..(r.next - 1)
      BY <1>5, <1>6, <1>9, <2>2
    <3>2. K[used] = "del"
      <4>1. used \in Nat /\ (new # <<>> => used # next + dels)
        BY <1>5, <1>6
      <4> QED BY <1>10, <4>1
    <3>3. Element("del", by, used) \in GivenAs(K, by, next, r.next)
      BY <3>1, <3>2, <1>9, ElementIsGiven
    <3>4. E \cup {Element("del", by, used)} \subseteq F
      BY <3>3
    <3> QED BY <1>7, <3>4, DocumentsGrow
  <2> QED BY <2>1, <2>2
<1>12. Struck(p, cut, by, next) \in Bodies(F) /\ Len(Struck(p, cut, by, next)) = Len(p.body)
  <2>1. ASSUME NEW i \in next..(next + dels - 1) PROVE Element("del", by, i) \in F
    <3>1. i \in next..(r.next - 1) /\ i \in Nat /\ i # next + dels
      <4> HIDE DEF dels, used, r
      <4> QED BY <1>5, <1>6, <1>9
    <3> HIDE DEF r, K, dels
    <3>2. K[i] = "del"
      BY <1>10, <3>1
    <3> QED BY <3>1, <3>2, <1>9, ElementIsGiven
  <2> HIDE DEF F, cut
  <2>2. p.body \in Bodies(E) /\ cut \in SUBSET (DOMAIN p.body) /\ E \subseteq F
    BY <1>2, <1>4, <1>10
  <2>3. \A i \in next..(next + Stretches(cut) - 1) : Element("del", by, i) \in F
    BY <2>1
  <2> QED BY <2>2, <2>3, StruckBody
<1>13. Items(new, Append(place.in, ins)) \in Bodies(F)
  <2>1. CASE new = <<>>
    BY <2>1, NoItemsBody
  <2>2. CASE new # <<>>
    <3>1. next + dels \in next..(r.next - 1) /\ next + dels \in Nat
      <4> HIDE DEF dels, used, r
      <4> QED BY <1>5, <1>6, <1>9, <2>2
    <3>2. ins \in F
      <4> HIDE DEF r, dels, K
      <4>1. K[next + dels] = "ins"
        BY <1>10, <2>2, <3>1
      <4> QED BY <3>1, <4>1, <1>9, ElementIsGiven
    <3>3. place.in \in Seq(F)
      <4> HIDE DEF F, place
      <4> QED BY <1>4, <1>10, SeqMonotonic
    <3>4. Append(place.in, ins) \in Seq(F)
      <4> HIDE DEF F, place, ins
      <4> QED BY <3>2, <3>3, AppendProperties
    <3> HIDE DEF F, place, ins
    <3> QED BY <3>4, ItemsBody
  <2> QED BY <2>1, <2>2
<1>14. body \in Bodies(F)
  <2> HIDE DEF F, place, ins, cut
  <2>1. place.after \in 0..Len(Struck(p, cut, by, next))
    BY <1>4, <1>12
  <2> QED BY <1>12, <1>13, <2>1, SplicedBody
<1>15. r.p \in ParagraphsIn(F) /\ r.p.id = p.id
  <2> HIDE DEF F, body, mark, r
  <2> QED BY <1>2, <1>3, <1>11, <1>14 DEF ParagraphsIn
<1> HIDE DEF r, K, dels
<1>16. ReplaceAdds(r, E, K, p, by, next)
  BY <1>9, <1>15 DEF ReplaceAdds
<1> QED BY <1>10, <1>16 DEF r

LEMMA TrackedReplaceAdds ==
  ASSUME NEW E, NEW p \in ParagraphsIn(E), NEW s \in Nat, NEW e \in Nat, ~Refused(p, s, e),
         NEW new \in Seq(Tokens), NEW by, NEW next \in Nat
  PROVE  LET r == TrackedReplace(p, s, e, new, by, next)
         IN /\ r.next \in Nat /\ next <= r.next
            /\ r.p \in ParagraphsIn(E \cup Given(by, next, r.next))
            /\ r.p.id = p.id
<1>1. PICK r : r = TrackedReplace(p, s, e, new, by, next)
  OBVIOUS
<1>2. PICK K \in [Nat -> {"ins", "del"}] : ReplaceAdds(r, E, K, p, by, next)
  BY <1>1, TrackedReplaceGives
<1>3. r.next \in Nat /\ next <= r.next /\ r.p.id = p.id /\ r.p \in ParagraphsIn(E \cup GivenAs(K, by, next, r.next))
  BY <1>2 DEF ReplaceAdds
<1>4. PICK F, G : F = E \cup GivenAs(K, by, next, r.next) /\ G = E \cup Given(by, next, r.next)
  OBVIOUS
<1>5. r.p \in ParagraphsIn(G)
  <2>1. PICK n : n = r.next /\ n \in Nat
    BY <1>3
  <2>2. GivenAs(K, by, next, n) \subseteq Given(by, next, n)
    BY <2>1, GivenAsIsGiven
  <2>3. F \subseteq G
    BY <1>4, <2>1, <2>2
  <2>4. ParagraphsIn(F) \subseteq ParagraphsIn(G)
    BY <2>3, DocumentsGrow
  <2> QED BY <1>3, <1>4, <2>4
<1> QED BY <1>1, <1>3, <1>4, <1>5

(***************************************************************************)
(* Edits of a document                                                     *)
(***************************************************************************)

(* No paragraph id twice. *)
DistinctIds(d) == \A i, j \in DOMAIN d : d[i].id = d[j].id => i = j

(* A paragraph of a document. *)
LEMMA ParagraphOf ==
  ASSUME NEW E, NEW d \in Documents(E), NEW j \in DOMAIN d
  PROVE  /\ d[j] \in ParagraphsIn(E)
         /\ j \in 1..Len(d) /\ Len(d) \in Nat /\ DOMAIN d = 1..Len(d)
<1> DEFINE P == ParagraphsIn(E)
<1>1. d \in Seq(P)
  BY DEF Documents, ParagraphsIn
<1> HIDE DEF P
<1>2. DOMAIN d = 1..Len(d) /\ Len(d) \in Nat
  BY <1>1, LenProperties
<1>3. d[j] \in P
  BY <1>1, <1>2, ElementOfSeq
<1> QED BY <1>2, <1>3 DEF P

(* A document with another paragraph in the place of one. *)
LEMMA ParagraphReplaced ==
  ASSUME NEW E, NEW d \in Documents(E), NEW j \in DOMAIN d, NEW p \in ParagraphsIn(E)
  PROVE  [d EXCEPT ![j] = p] \in Documents(E)
<1> DEFINE P == ParagraphsIn(E)
<1>1. d \in Seq(P)
  BY DEF Documents, ParagraphsIn
<1> HIDE DEF P
<1>2. DOMAIN d = 1..Len(d) /\ Len(d) \in Nat
  BY <1>1, LenProperties
<1>3. p \in P
  BY DEF P
<1>4. [d EXCEPT ![j] = p] \in Seq(P)
  BY <1>1, <1>2, <1>3, ExceptSeq
<1> QED BY <1>4 DEF P, Documents, ParagraphsIn

(* A replacement without tracking adds no revision. *)
LEMMA PlainReplaceAddsNone ==
  ASSUME NEW E, NEW d \in Documents(E), NEW j \in DOMAIN d, NEW s \in Nat, NEW e \in Nat,
         ~Refused(d[j], s, e), NEW new \in Seq(Tokens)
  PROVE  PlainReplace(d, j, s, e, new) \in Documents(E)
<1> DEFINE p == d[j]
           place == Place(p, s, e)
           longer == Spliced(p.body, place.after, Items(new, place.in))
           kept == {i \in DOMAIN longer : i \notin Cut(p, s, e)}
           at == Ascending(kept)
           body == [k \in DOMAIN at |-> longer[at[k]]]
           P == ParagraphsIn(E)
<1>1. p \in P /\ j \in 1..Len(d) /\ Len(d) \in Nat /\ DOMAIN d = 1..Len(d) /\ d \in Seq(P)
  BY ParagraphOf DEF Documents, ParagraphsIn
<1>2. p.body \in Bodies(E) /\ place.after \in 0..Len(p.body) /\ place.in \in Seq(E)
  BY <1>1, RangeIsInside DEF ParagraphsIn
<1>3. longer \in Bodies(E)
  <2> HIDE DEF p, place
  <2> QED BY <1>2, ItemsBody, SplicedBody
<1>4. longer \in Seq(ItemsIn(E)) /\ DOMAIN longer = 1..Len(longer) /\ Len(longer) \in Nat
  <2> HIDE DEF longer
  <2> QED BY <1>3, LenProperties DEF Bodies, ItemsIn, Toks
<1>5. kept \in SUBSET Nat /\ IsFiniteSet(kept) /\ kept \in SUBSET (1..Len(longer))
  <2> HIDE DEF longer
  <2>1. kept \in SUBSET (1..Len(longer))
    BY <1>4
  <2> HIDE DEF kept
  <2>2. 1 \in Int /\ Len(longer) \in Int
    BY <1>4
  <2>3. IsFiniteSet(1..Len(longer))
    BY <2>2, FS_Interval
  <2>4. IsFiniteSet(kept)
    BY <2>1, <2>3, FS_Subset
  <2>5. 1..Len(longer) \subseteq Nat
    OBVIOUS
  <2> QED BY <2>1, <2>4, <2>5
<1>6. Cardinality(kept) \in Nat /\ at \in [1..Cardinality(kept) -> kept]
  <2> HIDE DEF kept
  <2> QED BY <1>5, AscendingListsAll
<1>7. body \in [1..Cardinality(kept) -> ItemsIn(E)]
  <2> HIDE DEF kept, at, longer
  <2> QED BY <1>4, <1>5, <1>6, ElementOfSeq
<1>8. body \in Bodies(E)
  <2> HIDE DEF body, kept
  <2>1. body \in Seq(ItemsIn(E))
    BY <1>6, <1>7
  <2> QED BY <2>1 DEF Bodies, ItemsIn, Toks
<1>9. [d EXCEPT ![j].body = body] \in Documents(E)
  <2> HIDE DEF body
  <2>1. [p EXCEPT !.body = body] \in ParagraphsIn(E)
    BY <1>1, <1>8 DEF ParagraphsIn
  <2>2. [d EXCEPT ![j].body = body] = [d EXCEPT ![j] = [p EXCEPT !.body = body]]
    OBVIOUS
  <2> HIDE DEF p
  <2> QED BY <2>1, <2>2, ParagraphReplaced
<1>10. RemoveAt(d, j) \in Documents(E)
  <2> HIDE DEF P
  <2>1. SubSeq(d, 1, j - 1) \in Seq(P)
    BY <1>1, ElementOfSeq, SubSeqProperties
  <2>2. SubSeq(d, j + 1, Len(d)) \in Seq(P)
    BY <1>1, ElementOfSeq, SubSeqProperties
  <2>3. RemoveAt(d, j) \in Seq(P)
    BY <2>1, <2>2, ConcatProperties DEF RemoveAt
  <2> QED BY <2>3 DEF P, Documents, ParagraphsIn
<1>11. PlainReplace(d, j, s, e, new) \in {RemoveAt(d, j), [d EXCEPT ![j].body = body]}
  BY DEF PlainReplace
<1> HIDE DEF body
<1> QED BY <1>9, <1>10, <1>11

(* A paragraph is put before or behind another. *)
LEMMA ParagraphInserted ==
  ASSUME NEW E, NEW d \in Documents(E), NEW j \in DOMAIN d, NEW pos, NEW p \in ParagraphsIn(E)
  PROVE  InsertedAt(d, j, pos, p) \in Documents(E)
<1> DEFINE P == ParagraphsIn(E)
           i == IF pos = "AFTER" THEN j + 1 ELSE j
<1>1. j \in 1..Len(d) /\ Len(d) \in Nat /\ DOMAIN d = 1..Len(d) /\ d \in Seq(P) /\ p \in P
  BY ParagraphOf DEF Documents, ParagraphsIn
<1>2. i \in 1..(Len(d) + 1)
  BY <1>1
<1> HIDE DEF P, i
<1>3. SubSeq(d, 1, i - 1) \in Seq(P)
  BY <1>1, <1>2, ElementOfSeq, SubSeqProperties
<1>4. SubSeq(d, i, Len(d)) \in Seq(P)
  BY <1>1, <1>2, ElementOfSeq, SubSeqProperties
<1>5. <<p>> \in Seq(P)
  BY <1>1
<1>6. InsertAt(d, i, p) \in Seq(P)
  BY <1>3, <1>4, <1>5, ConcatProperties DEF InsertAt
<1> QED BY <1>6 DEF P, i, InsertedAt, Documents, ParagraphsIn

(* A tracked insertion takes two ids, for the mark and for the text. *)
AllInserted == [id \in Nat |-> "ins"]

LEMMA TrackedInsertGives ==
  ASSUME NEW E, NEW d \in Documents(E), NEW j \in DOMAIN d, NEW pos, NEW pid \in Nat,
         NEW new \in Seq(Tokens), NEW by, NEW next \in Nat
  PROVE  /\ TrackedInsert(d, j, pos, pid, new, by, next)
              \in Documents(E \cup GivenAs(AllInserted, by, next, next + 2))
         /\ \E p : p.id = pid /\ TrackedInsert(d, j, pos, pid, new, by, next) = InsertedAt(d, j, pos, p)
<1> DEFINE F == E \cup GivenAs(AllInserted, by, next, next + 2)
           m == Element("ins", by, next)
           x == Element("ins", by, next + 1)
           p == [id |-> pid, mark |-> {m}, body |-> Items(new, <<x>>)]
<1>1. m \in F /\ x \in F
  <2>1. next + 2 \in Nat /\ next \in next..(next + 2 - 1) /\ next + 1 \in next..(next + 2 - 1)
    OBVIOUS
  <2>2. AllInserted[next] = "ins" /\ AllInserted[next + 1] = "ins"
    BY DEF AllInserted
  <2>3. /\ m \in GivenAs(AllInserted, by, next, next + 2)
        /\ x \in GivenAs(AllInserted, by, next, next + 2)
    BY <2>1, <2>2 DEF GivenAs
  <2> QED BY <2>3
<1>2. {m} \in Marks(F)
  <2>1. m.kind # "link"
    BY DEF Element
  <2> HIDE DEF m, F
  <2>2. IsFiniteSet({m})
    BY FS_Singleton
  <2> QED BY <1>1, <2>1, <2>2 DEF Marks
<1>3. Items(new, <<x>>) \in Bodies(F)
  <2> HIDE DEF x, F
  <2>1. <<x>> \in Seq(F)
    BY <1>1
  <2> QED BY <2>1, ItemsBody
<1>4. p \in ParagraphsIn(F)
  <2> HIDE DEF F, m, x
  <2> QED BY <1>2, <1>3 DEF ParagraphsIn
<1>5. d \in Documents(F)
  BY DocumentsGrow
<1>6. TrackedInsert(d, j, pos, pid, new, by, next) = InsertedAt(d, j, pos, p)
  BY DEF TrackedInsert
<1>7. p.id = pid
  OBVIOUS
<1> HIDE DEF F, p
<1>8. InsertedAt(d, j, pos, p) \in Documents(F)
  BY <1>4, <1>5, ParagraphInserted
<1> QED BY <1>6, <1>7, <1>8 DEF F

LEMMA TrackedInsertAdds ==
  ASSUME NEW E, NEW d \in Documents(E), NEW j \in DOMAIN d, NEW pos, NEW pid \in Nat,
         NEW new \in Seq(Tokens), NEW by, NEW next \in Nat
  PROVE  TrackedInsert(d, j, pos, pid, new, by, next) \in Documents(E \cup Given(by, next, next + 2))
<1>1. AllInserted \in [Nat -> {"ins", "del"}] /\ next + 2 \in Nat
  BY DEF AllInserted
<1>2. PICK n, K : n = next + 2 /\ n \in Nat /\ K = AllInserted /\ K \in [Nat -> {"ins", "del"}]
  BY <1>1
<1>3. PICK F, G : F = E \cup GivenAs(K, by, next, n) /\ G = E \cup Given(by, next, n)
  OBVIOUS
<1>4. Documents(F) \subseteq Documents(G)
  <2>1. GivenAs(K, by, next, n) \subseteq Given(by, next, n)
    BY <1>2, GivenAsIsGiven
  <2>2. F \subseteq G
    BY <1>3, <2>1
  <2> QED BY <2>2, DocumentsGrow
<1> QED BY <1>2, <1>3, <1>4, TrackedInsertGives

(* An insertion without tracking adds no revision. *)
LEMMA PlainInsertAddsNone ==
  ASSUME NEW E, NEW d \in Documents(E), NEW j \in DOMAIN d, NEW pos, NEW pid \in Nat,
         NEW new \in Seq(Tokens)
  PROVE  PlainInsert(d, j, pos, pid, new) \in Documents(E)
<1> DEFINE p == [id |-> pid, mark |-> {}, body |-> Items(new, <<>>)]
<1>1. {} \in Marks(E)
  BY FS_EmptySet DEF Marks
<1>2. Items(new, <<>>) \in Bodies(E)
  BY EmptySeq, ItemsBody
<1>3. p \in ParagraphsIn(E)
  BY <1>1, <1>2 DEF ParagraphsIn
<1>4. PlainInsert(d, j, pos, pid, new) = InsertedAt(d, j, pos, p)
  BY DEF PlainInsert
<1> HIDE DEF p
<1> QED BY <1>3, <1>4, ParagraphInserted

(***************************************************************************)
(* The visible text after a tracked replacement                            *)
(***************************************************************************)

(* A function on 1..n is a sequence. *)
LEMMA FunctionIsSeq ==
  ASSUME NEW T, NEW n \in Nat, NEW y \in [1..n -> T]
  PROVE  y \in Seq(T) /\ Len(y) = n
OBVIOUS

(* The items of a stretch of a sequence.                                   *)
LEMMA SubSeqAt ==
  ASSUME NEW T, NEW a \in Seq(T), NEW k \in Nat \ {0}, NEW l \in Nat, k <= l + 1, l <= Len(a)
  PROVE  /\ SubSeq(a, k, l) \in Seq(T) /\ Len(SubSeq(a, k, l)) = l - k + 1
         /\ \A i \in 1..(l - k + 1) : SubSeq(a, k, l)[i] = a[k + i - 1]
<1>1. PICK n \in Nat : n = Len(a)
  BY LenProperties
<1>2. \A i \in k..l : a[i] \in T
  <2>1. \A i \in k..l : i \in 1..n
    BY <1>1
  <2> QED BY <1>1, <2>1, ElementOfSeq
<1>3. k \in Int /\ l \in Int
  OBVIOUS
<1>4. /\ SubSeq(a, k, l) \in Seq(T) /\ Len(SubSeq(a, k, l)) = IF k <= l THEN l - k + 1 ELSE 0
      /\ \A i \in 1..(l - k + 1) : SubSeq(a, k, l)[i] = a[k + i - 1]
  BY <1>2, <1>3, SubSeqProperties
<1> QED BY <1>3, <1>4

(* z is the sequence a with its items from s + 1 to e replaced by x.       *)
IsPut(z, a, s, e, x) ==
  /\ Len(z) = Len(a) - (e - s) + Len(x)
  /\ \A k \in 1..s : z[k] = a[k]
  /\ \A k \in (s + 1)..(s + Len(x)) : z[k] = x[k - s]
  /\ \A k \in (s + Len(x) + 1)..(Len(a) - (e - s) + Len(x)) : z[k] = a[k - Len(x) + (e - s)]

PutInto(a, s, e, x) == SubSeq(a, 1, s) \o x \o SubSeq(a, e + 1, Len(a))

(* The pieces before and behind the range are joined to that sequence.     *)
LEMMA Joined ==
  ASSUME NEW T, NEW a \in Seq(T), NEW x \in Seq(T), NEW s \in Nat, NEW e \in Nat,
         s <= e, e <= Len(a)
  PROVE  PutInto(a, s, e, x) \in Seq(T) /\ IsPut(PutInto(a, s, e, x), a, s, e, x)
<1> DEFINE A == SubSeq(a, 1, s)
           B == SubSeq(a, e + 1, Len(a))
           G == A \o x
           z == G \o B
<1>0. PICK n \in Nat, m \in Nat : n = Len(a) /\ m = Len(x) /\ e <= n
  BY LenProperties
<1>1. \A i \in 1..n : a[i] \in T
  BY <1>0, ElementOfSeq
<1>2. A \in Seq(T) /\ Len(A) = s /\ \A i \in 1..s : A[i] = a[i]
  <2>1. /\ A \in Seq(T) /\ Len(A) = IF 1 <= s THEN s - 1 + 1 ELSE 0
        /\ \A i \in 1..(s - 1 + 1) : A[i] = a[1 + i - 1]
    <3>1. \A i \in 1..s : a[i] \in T
      BY <1>0, <1>1
    <3>2. 1 \in Int /\ s \in Int
      OBVIOUS
    <3> QED BY ONLY <3>1, <3>2, SubSeqProperties
  <2>2. \A i \in 1..s : i \in 1..(s - 1 + 1) /\ 1 + i - 1 = i
    OBVIOUS
  <2> HIDE DEF A
  <2> QED BY <2>1, <2>2
<1>3. B \in Seq(T) /\ Len(B) = n - e /\ \A i \in 1..(n - e) : B[i] = a[e + i]
  <2>1. PICK f \in Int : f = e + 1
    OBVIOUS
  <2>2. /\ B \in Seq(T) /\ Len(B) = IF f <= n THEN n - f + 1 ELSE 0
        /\ \A i \in 1..(n - f + 1) : B[i] = a[f + i - 1]
    <3>1. \A i \in f..n : a[i] \in T
      BY <1>0, <1>1, <2>1
    <3>2. f \in Int /\ n \in Int
      BY <2>1
    <3>3. /\ SubSeq(a, f, n) \in Seq(T) /\ Len(SubSeq(a, f, n)) = IF f <= n THEN n - f + 1 ELSE 0
          /\ \A i \in 1..(n - f + 1) : SubSeq(a, f, n)[i] = a[f + i - 1]
      BY ONLY <3>1, <3>2, SubSeqProperties
    <3>4. B = SubSeq(a, f, n)
      BY <1>0, <2>1
    <3> QED BY ONLY <3>3, <3>4
  <2>3. \A i \in 1..(n - e) : i \in 1..(n - f + 1) /\ f + i - 1 = e + i
    BY <1>0, <2>1
  <2> HIDE DEF B
  <2> QED BY <1>0, <2>1, <2>2, <2>3
<1>4. /\ G \in Seq(T) /\ Len(G) = s + m
      /\ \A i \in 1..(s + m) : G[i] = IF i <= s THEN A[i] ELSE x[i - s]
  <2>1. /\ G \in Seq(T) /\ Len(G) = Len(A) + Len(x)
        /\ \A i \in 1..(Len(A) + Len(x)) : G[i] = IF i <= Len(A) THEN A[i] ELSE x[i - Len(A)]
    BY <1>2, ConcatProperties
  <2> HIDE DEF G
  <2> QED BY <2>1, <1>0, <1>2
<1> HIDE DEF G
<1>5. /\ z \in Seq(T) /\ Len(z) = s + m + (n - e)
      /\ \A i \in 1..(s + m + (n - e)) : z[i] = IF i <= s + m THEN G[i] ELSE B[i - (s + m)]
  <2>1. /\ z \in Seq(T) /\ Len(z) = Len(G) + Len(B)
        /\ \A i \in 1..(Len(G) + Len(B)) : z[i] = IF i <= Len(G) THEN G[i] ELSE B[i - Len(G)]
    BY <1>3, <1>4, ConcatProperties
  <2> HIDE DEF z
  <2> QED BY <2>1, <1>3, <1>4
<1>6. z = PutInto(a, s, e, x)
  BY DEF z, G, A, B, PutInto
<1> HIDE DEF z
<1>7. Len(z) = n - (e - s) + m
  BY <1>0, <1>5
<1>8. ASSUME NEW k \in 1..s PROVE z[k] = a[k]
  <2>1. k \in 1..(s + m + (n - e)) /\ k <= s + m /\ k \in 1..(s + m)
    BY <1>0
  <2> QED BY <1>2, <1>4, <1>5, <2>1
<1>9. ASSUME NEW k \in (s + 1)..(s + m) PROVE z[k] = x[k - s]
  <2>1. k \in 1..(s + m + (n - e)) /\ k <= s + m /\ k \in 1..(s + m) /\ ~(k <= s)
    BY <1>0
  <2> QED BY <1>4, <1>5, <2>1
<1>10. ASSUME NEW k \in (s + m + 1)..(n - (e - s) + m) PROVE z[k] = a[k - m + (e - s)]
  <2>0. k \in Int /\ s + m + 1 <= k /\ k <= n - (e - s) + m
    BY <1>0
  <2>1. k \in 1..(s + m + (n - e)) /\ ~(k <= s + m) /\ k - (s + m) \in 1..(n - e)
    BY <1>0, <2>0
  <2>2. e + (k - (s + m)) = k - m + (e - s)
    BY <1>0, <2>0
  <2>3. z[k] = B[k - (s + m)]
    BY <1>5, <2>1
  <2>4. B[k - (s + m)] = a[e + (k - (s + m))]
    BY <1>3, <2>1
  <2> QED BY <2>2, <2>3, <2>4
<1> QED BY <1>0, <1>5, <1>6, <1>7, <1>8, <1>9, <1>10 DEF IsPut

(* A new paragraph with a new id.                                          *)
LEMMA InsertedIds ==
  ASSUME NEW E, NEW d \in Documents(E), DistinctIds(d), NEW j \in DOMAIN d, NEW pos, NEW p,
         \A i \in DOMAIN d : d[i].id # p.id
  PROVE  DistinctIds(InsertedAt(d, j, pos, p)) /\ InsertedAt(d, j, pos, p) # <<>>
<1>1. PICK P : P = ParagraphsIn(E) \cup {p} /\ d \in Seq(P) /\ p \in P
  <2>1. PICK Q : Q = ParagraphsIn(E) /\ d \in Seq(Q)
    BY DEF Documents, ParagraphsIn
  <2>2. PICK P : P = Q \cup {p}
    OBVIOUS
  <2>3. Seq(Q) \subseteq Seq(P)
    BY <2>2, SeqMonotonic
  <2> QED BY <2>1, <2>2, <2>3
<1>2. PICK n \in Nat : n = Len(d) /\ DOMAIN d = 1..n /\ j \in 1..n
  BY <1>1, LenProperties
<1>3. PICK k \in 0..n : k + 1 = (IF pos = "AFTER" THEN j + 1 ELSE j)
  <2>1. CASE pos = "AFTER"
    BY <1>2, <2>1
  <2>2. CASE pos # "AFTER"
    <3>1. j - 1 \in 0..n /\ (j - 1) + 1 = j
      BY <1>2
    <3> QED BY <2>2, <3>1
  <2> QED BY <2>1, <2>2
<1>4. PICK q \in Seq(P) : q = <<p>> /\ Len(q) = 1 /\ q[1] = p
  <2>1. <<p>> \in Seq(P)
    BY <1>1
  <2> QED BY <2>1
<1>4a. PICK z : z = PutInto(d, k, k, q)
  OBVIOUS
<1>5. z = InsertedAt(d, j, pos, p)
  <2>1. (k + 1) - 1 = k
    BY <1>3
  <2>2. InsertedAt(d, j, pos, p) = InsertAt(d, k + 1, p)
    BY <1>3 DEF InsertedAt
  <2> QED BY <1>4, <1>4a, <2>1, <2>2 DEF InsertAt, PutInto
<1>6. z \in Seq(P) /\ IsPut(z, d, k, k, q)
  <2>1. d \in Seq(P) /\ k \in Nat /\ k <= k /\ k <= Len(d)
    BY <1>1, <1>2
  <2>2. PutInto(d, k, k, q) \in Seq(P) /\ IsPut(PutInto(d, k, k, q), d, k, k, q)
    BY <2>1, Joined
  <2> QED BY <1>4a, <2>2
<1>7. Len(z) = n + 1 /\ DOMAIN z = 1..(n + 1)
  <2>1. Len(z) = n + 1
    BY <1>2, <1>3, <1>4, <1>6 DEF IsPut
  <2> QED BY <1>6, <2>1, LenProperties
<1>8. z[k + 1] = p
  <2>1. k + 1 \in (k + 1)..(k + Len(q)) /\ (k + 1) - k = 1
    BY <1>4
  <2> QED BY <1>4, <1>6, <2>1 DEF IsPut
<1>9. \A i \in 1..k : z[i] = d[i]
  BY <1>6 DEF IsPut
<1>10. \A i \in (k + 2)..(n + 1) : z[i] = d[i - 1]
  <2> TAKE i \in (k + 2)..(n + 1)
  <2>1. i \in (k + Len(q) + 1)..(Len(d) - (k - k) + Len(q)) /\ i - Len(q) + (k - k) = i - 1
    BY <1>2, <1>3, <1>4
  <2> QED BY <1>6, <2>1 DEF IsPut
<1>11. ASSUME NEW i \in 1..(n + 1), NEW l \in 1..(n + 1), z[i].id = z[l].id PROVE i = l
  <2> DEFINE from(h) == IF h <= k THEN h ELSE h - 1
  <2>1. ASSUME NEW h \in 1..(n + 1), h # k + 1 PROVE from(h) \in 1..n /\ z[h] = d[from(h)]
    <3>1. h \in 1..k \/ h \in (k + 2)..(n + 1)
      BY <1>3, <2>1
    <3> QED BY <1>3, <1>9, <1>10, <3>1
  <2>2. i # k + 1 /\ l # k + 1 => from(i) = from(l)
    <3> HIDE DEF from
    <3> QED BY <1>2, <1>11, <2>1 DEF DistinctIds
  <2>3. i = k + 1 <=> l = k + 1
    <3> HIDE DEF from
    <3> QED BY <1>2, <1>8, <1>11, <2>1
  <2> QED BY <1>3, <2>2, <2>3
<1>12. z # <<>>
  BY <1>2, <1>7, EmptySeq
<1>13. DistinctIds(z)
  BY <1>7, <1>11 DEF DistinctIds
<1> QED BY <1>5, <1>12, <1>13

(* There is one such sequence.                                             *)
LEMMA PutIsUnique ==
  ASSUME NEW T, NEW a \in Seq(T), NEW x \in Seq(T), NEW s \in Nat, NEW e \in Nat, s <= e,
         e <= Len(a), NEW y, NEW z, y \in Seq(T), z \in Seq(T),
         IsPut(y, a, s, e, x), IsPut(z, a, s, e, x)
  PROVE  y = z
<1>1. PICK n \in Nat, m \in Nat : n = Len(a) /\ m = Len(x) /\ e <= n
  BY LenProperties
<1>2. PICK len \in Nat : len = n - (e - s) + m
  <2>1. n - (e - s) + m \in Nat
    BY <1>1
  <2> QED BY <2>1
<1>3. Len(y) = len /\ Len(z) = len
  BY <1>1, <1>2 DEF IsPut
<1>4. ASSUME NEW k \in 1..len PROVE y[k] = z[k]
  <2>1. CASE k \in 1..s
    BY <2>1 DEF IsPut
  <2>2. CASE k \in (s + 1)..(s + m)
    BY <1>1, <2>2 DEF IsPut
  <2>3. CASE k \in (s + m + 1)..(n - (e - s) + m)
    BY <1>1, <2>3 DEF IsPut
  <2> QED BY <1>1, <1>2, <2>1, <2>2, <2>3
<1> QED BY <1>3, <1>4, SeqEqual

Seen(item) == item.tok \in Tokens /\ ~Within(item, {"del"})

(* The visible text of a body is that of its visible items, in order.      *)
LEMMA TextOfBody ==
  ASSUME NEW E, NEW p, p.body \in Bodies(E)
  PROVE  /\ ShownAt(p.body) \in [1..Len(ShownAt(p.body)) -> Shown(p.body)]
         /\ Len(ShownAt(p.body)) \in Nat /\ DOMAIN ShownAt(p.body) = 1..Len(ShownAt(p.body))
         /\ \A i \in Shown(p.body) : \E k \in 1..Len(ShownAt(p.body)) : ShownAt(p.body)[k] = i
         /\ \A k, l \in 1..Len(ShownAt(p.body)) : k < l => ShownAt(p.body)[k] < ShownAt(p.body)[l]
         /\ Shown(p.body) \in SUBSET (1..Len(p.body)) /\ Len(p.body) \in Nat
         /\ TextOf(p) \in Seq(Tokens) /\ Len(TextOf(p)) = Len(ShownAt(p.body))
         /\ \A k \in 1..Len(ShownAt(p.body)) : TextOf(p)[k] = p.body[ShownAt(p.body)[k]].tok
<1> DEFINE S == Shown(p.body)
           at == ShownAt(p.body)
<1>1. DOMAIN p.body = 1..Len(p.body) /\ Len(p.body) \in Nat
  BY LenProperties DEF Bodies
<1>2. S \in SUBSET (1..Len(p.body)) /\ S \in SUBSET Nat
  BY <1>1 DEF Shown
<1>3. IsFiniteSet(S)
  <2>1. IsFiniteSet(DOMAIN p.body)
    BY <1>1, FS_Interval
  <2> HIDE DEF S
  <2> QED BY <1>1, <1>2, <2>1, FS_Subset
<1>4. /\ Cardinality(S) \in Nat
      /\ at \in [1..Cardinality(S) -> S]
      /\ \A i \in S : \E k \in 1..Cardinality(S) : at[k] = i
      /\ \A k, l \in 1..Cardinality(S) : k < l => at[k] < at[l]
  <2> HIDE DEF S
  <2>1. at = Ascending(S)
    BY DEF ShownAt, S
  <2> HIDE DEF at
  <2> QED BY <1>2, <1>3, <2>1, AscendingListsAll
<1>5. PICK n \in Nat : n = Cardinality(S)
  BY <1>4
<1>6. at \in Seq(S) /\ Len(at) = n
  BY <1>4, <1>5
<1>7. \A k \in 1..n : at[k] \in S /\ p.body[at[k]].tok \in Tokens
  BY <1>4, <1>5 DEF Shown
<1>8. TextOf(p) = [k \in 1..n |-> p.body[at[k]].tok]
  BY <1>4, <1>5 DEF TextOf
<1> HIDE DEF at, S
<1>9. TextOf(p) \in [1..n -> Tokens]
  BY <1>7, <1>8
<1>10. TextOf(p) \in Seq(Tokens) /\ Len(TextOf(p)) = n
  BY <1>9
<1> QED BY <1>1, <1>2, <1>4, <1>5, <1>6, <1>8, <1>10 DEF at, S

(* What is struck is not shown any more, and nothing else changes.         *)
IsStruck(L, body, cut) ==
  /\ DOMAIN L = DOMAIN body
  /\ \A i \in DOMAIN body : L[i].tok = body[i].tok
  /\ \A i \in DOMAIN body \ cut : L[i] = body[i]
  /\ Shown(L) = Shown(body) \ cut

(* What a deletion leaves to be seen. *)
LEMMA StruckShows ==
  ASSUME NEW E, NEW p, p.body \in Bodies(E), NEW cut \in SUBSET (DOMAIN p.body), NEW by,
         NEW next \in Nat
  PROVE  IsStruck(Struck(p, cut, by, next), p.body, cut)
<1> DEFINE body == p.body
           L == Struck(p, cut, by, next)
           id(i) == next + StretchOf(cut, i) - 1
           struck(i) == [body[i] EXCEPT !.in = Append(@, Element("del", by, id(i)))]
<1>1. body \in Seq(ItemsIn(E))
  BY DEF Bodies, ItemsIn, Toks
<1>2. \A i \in DOMAIN body : body[i] \in ItemsIn(E)
  BY <1>1, LenProperties, ElementOfSeq
<1>3. L = [i \in DOMAIN body |-> IF i \in cut THEN struck(i) ELSE body[i]]
  BY DEF Struck
<1> HIDE DEF L
<1>4. ASSUME NEW i \in cut PROVE L[i].tok = body[i].tok /\ ~Seen(L[i])
  <2>1. body[i] \in ItemsIn(E) /\ L[i] = struck(i)
    BY <1>2, <1>3
  <2> DEFINE e == Element("del", by, id(i))
             in == body[i].in
  <2>2. in \in Seq(E) /\ Len(in) \in Nat
    BY <2>1, LenProperties DEF ItemsIn
  <2>3. L[i].in = Append(in, e) /\ L[i].tok = body[i].tok
    <3> HIDE DEF e
    <3> QED BY <2>1 DEF ItemsIn, e
  <2>4. e.kind = "del"
    BY DEF Element
  <2> HIDE DEF e, in
  <2>5. /\ Len(in) + 1 \in DOMAIN Append(in, e) /\ Append(in, e)[Len(in) + 1] = e
    BY <2>2
  <2>6. Within(L[i], {"del"})
    BY <2>3, <2>4, <2>5 DEF Within
  <2> QED BY <2>3, <2>6 DEF Seen
<1>5. \A i \in DOMAIN body \ cut : L[i] = body[i]
  BY <1>3
<1>6. DOMAIN L = DOMAIN body
  BY <1>3
<1>7. Shown(L) = {i \in DOMAIN body : Seen(L[i])} /\ Shown(body) = {i \in DOMAIN body : Seen(body[i])}
  BY <1>6 DEF Shown, Seen
<1>8. Shown(L) = Shown(body) \ cut
  BY <1>4, <1>5, <1>7
<1>9. \A i \in DOMAIN body : L[i].tok = body[i].tok
  BY <1>4, <1>5
<1> QED BY <1>5, <1>6, <1>8, <1>9 DEF L, IsStruck

(* Text in a path without a deletion is shown.                             *)
LEMMA ItemsAreSeen ==
  ASSUME NEW text \in Seq(Tokens), NEW in, \A k \in DOMAIN in : in[k].kind # "del"
  PROVE  /\ Len(Items(text, in)) = Len(text)
         /\ \A i \in 1..Len(text) : /\ Items(text, in)[i].tok = text[i]
                                    /\ Seen(Items(text, in)[i])
<1>1. \A i \in 1..Len(text) : Items(text, in)[i] = Item(text[i], in) /\ text[i] \in Tokens
  BY ElementOfSeq, LenProperties DEF Items
<1>2. \A tok : Item(tok, in).tok = tok /\ Item(tok, in).in = in
  BY DEF Item
<1>3. Len(Items(text, in)) = Len(text)
  BY LenProperties DEF Items
<1> QED BY <1>1, <1>2, <1>3 DEF Seen, Within

(* The visible items around a range of text that is replaced.              *)
ShownItem(p, k) == p.body[ShownAt(p.body)[k]]

ItemsAround(r, L, p, s, e, m) ==
  /\ \A k \in 1..s : ShownItem(r, k) = L[ShownAt(p.body)[k]]
  /\ \A k \in (e + 1)..Len(ShownAt(p.body)) :
       ShownItem(r, k - (e - s) + m) = L[ShownAt(p.body)[k]]

(* Items put into a body, behind the range whose text is no longer shown,  *)
(* put their text in its place.                                            *)
LEMMA SplicedShows ==
  ASSUME NEW E, NEW p, p.body \in Bodies(E), NEW F, NEW L \in Bodies(F), DOMAIN L = DOMAIN p.body,
         \A i \in DOMAIN p.body : L[i].tok = p.body[i].tok,
         NEW s \in Nat, NEW e \in Nat, s <= e, e <= Len(ShownAt(p.body)),
         Shown(L) = Shown(p.body) \ Cut(p, s, e),
         NEW after \in 0..Len(p.body),
         \A k \in 1..Len(ShownAt(p.body)) : ShownAt(p.body)[k] <= after <=> k <= e,
         NEW items \in Bodies(F), NEW new \in Seq(Tokens), Len(items) = Len(new),
         \A i \in 1..Len(new) : items[i].tok = new[i] /\ Seen(items[i]),
         NEW r, r.body = Spliced(L, after, items)
  PROVE  /\ TextOf(r) \in Seq(Tokens) /\ IsPut(TextOf(r), TextOf(p), s, e, new)
         /\ ItemsAround(r, L, p, s, e, Len(new))
<1> DEFINE body == p.body
           at == ShownAt(body)
           D == Spliced(L, after, items)
<1>1. PICK N \in Nat, n \in Nat, m \in Nat : N = Len(body) /\ n = Len(at) /\ m = Len(new) /\ e <= n
  BY TextOfBody, LenProperties
<1>2. /\ at \in [1..n -> Shown(body)] /\ DOMAIN at = 1..n
      /\ \A i \in Shown(body) : \E k \in 1..n : at[k] = i
      /\ \A k, l \in 1..n : k < l => at[k] < at[l]
      /\ Shown(body) \in SUBSET (1..N)
      /\ TextOf(p) \in Seq(Tokens) /\ Len(TextOf(p)) = n
      /\ \A k \in 1..n : TextOf(p)[k] = body[at[k]].tok
      /\ \A k \in 1..n : at[k] <= after <=> k <= e
      /\ after \in 0..N
  <2>1. /\ at \in [1..n -> Shown(body)] /\ DOMAIN at = 1..n
        /\ \A i \in Shown(body) : \E k \in 1..n : at[k] = i
        /\ \A k, l \in 1..n : k < l => at[k] < at[l]
        /\ Shown(body) \in SUBSET (1..N)
    BY <1>1, TextOfBody
  <2>2. /\ TextOf(p) \in Seq(Tokens) /\ Len(TextOf(p)) = n
        /\ \A k \in 1..n : TextOf(p)[k] = body[at[k]].tok
    BY <1>1, TextOfBody
  <2>3. /\ \A k \in 1..n : at[k] <= after <=> k <= e
        /\ after \in 0..N
    BY <1>1
  <2> HIDE DEF at, body
  <2> QED BY <2>1, <2>2, <2>3
<1>3. Cut(p, s, e) = {at[k] : k \in (s + 1)..e}
  BY DEF Cut
<1>4. DOMAIN L = 1..N /\ Len(L) = N /\ L \in Seq(ItemsIn(F)) /\ items \in Seq(ItemsIn(F))
  BY <1>1, LenProperties DEF Bodies, ItemsIn, Toks
<1>5. /\ D \in Seq(ItemsIn(F)) /\ Len(D) = N + m
      /\ \A k \in 1..after : D[k] = L[k]
      /\ \A k \in (after + 1)..(after + m) : D[k] = items[k - after]
      /\ \A k \in (after + m + 1)..(N + m) : D[k] = L[k - m]
  <2>1. D = PutInto(L, after, after, items)
    BY DEF Spliced, PutInto
  <2>2. after \in Nat /\ after <= Len(L) /\ after <= after
    BY <1>2, <1>4
  <2>3. D \in Seq(ItemsIn(F)) /\ IsPut(D, L, after, after, items)
    BY <1>4, <2>1, <2>2, Joined
  <2> HIDE DEF D
  <2>4. Len(items) = m /\ Len(L) = N /\ N - (after - after) + m = N + m
    BY <1>1, <1>2, <1>4
  <2>5. \A k \in (after + m + 1)..(N + m) : k - m + (after - after) = k - m
    BY <1>1, <1>2
  <2> QED BY <2>3, <2>4, <2>5 DEF IsPut
<1> HIDE DEF D
<1>6. DOMAIN D = 1..(N + m)
  BY <1>5, LenProperties
<1>7. Shown(D) = {i \in 1..(N + m) : Seen(D[i])} /\ Shown(L) = {i \in 1..N : Seen(L[i])}
  BY <1>4, <1>6 DEF Shown, Seen
<1>8. PICK len \in Nat : len = n - (e - s) + m
  <2>1. n - (e - s) + m \in Nat
    BY <1>1
  <2> QED BY <2>1
<1> DEFINE q == [k \in 1..len |-> IF k <= s THEN at[k] ELSE IF k <= s + m THEN after + (k - s)
                                   ELSE at[k - m + (e - s)] + m]
<1> HIDE DEF at, body
<1>9. \A k \in 1..n : at[k] \in 1..N /\ at[k] \in Shown(body)
  BY <1>2
<1>10. \A k \in 1..n : k \notin (s + 1)..e => at[k] \in Shown(L)
  <2> SUFFICES ASSUME NEW k \in 1..n, k \notin (s + 1)..e, at[k] \in Cut(p, s, e) PROVE FALSE
    BY <1>9 DEF body
  <2>1. PICK l \in (s + 1)..e : at[l] = at[k]
    BY <1>3
  <2>2. l \in 1..n /\ (k < l \/ l < k)
    BY <1>1, <2>1
  <2> QED BY <1>2, <1>9, <2>1, <2>2
<1>11. \A k \in 1..s : k \in 1..n /\ at[k] \in Shown(D) /\ D[at[k]] = L[at[k]] /\ at[k] <= after
  <2> SUFFICES ASSUME NEW k \in 1..s
               PROVE  k \in 1..n /\ at[k] \in Shown(D) /\ D[at[k]] = L[at[k]] /\ at[k] <= after
    OBVIOUS
  <2>1. k \in 1..n /\ k <= e /\ k \notin (s + 1)..e
    BY <1>1
  <2>2. PICK i \in 1..N : i = at[k] /\ i <= after /\ i \in Shown(L)
    BY <1>2, <1>9, <1>10, <2>1
  <2>3. i \in 1..after /\ i \in 1..(N + m)
    BY <1>2, <2>2
  <2> QED BY <1>5, <1>7, <2>1, <2>2, <2>3
<1>12. \A k \in (s + 1)..(s + m) :
         /\ after + (k - s) \in Shown(D) /\ D[after + (k - s)].tok = new[k - s]
  <2> SUFFICES ASSUME NEW k \in (s + 1)..(s + m)
               PROVE  after + (k - s) \in Shown(D) /\ D[after + (k - s)].tok = new[k - s]
    OBVIOUS
  <2>1. PICK i \in 1..m : i = k - s
    OBVIOUS
  <2>2. after + i \in (after + 1)..(after + m) /\ after + i \in 1..(N + m) /\ (after + i) - after = i
    BY <1>2, <2>1
  <2>3. D[after + i] = items[i] /\ items[i].tok = new[i] /\ Seen(items[i])
    BY <1>1, <1>5, <2>2
  <2> QED BY <1>7, <2>1, <2>2, <2>3
<1>13. \A k \in (e + 1)..n : k \in 1..n /\ at[k] + m \in Shown(D) /\ D[at[k] + m] = L[at[k]] /\ after < at[k]
  <2> SUFFICES ASSUME NEW k \in (e + 1)..n
               PROVE  k \in 1..n /\ at[k] + m \in Shown(D) /\ D[at[k] + m] = L[at[k]] /\ after < at[k]
    OBVIOUS
  <2>1. k \in 1..n /\ ~(k <= e) /\ k \notin (s + 1)..e
    BY <1>1
  <2>2. PICK i \in 1..N : i = at[k] /\ ~(i <= after) /\ i \in Shown(L)
    BY <1>2, <1>9, <1>10, <2>1
  <2>3. i + m \in (after + m + 1)..(N + m) /\ i + m \in 1..(N + m) /\ (i + m) - m = i /\ after < i
    <3>1. after \in 0..N
      BY <1>2
    <3>2. i \in Nat /\ after < i /\ i <= N
      BY <2>2, <3>1
    <3> QED BY <3>1, <3>2
  <2> QED BY <1>5, <1>7, <2>1, <2>2, <2>3
<1>14. /\ \A k \in 1..s : k \in 1..len /\ k \in 1..n /\ q[k] = at[k]
       /\ \A k \in (s + 1)..(s + m) : k \in 1..len /\ q[k] = after + (k - s)
       /\ \A k \in (s + m + 1)..len :
            k \in 1..len /\ \E j \in (e + 1)..n : j \in 1..n /\ j = k - m + (e - s) /\ q[k] = at[j] + m
  <2>1. ASSUME NEW k \in 1..s PROVE k \in 1..len /\ k \in 1..n /\ q[k] = at[k]
    <3>1. k \in 1..len /\ k \in 1..n /\ k <= s
      BY <1>1, <1>8
    <3> QED BY <3>1
  <2>2. ASSUME NEW k \in (s + 1)..(s + m) PROVE k \in 1..len /\ q[k] = after + (k - s)
    <3>1. k \in 1..len /\ ~(k <= s) /\ k <= s + m
      BY <1>1, <1>8
    <3> QED BY <3>1
  <2>3. ASSUME NEW k \in (s + m + 1)..len
        PROVE  k \in 1..len /\ \E j \in (e + 1)..n : j \in 1..n /\ j = k - m + (e - s) /\ q[k] = at[j] + m
    <3>1. k \in 1..len /\ ~(k <= s) /\ ~(k <= s + m)
      BY <1>1, <1>8
    <3>2. q[k] = at[k - m + (e - s)] + m
      BY <3>1
    <3>3. k - m + (e - s) \in (e + 1)..n /\ k - m + (e - s) \in 1..n
      BY <1>1, <1>8
    <3> QED BY <3>1, <3>2, <3>3
  <2> QED BY <2>1, <2>2, <2>3
<1>15. DOMAIN q = 1..len /\ \A k \in 1..len : k \in 1..s \/ k \in (s + 1)..(s + m) \/ k \in (s + m + 1)..len
  <2>1. \A k \in 1..len : k \in 1..s \/ k \in (s + 1)..(s + m) \/ k \in (s + m + 1)..len
    BY <1>1
  <2> QED BY <2>1
<1> HIDE DEF q
<1>16. q \in [1..len -> Shown(D)]
  <2>1. \A k \in 1..len : q[k] \in Shown(D)
    BY <1>11, <1>12, <1>13, <1>14, <1>15
  <2>2. q = [k \in 1..len |-> q[k]]
    BY DEF q
  <2> QED BY <2>1, <2>2
<1>17. ASSUME NEW i \in Shown(D) PROVE \E k \in 1..len : q[k] = i
  <2>0. i \in 1..(N + m) /\ Seen(D[i])
    BY <1>7
  <2>1. CASE i \in 1..after
    <3>1. i \in 1..N /\ i \in Shown(L)
      <4>1. i \in 1..N
        BY <1>2, <2>1
      <4>2. D[i] = L[i]
        BY <1>5, <2>1
      <4> QED BY <1>7, <2>0, <4>1, <4>2
    <3>2. i \in Shown(body) /\ i \notin Cut(p, s, e)
      BY <3>1 DEF body
    <3>3. PICK k \in 1..n : at[k] = i /\ k \notin (s + 1)..e /\ k <= e
      BY <1>2, <1>3, <2>1, <3>2
    <3>4. k \in 1..s /\ k \in 1..len
      BY <1>1, <1>8, <3>3
    <3>5. q[k] = at[k]
      BY <1>14, <3>4
    <3> QED BY <3>3, <3>4, <3>5
  <2>2. CASE i \in (after + 1)..(after + m)
    <3>1. PICK k \in Nat : k = s + (i - after)
      BY <1>2, <2>2
    <3>2. k \in (s + 1)..(s + m) /\ after + (k - s) = i
      BY <1>2, <2>2, <3>1
    <3>3. k \in 1..len /\ q[k] = after + (k - s)
      BY <1>14, <3>2
    <3> QED BY <3>2, <3>3
  <2>3. CASE i \in (after + m + 1)..(N + m)
    <3>0. PICK j \in Nat : j = i - m /\ j \in 1..N /\ after < j /\ i = j + m
      BY <1>2, <2>3
    <3>1. D[i] = L[j] /\ j \in Shown(L)
      BY <1>5, <1>7, <2>0, <2>3, <3>0
    <3>2. j \in Shown(body) /\ j \notin Cut(p, s, e)
      BY <3>1 DEF body
    <3>3. PICK l \in 1..n : at[l] = j /\ ~(l <= e)
      BY <1>2, <3>0, <3>2
    <3>4. PICK k \in Nat : k = l + m - (e - s)
      BY <1>1, <3>3
    <3>5. k \in (s + m + 1)..len /\ k - m + (e - s) = l
      BY <1>1, <1>8, <3>3, <3>4
    <3>6. k \in 1..len /\ q[k] = at[l] + m
      BY <1>14, <3>5
    <3> QED BY <3>0, <3>3, <3>6
  <2> QED BY <1>1, <1>2, <2>0, <2>1, <2>2, <2>3
<1>18. ASSUME NEW k \in 1..len, NEW l \in 1..len, k < l PROVE q[k] < q[l]
  <2>0. after \in Nat
    BY <1>2
  <2>1. CASE k \in 1..s
    <3>0. PICK i \in Nat : i = q[k] /\ i = at[k] /\ i <= after
      BY <1>9, <1>11, <1>14, <2>1
    <3>1. CASE l \in 1..s
      <4>1. q[l] = at[l] /\ l \in 1..n /\ k \in 1..n
        BY <1>14, <2>1, <3>1
      <4> QED BY <1>2, <1>18, <3>0, <4>1
    <3>2. CASE l \in (s + 1)..(s + m)
      <4>1. q[l] = after + (l - s)
        BY <1>14, <3>2
      <4> QED BY <2>0, <3>0, <3>2, <4>1
    <3>3. CASE l \in (s + m + 1)..len
      <4>1. PICK j \in 1..n : j = l - m + (e - s) /\ j \in (e + 1)..n /\ q[l] = at[j] + m
        BY <1>14, <3>3
      <4>2. PICK b \in Nat : b = at[j] /\ after < b
        BY <1>9, <1>13, <4>1
      <4> QED BY <2>0, <3>0, <4>1, <4>2
    <3> QED BY <1>15, <3>1, <3>2, <3>3
  <2>2. CASE k \in (s + 1)..(s + m)
    <3>0. q[k] = after + (k - s)
      BY <1>14, <2>2
    <3>1. CASE l \in (s + 1)..(s + m)
      <4>1. q[l] = after + (l - s)
        BY <1>14, <3>1
      <4> QED BY <1>18, <2>0, <2>2, <3>0, <3>1, <4>1
    <3>2. CASE l \in (s + m + 1)..len
      <4>1. PICK j \in 1..n : j = l - m + (e - s) /\ j \in (e + 1)..n /\ q[l] = at[j] + m
        BY <1>14, <3>2
      <4>2. PICK b \in Nat : b = at[j] /\ after < b
        BY <1>9, <1>13, <4>1
      <4>3. q[k] \in Int /\ q[k] <= after + m
        BY <2>0, <2>2, <3>0
      <4>4. q[l] \in Int /\ after + m < q[l]
        BY <2>0, <4>1, <4>2
      <4> QED BY <2>0, <4>3, <4>4
    <3>3. l \notin 1..s
      BY <1>18, <2>2
    <3> QED BY <1>15, <3>1, <3>2, <3>3
  <2>3. CASE k \in (s + m + 1)..len
    <3>1. l \in (s + m + 1)..len
      BY <1>18, <2>3
    <3>2. PICK i \in 1..n : i = k - m + (e - s) /\ q[k] = at[i] + m
      BY <1>14, <2>3
    <3>3. PICK j \in 1..n : j = l - m + (e - s) /\ q[l] = at[j] + m
      BY <1>14, <3>1
    <3>4. i < j
      BY <1>1, <1>18, <2>3, <3>1, <3>2, <3>3
    <3>5. PICK a \in Nat, b \in Nat : a = at[i] /\ b = at[j] /\ a < b
      BY <1>2, <1>9, <3>2, <3>3, <3>4
    <3> QED BY <3>2, <3>3, <3>5
  <2> QED BY <1>15, <2>1, <2>2, <2>3
<1>19. TextOf(r) = [k \in 1..len |-> D[q[k]].tok] /\ r.body = D /\ ShownAt(r.body) = q
  <2>1. r.body = D /\ Shown(D) \in SUBSET Nat
    BY <1>7 DEF D
  <2>2. \A i \in Shown(D) : \E k \in 1..len : q[k] = i
    BY <1>17
  <2>3. \A k, l \in 1..len : k < l => q[k] < q[l]
    BY <1>18
  <2>4. PICK y : y = r
    OBVIOUS
  <2>5. PICK S : S = Shown(y.body)
    OBVIOUS
  <2>6. S \in SUBSET Nat /\ q \in [1..len -> S] /\ \A i \in S : \E k \in 1..len : q[k] = i
    BY <1>16, <2>1, <2>2, <2>4, <2>5
  <2>7. ShownAt(y.body) = q
    BY <1>8, <2>3, <2>5, <2>6, AscendingIsOnly DEF ShownAt
  <2>8. DOMAIN ShownAt(y.body) = 1..len
    BY <1>15, <2>7
  <2> QED BY <2>1, <2>4, <2>7, <2>8 DEF TextOf
<1>20. TextOf(r) \in Seq(Tokens) /\ Len(TextOf(r)) = len
  <2>1. \A k \in 1..len : D[q[k]].tok \in Tokens
    BY <1>16 DEF Shown
  <2>2. TextOf(r) \in [1..len -> Tokens]
    BY <1>19, <2>1
  <2>3. PICK y : y = TextOf(r)
    OBVIOUS
  <2>4. y \in [1..len -> Tokens]
    BY <2>2, <2>3
  <2>5. y \in Seq(Tokens) /\ Len(y) = len
    BY <1>8, <2>4, FunctionIsSeq
  <2> QED BY <2>3, <2>5
<1>21. ASSUME NEW k \in 1..s PROVE TextOf(r)[k] = TextOf(p)[k]
  <2>1. k \in 1..len /\ q[k] = at[k] /\ k \in 1..n /\ D[at[k]] = L[at[k]] /\ at[k] \in 1..N
    BY <1>9, <1>11, <1>14
  <2>2. L[at[k]].tok = body[at[k]].tok
    BY <1>4, <2>1 DEF body
  <2> QED BY <1>2, <1>19, <2>1, <2>2
<1>22. ASSUME NEW k \in (s + 1)..(s + m) PROVE TextOf(r)[k] = new[k - s]
  <2>1. k \in 1..len /\ q[k] = after + (k - s)
    BY <1>14
  <2> QED BY <1>12, <1>19, <2>1
<1>23. ASSUME NEW k \in (s + m + 1)..len PROVE TextOf(r)[k] = TextOf(p)[k - m + (e - s)]
  <2>1. PICK j \in 1..n : /\ j = k - m + (e - s) /\ j \in (e + 1)..n
                          /\ k \in 1..len /\ q[k] = at[j] + m
    BY <1>14
  <2>2. D[at[j] + m] = L[at[j]] /\ at[j] \in 1..N
    BY <1>9, <1>13, <2>1
  <2>3. L[at[j]].tok = body[at[j]].tok
    BY <1>4, <2>2 DEF body
  <2> QED BY <1>2, <1>19, <2>1, <2>2, <2>3
<1>24. ItemsAround(r, L, p, s, e, m)
  <2>0. \A k : ShownItem(r, k) = D[q[k]]
    BY <1>19 DEF ShownItem
  <2>1. ASSUME NEW k \in 1..s PROVE ShownItem(r, k) = L[at[k]]
    BY <1>11, <1>14, <2>0
  <2>2. ASSUME NEW j \in (e + 1)..n PROVE ShownItem(r, j - (e - s) + m) = L[at[j]]
    <3>1. PICK k : k = j - (e - s) + m
      OBVIOUS
    <3>2. k \in (s + m + 1)..len /\ k - m + (e - s) = j
      BY ONLY <1>1, <1>8, <3>1, j \in (e + 1)..n, s \in Nat, e \in Nat, n \in Nat, m \in Nat,
              len \in Nat
    <3>3. q[k] = at[j] + m
      BY <1>14, <3>2
    <3>4. D[at[j] + m] = L[at[j]]
      BY <1>13
    <3> QED BY <2>0, <3>1, <3>3, <3>4
  <2> QED BY <1>1, <2>1, <2>2 DEF ItemsAround, at, body
<1> QED BY <1>1, <1>2, <1>8, <1>20, <1>21, <1>22, <1>23, <1>24 DEF IsPut

(* The items around the range stay as they were.                           *)
KeepsAround(r, p, s, e, m) ==
  /\ \A k \in 1..s : ShownItem(r, k) = ShownItem(p, k)
  /\ \A k \in (e + 1)..Len(TextOf(p)) : ShownItem(r, k - (e - s) + m) = ShownItem(p, k)

(* replaceParagraphTextRange with tracking puts the new text in place of   *)
(* the old one, and keeps everything else that is visible.                 *)
LEMMA TrackedReplaceShows ==
  ASSUME NEW E, NEW p \in ParagraphsIn(E), NEW s \in Nat, NEW e \in Nat, s <= e, ~Refused(p, s, e),
         NEW new \in Seq(Tokens), NEW by, NEW next \in Nat
  PROVE  LET r == TrackedReplace(p, s, e, new, by, next).p
         IN /\ r.id = p.id /\ e <= Len(TextOf(p)) /\ TextOf(r) = PutInto(TextOf(p), s, e, new)
            /\ KeepsAround(r, p, s, e, Len(new))
<1> DEFINE cut == Cut(p, s, e)
           dels == Stretches(cut)
           place == Place(p, s, e)
           ins == Element("ins", by, next + dels)
           L == Struck(p, cut, by, next)
           items == Items(new, Append(place.in, ins))
           at == ShownAt(p.body)
           r == TrackedReplace(p, s, e, new, by, next).p
           F == E \cup {Element("del", by, i) : i \in next..(next + dels - 1)} \cup {ins}
<1>1. p.body \in Bodies(E) /\ p.body \in Seq(ItemsIn(E))
  BY DEF ParagraphsIn, Bodies, ItemsIn, Toks
<1>2. r.id = p.id /\ r.body = Spliced(L, place.after, items)
  <2> DEFINE body == Spliced(L, place.after, items)
             used == next + dels + (IF new = <<>> THEN 0 ELSE 1)
             blank == Blanks(p, s, e, new) /\ Inert(body, TRUE)
             mark == IF blank THEN MarkDeleted(p.mark, by, used) ELSE p.mark
  <2>1. r = [p EXCEPT !.body = body, !.mark = mark]
    BY DEF TrackedReplace, Stretches
  <2>2. p = [id |-> p.id, mark |-> p.mark, body |-> p.body]
    BY DEF ParagraphsIn
  <2> HIDE DEF r, body, mark
  <2>3. r.id = p.id /\ r.body = body
    BY <2>1, <2>2
  <2> QED BY <2>3 DEF body
<1>3. /\ place.after \in 0..Len(p.body) /\ place.in \in Seq(E)
      /\ cut \in SUBSET (DOMAIN p.body) /\ IsFiniteSet(cut)
  BY RangeIsInside
<1>4. at # <<>> /\ e <= Len(at)
  <2>1. at # <<>> /\ ~(e > Len(at))
    BY DEF Refused
  <2>2. Len(at) \in Nat
    BY <1>1, TextOfBody
  <2> QED BY <2>1, <2>2
<1>5. /\ at \in [1..Len(at) -> Shown(p.body)] /\ Len(at) \in Nat /\ DOMAIN at = 1..Len(at)
      /\ \A k, l \in 1..Len(at) : k < l => at[k] < at[l]
      /\ Shown(p.body) \in SUBSET (1..Len(p.body)) /\ Len(p.body) \in Nat
      /\ Len(TextOf(p)) = Len(at) /\ TextOf(p) \in Seq(Tokens)
  BY <1>1, TextOfBody
<1>6. 1 \in 1..Len(at)
  <2>1. Len(at) # 0
    BY <1>4, <1>5, EmptySeq
  <2> HIDE DEF at
  <2> QED BY <1>5, <2>1
<1> HIDE DEF at
<1>7. \A k \in 1..Len(at) : at[k] \in Nat /\ at[k] \in DOMAIN p.body /\ Seen(p.body[at[k]])
  BY <1>5 DEF Shown, Seen
<1>8. \E k \in 1..Len(at) : place.in = p.body[at[k]].in
  <2>1. CASE e = 0
    BY <1>6, <2>1 DEF Place, at
  <2>2. CASE e # 0
    <3>1. e \in 1..Len(at)
      BY <1>4, <1>5, <2>2
    <3> QED BY <2>2, <3>1 DEF Place, at
  <2> QED BY <2>1, <2>2
<1>9. ASSUME NEW k \in 1..Len(at) PROVE at[k] <= place.after <=> k <= e
  <2>1. PICK a \in Nat : a = at[k]
    BY <1>7
  <2>2. CASE e = 0
    <3>1. place.after = at[1] - 1
      BY <2>2 DEF Place, at
    <3>2. PICK b \in Nat : b = at[1] /\ b <= a
      <4>1. CASE k = 1
        BY <1>7, <2>1, <4>1
      <4>2. CASE k # 1
        BY <1>5, <1>6, <1>7, <2>1, <4>2
      <4> QED BY <4>1, <4>2
    <3> QED BY <2>1, <2>2, <3>1, <3>2
  <2>3. CASE e # 0
    <3>1. e \in 1..Len(at) /\ place.after = at[e]
      BY <1>4, <1>5, <2>3 DEF Place, at
    <3>2. PICK b \in Nat : b = at[e]
      BY <1>7, <3>1
    <3>3. CASE k < e
      BY <1>5, <2>1, <3>1, <3>2, <3>3
    <3>4. CASE e < k
      BY <1>5, <2>1, <3>1, <3>2, <3>4
    <3>5. CASE k = e
      BY <2>1, <3>1, <3>2, <3>5
    <3> QED BY <3>3, <3>4, <3>5
  <2> QED BY <2>2, <2>3
<1>10. dels \in Nat
  <2> HIDE DEF cut
  <2>1. IsFiniteSet({i \in cut : i - 1 \notin cut})
    BY <1>3, FS_Subset
  <2> QED BY <2>1, FS_CardinalityType DEF Stretches
<1>11. L \in Bodies(F)
  <2>1. E \subseteq F /\ \A i \in next..(next + Stretches(cut) - 1) : Element("del", by, i) \in F
    OBVIOUS
  <2> HIDE DEF F, cut
  <2> QED BY <1>1, <1>3, <2>1, StruckBody
<1>12. /\ DOMAIN L = DOMAIN p.body
       /\ \A i \in DOMAIN p.body : L[i].tok = p.body[i].tok
       /\ Shown(L) = Shown(p.body) \ cut
       /\ \A i \in DOMAIN p.body \ cut : L[i] = p.body[i]
  <2>1. IsStruck(L, p.body, cut)
    <3> HIDE DEF cut
    <3> QED BY <1>1, <1>3, StruckShows
  <2> HIDE DEF L, cut
  <2> QED BY <2>1 DEF IsStruck
<1>13. Append(place.in, ins) \in Seq(F)
  <2>1. ins \in F /\ E \subseteq F
    OBVIOUS
  <2> HIDE DEF F, place, ins
  <2> QED BY <1>3, <2>1, SeqMonotonic, AppendProperties
<1>14. items \in Bodies(F)
  <2> HIDE DEF F, place, ins
  <2> QED BY <1>13, ItemsBody
<1>15. \A k \in DOMAIN Append(place.in, ins) : Append(place.in, ins)[k].kind # "del"
  <2>1. PICK k \in 1..Len(at) : place.in = p.body[at[k]].in
    BY <1>8
  <2>2. \A l \in DOMAIN place.in : place.in[l].kind # "del"
    BY <1>7, <2>1 DEF Seen, Within
  <2>3. ins.kind = "ins"
    BY DEF Element
  <2> DEFINE in == place.in
  <2> HIDE DEF ins, in
  <2>4. in \in Seq(E) /\ Len(in) \in Nat /\ DOMAIN in = 1..Len(in)
    BY <1>3, LenProperties DEF in
  <2>5. \A l \in DOMAIN Append(in, ins) :
          \/ l \in DOMAIN in /\ Append(in, ins)[l] = in[l]
          \/ Append(in, ins)[l] = ins
    BY <2>4
  <2> QED BY <2>2, <2>3, <2>5 DEF in
<1>16. Len(items) = Len(new) /\ \A i \in 1..Len(new) : items[i].tok = new[i] /\ Seen(items[i])
  <2> HIDE DEF place, ins
  <2> QED BY <1>15, ItemsAreSeen
<1>17. /\ TextOf(r) \in Seq(Tokens) /\ IsPut(TextOf(r), TextOf(p), s, e, new)
       /\ ItemsAround(r, L, p, s, e, Len(new))
  <2>1. PICK y, M, its, after, G : y = r /\ M = L /\ its = items /\ after = place.after /\ G = F
    OBVIOUS
  <2>2. /\ M \in Bodies(G) /\ DOMAIN M = DOMAIN p.body
        /\ \A i \in DOMAIN p.body : M[i].tok = p.body[i].tok
        /\ Shown(M) = Shown(p.body) \ Cut(p, s, e)
        /\ its \in Bodies(G) /\ Len(its) = Len(new)
        /\ y.body = Spliced(M, after, its) /\ after \in 0..Len(p.body)
    BY <1>2, <1>3, <1>11, <1>12, <1>14, <1>16, <2>1
  <2>3. \A i \in 1..Len(new) : its[i].tok = new[i] /\ Seen(its[i])
    BY <1>16, <2>1
  <2>4. \A k \in 1..Len(ShownAt(p.body)) : ShownAt(p.body)[k] <= after <=> k <= e
    BY <1>9, <2>1 DEF at
  <2>5. e <= Len(ShownAt(p.body))
    BY <1>4 DEF at
  <2> HIDE DEF r, L, items, place, F
  <2> QED BY <1>1, <2>1, <2>2, <2>3, <2>4, <2>5, SplicedShows
<1>18. TextOf(r) = PutInto(TextOf(p), s, e, new)
  <2>1. e <= Len(TextOf(p)) /\ TextOf(p) \in Seq(Tokens)
    BY <1>4, <1>5
  <2>2. PutInto(TextOf(p), s, e, new) \in Seq(Tokens) /\ IsPut(PutInto(TextOf(p), s, e, new), TextOf(p), s, e, new)
    BY <2>1, Joined
  <2> HIDE DEF r
  <2> QED BY <1>17, <2>1, <2>2, PutIsUnique
<1>19. KeepsAround(r, p, s, e, Len(new))
  <2>1. ASSUME NEW k \in 1..Len(at), k \notin (s + 1)..e PROVE L[at[k]] = ShownItem(p, k)
    <3>1. ASSUME at[k] \in cut PROVE FALSE
      <4>1. PICK l \in (s + 1)..e : at[l] = at[k]
        BY <3>1 DEF Cut, at
      <4>2. l \in 1..Len(at) /\ (l < k \/ k < l)
        BY <1>4, <1>5, <2>1, <4>1
      <4>3. at[l] \in Nat /\ at[k] \in Nat
        BY <1>7, <4>2
      <4> QED BY <1>5, <4>1, <4>2, <4>3
    <3>2. at[k] \in DOMAIN p.body \ cut
      BY <1>7, <3>1
    <3> HIDE DEF L, cut
    <3>3. L[at[k]] = p.body[at[k]]
      BY <1>12, <3>2
    <3> QED BY <3>3 DEF ShownItem, at
  <2>2. Len(TextOf(p)) = Len(at) /\ Len(at) \in Nat /\ at = ShownAt(p.body)
    BY <1>5 DEF at
  <2>3. ASSUME NEW k \in 1..s PROVE ShownItem(r, k) = ShownItem(p, k)
    <3>1. k \in 1..Len(at) /\ k \notin (s + 1)..e
      BY <1>4, <2>2
    <3> HIDE DEF r, L
    <3> QED BY <1>17, <2>1, <2>2, <3>1 DEF ItemsAround
  <2>4. ASSUME NEW k \in (e + 1)..Len(at) PROVE ShownItem(r, k - (e - s) + Len(new)) = ShownItem(p, k)
    <3>1. k \in 1..Len(at) /\ k \notin (s + 1)..e
      BY <1>4, <2>2
    <3> HIDE DEF r, L
    <3> QED BY <1>17, <2>1, <2>2, <3>1 DEF ItemsAround
  <2> HIDE DEF r
  <2> QED BY <2>2, <2>3, <2>4 DEF KeepsAround
<1> QED BY <1>2, <1>4, <1>5, <1>18, <1>19

(* A paragraph of new text shows it.                                       *)
LEMMA NewTextShows ==
  ASSUME NEW new \in Seq(Tokens), NEW in, \A k \in DOMAIN in : in[k].kind # "del",
         NEW p, p.body = Items(new, in)
  PROVE  TextOf(p) = new
<1>1. PICK m, b : m \in Nat /\ m = Len(new) /\ b = Items(new, in)
  BY LenProperties
<1>2. DOMAIN new = 1..m /\ DOMAIN b = 1..m
  BY <1>1, LenProperties DEF Items
<1>3. \A i \in 1..m : b[i].tok = new[i] /\ Seen(b[i])
  BY <1>1, ItemsAreSeen
<1>4. Shown(b) = 1..m
  BY <1>2, <1>3 DEF Shown, Seen
<1> DEFINE q == [k \in 1..m |-> k]
<1>5. Ascending(1..m) = q
  <2>1. (1..m) \in SUBSET Nat /\ q \in [1..m -> 1..m] /\ \A i \in 1..m : \E k \in 1..m : q[k] = i
    OBVIOUS
  <2>2. \A k, l \in 1..m : k < l => q[k] < q[l]
    OBVIOUS
  <2> HIDE DEF q
  <2>3. PICK S : S = 1..m
    OBVIOUS
  <2>4. S \in SUBSET Nat /\ q \in [1..m -> S] /\ \A i \in S : \E k \in 1..m : q[k] = i
    BY <2>1, <2>3
  <2>5. m \in Nat
    BY <1>1
  <2>6. Ascending(S) = q
    BY <2>2, <2>4, <2>5, AscendingIsOnly
  <2> QED BY <2>3, <2>6
<1>6. TextOf(p) = [k \in 1..m |-> b[k].tok]
  BY <1>1, <1>4, <1>5 DEF TextOf, ShownAt
<1> QED BY <1>2, <1>3, <1>6, <1>1


(***************************************************************************)
(* Picking members of a sequence, and joining paragraphs                   *)
(***************************************************************************)

(* q lists places of a sequence of length n in order. *)
Lists(q, n, places) ==
  /\ \A k \in 1..n : q[k] \in places
  /\ \A i \in places : \E k \in 1..n : q[k] = i
  /\ \A k, l \in 1..n : k < l => q[k] < q[l]

(* What is picked from the places that q lists. *)
LEMMA PickedIs ==
  ASSUME NEW s, NEW places \in SUBSET Nat, NEW n \in Nat, NEW q, Lists(q, n, places)
  PROVE  Picked(s, places) = [k \in 1..n |-> s[q[k]]]
<1> DEFINE f == [k \in 1..n |-> q[k]]
<1>1. f \in [1..n -> places] /\ \A k \in 1..n : f[k] = q[k]
  BY DEF Lists
<1> HIDE DEF f
<1>2. (\A i \in places : \E k \in 1..n : f[k] = i) /\ (\A k, l \in 1..n : k < l => f[k] < f[l])
  BY <1>1 DEF Lists
<1>3. Ascending(places) = f
  BY <1>1, <1>2, AscendingIsOnly
<1>4. DOMAIN f = 1..n
  BY <1>1
<1> QED BY <1>1, <1>3, <1>4 DEF Picked

(* w follows the rules of the merge. *)
IsMerge(w, doc, joins) ==
  /\ w = [j \in 0..Len(doc) |-> w[j]]
  /\ w[0] = [done |-> <<>>, carry |-> <<>>, last |-> <<>>]
  /\ \A j \in 1..Len(doc) : w[j] = MergedNext(w[j - 1], doc[j], joins)

(* Such a sequence is the merge: the recursive function is unique.         *)
LEMMA MergeIsOnly ==
  ASSUME NEW doc, NEW joins, Len(doc) \in Nat, NEW w, IsMerge(w, doc, joins)
  PROVE  MergedUpTo(doc, joins)[Len(doc)] = w[Len(doc)]
<1> DEFINE start == [done |-> <<>>, carry |-> <<>>, last |-> <<>>]
           by(u) == [j \in 0..Len(doc) |-> IF j = 0 THEN start
                                           ELSE MergedNext(u[j - 1], doc[j], joins)]
           m == MergedUpTo(doc, joins)
<1>1. PICK n \in Nat : n = Len(doc)
  OBVIOUS
<1>2. w = by(w)
  <2>1. \A j \in 0..n : w[j] = IF j = 0 THEN start ELSE MergedNext(w[j - 1], doc[j], joins)
    BY <1>1 DEF IsMerge
  <2>2. w = [j \in 0..n |-> w[j]]
    BY <1>1 DEF IsMerge
  <2> QED BY <1>1, <2>1, <2>2
<1>3. m = CHOOSE u : u = by(u)
  BY DEF MergedUpTo
<1> HIDE DEF m
<1>4. m = by(m)
  <2> HIDE DEF by
  <2> QED BY <1>2, <1>3
<1>5. \A j \in 0..n : m[j] = IF j = 0 THEN start ELSE MergedNext(m[j - 1], doc[j], joins)
  BY <1>1, <1>4
<1> DEFINE G == {j \in 0..n : m[j] = w[j]}
<1>6. 0 \in G
  BY <1>5, <1>1 DEF IsMerge
<1>7. ASSUME NEW j \in 1..n, j - 1 \in G PROVE j \in G
  <2>1. j \in 0..n /\ j # 0 /\ m[j - 1] = w[j - 1]
    BY <1>7
  <2> HIDE DEF start
  <2>2. m[j] = MergedNext(m[j - 1], doc[j], joins)
    BY <1>5, <2>1
  <2>3. w[j] = MergedNext(w[j - 1], doc[j], joins)
    BY <1>1 DEF IsMerge
  <2> QED BY <2>1, <2>2, <2>3
<1>8. \A j \in 0..n : j \in G
  <2> HIDE DEF G
  <2> QED BY <1>6, <1>7, InductionUpTo
<1>9. m[n] = w[n]
  BY <1>8
<1> QED BY <1>1, <1>9 DEF m


(***************************************************************************)
(* Documents over others: what somebody's tracked edits make of a document *)
(***************************************************************************)

(* An element around an item, or on a mark, is an insertion of by.         *)
InsertedBy(item, by) ==
  \E k \in DOMAIN item.in : item.in[k].kind = "ins" /\ item.in[k].by = by

(* The path of an item, with deletions of by at its end. *)
PathOver(path, from, by) ==
  /\ Len(from) <= Len(path)
  /\ \A k \in 1..Len(from) : path[k] = from[k]
  /\ \A k \in (Len(from) + 1)..Len(path) : path[k].kind = "del" /\ path[k].by = by

ItemOver(item, from, by) ==
  /\ item.tok = from.tok
  /\ PathOver(item.in, from.in, by)
  /\ from.tok \notin Tokens => item.in = from.in

(* g leads from the items of a body to those of a body over it; all others *)
(* were inserted.                                                          *)
Increases(g, n) == \A i, k \in 1..n : i < k => g[i] < g[k]

BodyOver(g, body, from, by) ==
  /\ g \in [1..Len(from) -> 1..Len(body)] /\ Increases(g, Len(from))
  /\ \A i \in 1..Len(from) : ItemOver(body[g[i]], from[i], by)
  /\ \A j \in 1..Len(body) : (\E i \in 1..Len(from) : g[i] = j) \/ InsertedBy(body[j], by)

BodyIsOver(body, from, by) == \E g : BodyOver(g, body, from, by)

MarkOver(mark, from, by) ==
  /\ from \subseteq mark
  /\ \A r \in mark \ from : r.kind = "del" /\ r.by = by

ParagraphOver(p, from, by) ==
  /\ p.id = from.id
  /\ MarkOver(p.mark, from.mark, by)
  /\ BodyIsOver(p.body, from.body, by)

(* A paragraph that was inserted. *)
ParagraphBy(p, by) ==
  /\ \E r \in p.mark : r.kind = "ins" /\ r.by = by
  /\ BodyIsOver(p.body, <<>>, by)

Embedded(g, d, from, by) ==
  /\ g \in [1..Len(from) -> 1..Len(d)] /\ Increases(g, Len(from))
  /\ \A i \in 1..Len(from) : ParagraphOver(d[g[i]], from[i], by)
  /\ \A j \in 1..Len(d) : (\E i \in 1..Len(from) : g[i] = j) \/ ParagraphBy(d[j], by)

Over(d, from, by) == (from = <<>> => d = <<>>) /\ \E g : Embedded(g, d, from, by)

(* Deleted text stays over what it was over, and inserted text inserted. *)
LEMMA StruckItem ==
  ASSUME NEW E, NEW item \in ItemsIn(E), NEW by, NEW r, r.kind = "del", r.by = by,
         NEW z, z = [item EXCEPT !.in = Append(@, r)]
  PROVE  /\ InsertedBy(item, by) => InsertedBy(z, by)
         /\ \A from : Len(from.in) \in Nat /\ item.tok \in Tokens /\ ItemOver(item, from, by)
                        => ItemOver(z, from, by)
<1>1. item.in \in Seq(E)
  BY DEF ItemsIn
<1>2. PICK in, n : in = item.in /\ n = Len(in) /\ n \in Nat /\ DOMAIN in = 1..n /\ in \in Seq(E)
  BY <1>1, LenProperties
<1>3. z.in = Append(in, r) /\ z.tok = item.tok
  BY <1>2 DEF ItemsIn
<1>4. PICK out : out = Append(in, r)
  OBVIOUS
<1>5. /\ Len(out) = n + 1 /\ DOMAIN out = 1..(n + 1)
      /\ \A k \in 1..n : out[k] = in[k]
      /\ out[n + 1] = r
  BY <1>2, <1>4
<1>6. InsertedBy(item, by) => InsertedBy(z, by)
  <2> SUFFICES ASSUME NEW k \in 1..n, in[k].kind = "ins", in[k].by = by PROVE InsertedBy(z, by)
    BY <1>2 DEF InsertedBy
  <2>1. k \in 1..(n + 1) /\ out[k] = in[k]
    BY <1>2, <1>5
  <2>2. z.in = out /\ k \in DOMAIN z.in
    BY <1>3, <1>4, <1>5, <2>1
  <2>3. z.in[k] = in[k]
    BY <2>1, <2>2
  <2> QED BY <2>2, <2>3 DEF InsertedBy
<1>7. ASSUME NEW from, Len(from.in) \in Nat, item.tok \in Tokens, ItemOver(item, from, by)
      PROVE  ItemOver(z, from, by)
  <2>1. PICK m \in Nat : m = Len(from.in) /\ m <= n
    BY <1>2, <1>7 DEF ItemOver, PathOver
  <2>2. /\ \A k \in 1..m : in[k] = from.in[k]
        /\ \A k \in (m + 1)..n : in[k].kind = "del" /\ in[k].by = by
    BY <1>2, <1>7, <2>1 DEF ItemOver, PathOver
  <2>3. ASSUME NEW k \in (m + 1)..(n + 1) PROVE out[k].kind = "del" /\ out[k].by = by
    <3>1. CASE k = n + 1
      BY <1>5, <3>1
    <3>2. CASE k # n + 1
      <4>1. k \in 1..n /\ k \in (m + 1)..n
        BY <1>2, <2>1, <3>2
      <4>2. out[k] = in[k]
        BY <1>5, <4>1
      <4> QED BY <2>2, <4>1, <4>2
    <3> QED BY <3>1, <3>2
  <2>4. \A k \in 1..m : out[k] = from.in[k]
    <3> SUFFICES ASSUME NEW k \in 1..m PROVE out[k] = from.in[k]
      OBVIOUS
    <3>1. k \in 1..n
      BY <1>2, <2>1
    <3>2. out[k] = in[k]
      BY <1>5, <3>1
    <3> QED BY <2>2, <3>2
  <2>5. PathOver(out, from.in, by)
    <3>1. Len(from.in) = m /\ Len(out) = n + 1 /\ m <= n + 1
      BY <1>2, <1>5, <2>1
    <3> QED BY <2>3, <2>4, <3>1 DEF PathOver
  <2> QED BY <1>3, <1>4, <1>7, <2>5 DEF ItemOver
<1> QED BY <1>6, <1>7

(* So does a body some shown items of which are struck.                    *)
LEMMA StruckOver ==
  ASSUME NEW E, NEW p, p.body \in Bodies(E), NEW cut \in SUBSET Shown(p.body), NEW by,
         NEW next, NEW D, NEW from \in Bodies(D), NEW g, BodyOver(g, p.body, from, by)
  PROVE  BodyOver(g, Struck(p, cut, by, next), from, by)
<1> DEFINE L == Struck(p, cut, by, next)
           id(i) == next + StretchOf(cut, i) - 1
           struck(i) == [p.body[i] EXCEPT !.in = Append(@, Element("del", by, id(i)))]
<1>1. PICK body, n : body = p.body /\ n = Len(body) /\ n \in Nat /\ DOMAIN body = 1..n
                    /\ \A i \in 1..n : body[i] \in ItemsIn(E)
  <2>1. p.body \in Seq(ItemsIn(E))
    BY DEF Bodies, ItemsIn, Toks
  <2> DEFINE T == ItemsIn(E)
  <2> HIDE DEF T
  <2>2. Len(p.body) \in Nat /\ DOMAIN p.body = 1..Len(p.body) /\ p.body \in [1..Len(p.body) -> T]
    BY <2>1, LenProperties DEF T
  <2>3. \A i \in 1..Len(p.body) : p.body[i] \in T
    BY <2>2
  <2> QED BY <2>2, <2>3 DEF T
<1>2. \A i \in 1..Len(from) : Len(from[i].in) \in Nat
  <2>1. from \in Seq(ItemsIn(D))
    BY DEF Bodies, ItemsIn, Toks
  <2>2. \A i \in 1..Len(from) : from[i] \in ItemsIn(D)
    BY <2>1, LenProperties, ElementOfSeq
  <2> QED BY <2>2, LenProperties DEF ItemsIn
<1>3. L = [i \in 1..n |-> IF i \in cut THEN struck(i) ELSE body[i]]
  BY <1>1 DEF Struck
<1> HIDE DEF L
<1>4. DOMAIN L = 1..n
  BY <1>3
<1>5. Len(L) = n
  BY <1>1, <1>3
<1>6. ASSUME NEW i \in 1..n
      PROVE  /\ InsertedBy(body[i], by) => InsertedBy(L[i], by)
             /\ \A f : Len(f.in) \in Nat /\ ItemOver(body[i], f, by) => ItemOver(L[i], f, by)
  <2>1. CASE i \notin cut
    BY <1>3, <2>1
  <2>2. CASE i \in cut
    <3>1. body[i].tok \in Tokens
      BY <1>1, <2>2 DEF Shown
    <3>2. PICK r : r = Element("del", by, id(i))
      OBVIOUS
    <3>5. r.kind = "del" /\ r.by = by
      BY <3>2 DEF Element
    <3>3. L[i] = [body[i] EXCEPT !.in = Append(@, r)]
      BY <1>1, <1>3, <2>2, <3>2
    <3>4. body[i] \in ItemsIn(E)
      BY <1>1
    <3> QED BY <3>1, <3>3, <3>4, <3>5, StruckItem
  <2> QED BY <2>1, <2>2
<1>7. /\ g \in [1..Len(from) -> 1..n] /\ Increases(g, Len(from))
      /\ \A i \in 1..Len(from) : ItemOver(body[g[i]], from[i], by)
      /\ \A j \in 1..n : (\E i \in 1..Len(from) : g[i] = j) \/ InsertedBy(body[j], by)
  BY <1>1 DEF BodyOver
<1>8. \A i \in 1..Len(from) : ItemOver(L[g[i]], from[i], by)
  BY <1>2, <1>6, <1>7
<1>9. \A j \in 1..n : (\E i \in 1..Len(from) : g[i] = j) \/ InsertedBy(L[j], by)
  BY <1>6, <1>7
<1>10. BodyOver(g, L, from, by)
  BY <1>5, <1>7, <1>8, <1>9 DEF BodyOver
<1> QED BY <1>10 DEF L

(* h leads from 1..f to the places of z, in order, all but those of X.     *)
Leads(h, f, z, X) ==
  /\ h \in [1..f -> 1..Len(z)] /\ Increases(h, f)
  /\ \A j \in 1..Len(z) : (\E i \in 1..f : h[i] = j) \/ z[j] \in X

(* So do places of z that hold what g leads to in y.                       *)
Carries(z, y, g, f, X) == \E h : Leads(h, f, z, X) /\ \A i \in 1..f : z[h[i]] = y[g[i]]

(* What is put in between moves the places behind it.                      *)
LEMMA PutLeads ==
  ASSUME NEW T, NEW L \in Seq(T), NEW items \in Seq(T), NEW after \in 0..Len(L), NEW X,
         NEW f \in Nat, NEW g, Leads(g, f, L, X), \A k \in 1..Len(items) : items[k] \in X
  PROVE  Carries(PutInto(L, after, after, items), L, g, f, X)
<1> DEFINE z == PutInto(L, after, after, items)
<1>2. PICK n \in Nat, m \in Nat : n = Len(L) /\ m = Len(items) /\ after \in 0..n
  BY LenProperties
<1>3. z \in Seq(T) /\ IsPut(z, L, after, after, items)
  <2>1. after \in Nat /\ after <= after /\ after <= Len(L)
    BY <1>2
  <2> QED BY <2>1, Joined
<1> HIDE DEF z
<1>4. /\ Len(z) = n + m
      /\ \A k \in 1..after : z[k] = L[k]
      /\ \A k \in (after + 1)..(after + m) : z[k] = items[k - after]
      /\ \A k \in (after + m + 1)..(n + m) : z[k] = L[k - m]
  <2>1. n - (after - after) + m = n + m
    BY <1>2
  <2>2. \A k \in (after + m + 1)..(n + m) : k - m + (after - after) = k - m
    BY <1>2
  <2> QED BY <1>2, <1>3, <2>1, <2>2 DEF IsPut
<1>6. /\ g \in [1..f -> 1..n] /\ Increases(g, f)
      /\ \A j \in 1..n : (\E i \in 1..f : g[i] = j) \/ L[j] \in X
  BY <1>2 DEF Leads
<1> DEFINE h == [i \in 1..f |-> IF g[i] <= after THEN g[i] ELSE g[i] + m]
<1>7. ASSUME NEW i \in 1..f PROVE h[i] \in 1..(n + m) /\ z[h[i]] = L[g[i]]
  <2>1. PICK a \in 1..n : a = g[i]
    BY <1>6
  <2>2. CASE a <= after
    BY <1>2, <1>4, <2>1, <2>2
  <2>3. CASE ~(a <= after)
    <3>1. h[i] = a + m
      BY <1>2, <2>1, <2>3
    <3>2. a + m \in (after + m + 1)..(n + m) /\ (a + m) - m = a
      BY <1>2, <2>1, <2>3
    <3>3. z[a + m] = L[(a + m) - m]
      BY <1>4, <3>2
    <3>4. a + m \in 1..(n + m)
      BY <1>2, <2>1
    <3> QED BY <2>1, <3>1, <3>2, <3>3, <3>4
  <2> QED BY <2>2, <2>3
<1>8. Increases(h, f)
  <2> SUFFICES ASSUME NEW i \in 1..f, NEW k \in 1..f, i < k PROVE h[i] < h[k]
    BY DEF Increases
  <2>1. PICK a \in 1..n, b \in 1..n : a = g[i] /\ b = g[k] /\ a < b
    BY <1>6 DEF Increases
  <2> QED BY <1>2, <2>1
<1>9. ASSUME NEW j \in 1..(n + m) PROVE (\E i \in 1..f : h[i] = j) \/ z[j] \in X
  <2>1. CASE j <= after
    <3>1. j \in 1..after /\ j \in 1..n
      BY <1>2, <2>1
    <3>2. CASE \E i \in 1..f : g[i] = j
      BY <2>1, <3>2
    <3>3. CASE L[j] \in X
      BY <1>4, <3>1, <3>3
    <3> QED BY <1>6, <3>1, <3>2, <3>3
  <2>2. CASE j \in (after + 1)..(after + m)
    <3>1. j - after \in 1..m
      BY <1>2, <2>2
    <3> QED BY <1>2, <1>4, <2>2, <3>1
  <2>3. CASE j \in (after + m + 1)..(n + m)
    <3>1. PICK k \in 1..n : k = j - m /\ k > after /\ k + m = j
      <4>1. j - m \in 1..n /\ j - m > after /\ (j - m) + m = j
        BY <1>2, <2>3
      <4> QED BY <4>1
    <3>2. CASE \E i \in 1..f : g[i] = k
      <4>1. PICK i \in 1..f : g[i] = k
        BY <3>2
      <4>0. h[i] = IF g[i] <= after THEN g[i] ELSE g[i] + m
        OBVIOUS
      <4>2. h[i] = k + m
        <5>1. after \in Nat /\ ~(k <= after)
          BY <1>2, <3>1
        <5> HIDE DEF h
        <5> QED BY <4>0, <4>1, <5>1
      <4> HIDE DEF h
      <4>3. h[i] = j
        BY <3>1, <4>2
      <4> QED BY <4>3
    <3>3. CASE L[k] \in X
      BY <1>4, <2>3, <3>1, <3>3
    <3> QED BY <1>6, <3>1, <3>2, <3>3
  <2>4. j <= after \/ j \in (after + 1)..(after + m) \/ j \in (after + m + 1)..(n + m)
    BY <1>2
  <2> QED BY <2>1, <2>2, <2>3, <2>4
<1>10. h \in [1..f -> 1..(n + m)] /\ \A i \in 1..f : z[h[i]] = L[g[i]]
  BY <1>7
<1> HIDE DEF h
<1>11. Leads(h, f, z, X)
  BY <1>4, <1>8, <1>9, <1>10 DEF Leads
<1> QED BY <1>10, <1>11 DEF z, Carries

(* And a body into which inserted items are put.                           *)
LEMMA SplicedOver ==
  ASSUME NEW E, NEW L \in Bodies(E), NEW items \in Bodies(E), NEW after \in 0..Len(L), NEW by,
         \A k \in 1..Len(items) : InsertedBy(items[k], by),
         NEW from, Len(from) \in Nat, NEW g, BodyOver(g, L, from, by)
  PROVE  \E h : BodyOver(h, Spliced(L, after, items), from, by)
<1> DEFINE T == ItemsIn(E)
           X == {x \in T : InsertedBy(x, by)}
           z == PutInto(L, after, after, items)
<1>1. L \in Seq(T) /\ items \in Seq(T)
  BY DEF Bodies, ItemsIn, Toks
<1>2. z = Spliced(L, after, items)
  BY DEF Spliced, PutInto
<1>3. PICK f : f = Len(from) /\ f \in Nat
  OBVIOUS
<1> HIDE DEF T
<1>4. (\A k \in 1..Len(L) : L[k] \in T) /\ (\A k \in 1..Len(items) : items[k] \in T)
  BY <1>1, LenProperties, ElementOfSeq
<1>5. Leads(g, f, L, X)
  BY <1>3, <1>4 DEF Leads, BodyOver
<1>6. \A k \in 1..Len(items) : items[k] \in X
  BY <1>4
<1> HIDE DEF X, z
<1>7. PICK h : Leads(h, f, z, X) /\ \A i \in 1..f : z[h[i]] = L[g[i]]
  <2>1. Carries(z, L, g, f, X)
    BY <1>1, <1>3, <1>5, <1>6, PutLeads DEF z
  <2> QED BY <2>1 DEF Carries
<1>8. ASSUME NEW i \in 1..f PROVE ItemOver(z[h[i]], from[i], by)
  <2>1. ItemOver(L[g[i]], from[i], by)
    BY <1>3 DEF BodyOver
  <2> QED BY <1>7, <2>1
<1>9. BodyOver(h, z, from, by)
  <2>1. \A j \in 1..Len(z) : (\E i \in 1..Len(from) : h[i] = j) \/ InsertedBy(z[j], by)
    BY <1>3, <1>7 DEF Leads, X
  <2>2. h \in [1..Len(from) -> 1..Len(z)] /\ Increases(h, Len(from))
    BY <1>3, <1>7 DEF Leads
  <2> QED BY <1>3, <1>8, <2>1, <2>2 DEF BodyOver
<1> QED BY <1>2, <1>9

(* The items of an insertion are inserted. *)
LEMMA NewItemsInserted ==
  ASSUME NEW E, NEW new \in Seq(Tokens), NEW in \in Seq(E), NEW by, NEW id
  PROVE  LET items == Items(new, Append(in, Element("ins", by, id)))
         IN \A k \in 1..Len(items) : InsertedBy(items[k], by)
<1> DEFINE x == Element("ins", by, id)
           path == Append(in, x)
           items == Items(new, path)
<1>1. PICK n : n = Len(new) /\ n \in Nat /\ DOMAIN new = 1..n
  BY LenProperties
<1>2. Len(path) = Len(in) + 1 /\ path[Len(in) + 1] = x /\ Len(in) \in Nat
      /\ path \in Seq(E \cup {x})
  <2> DEFINE S == E \cup {x}
  <2>1. in \in Seq(S) /\ x \in S
    BY SeqMonotonic
  <2> HIDE DEF S, x
  <2> QED BY <2>1, AppendProperties, LenProperties DEF S
<1>3. x.kind = "ins" /\ x.by = by
  BY DEF Element
<1> HIDE DEF x, path
<1>4. Len(in) + 1 \in DOMAIN path
  BY <1>2, LenProperties
<1>5. DOMAIN items = 1..n /\ Len(items) = n /\ \A k \in 1..n : items[k].in = path
  BY <1>1 DEF Items, Item
<1> HIDE DEF items
<1>6. ASSUME NEW k \in 1..n PROVE InsertedBy(items[k], by)
  BY <1>2, <1>3, <1>4, <1>5 DEF InsertedBy
<1>7. \A k \in 1..Len(items) : InsertedBy(items[k], by)
  BY <1>5, <1>6
<1> QED BY <1>7 DEF items, path, x

(* A tracked replacement keeps a paragraph over what it was over.          *)
LEMMA ReplaceKeepsOver ==
  ASSUME NEW E, NEW p \in ParagraphsIn(E), NEW s \in Nat, NEW e \in Nat, ~Refused(p, s, e),
         NEW new \in Seq(Tokens), NEW by, NEW next \in Nat
  PROVE  LET r == TrackedReplace(p, s, e, new, by, next).p
         IN /\ ParagraphBy(p, by) => ParagraphBy(r, by)
            /\ \A D : \A from \in ParagraphsIn(D) : ParagraphOver(p, from, by) => ParagraphOver(r, from, by)
<1> DEFINE cut == Cut(p, s, e)
           dels == Stretches(cut)
           place == Place(p, s, e)
           ins == Element("ins", by, next + dels)
           items == Items(new, Append(place.in, ins))
           L == Struck(p, cut, by, next)
           body == Spliced(L, place.after, items)
           used == next + dels + (IF new = <<>> THEN 0 ELSE 1)
           blank == Blanks(p, s, e, new) /\ Inert(body, TRUE)
           mark == IF blank THEN MarkDeleted(p.mark, by, used) ELSE p.mark
           r == TrackedReplace(p, s, e, new, by, next).p
           F == E \cup {Element(kind, by, id) : kind \in {"ins", "del"}, id \in Nat}
<1>1. r = [p EXCEPT !.body = body, !.mark = mark]
  BY DEF TrackedReplace, Stretches
<1>2. /\ p.id \in Nat /\ p.mark \in Marks(E) /\ p.body \in Bodies(E)
      /\ p = [id |-> p.id, mark |-> p.mark, body |-> p.body]
  BY DEF ParagraphsIn
<1>3. r.id = p.id /\ r.mark = mark /\ r.body = body
  <2> HIDE DEF body, mark
  <2> QED BY <1>1, <1>2
<1> HIDE DEF r
<1>4. /\ place.after \in 0..Len(p.body) /\ place.in \in Seq(E)
      /\ cut \in SUBSET (DOMAIN p.body) /\ IsFiniteSet(cut)
  BY RangeIsInside
<1>5. cut \in SUBSET Shown(p.body)
  <2>1. PICK at : at = ShownAt(p.body)
    OBVIOUS
  <2>2. at \in [1..Len(at) -> Shown(p.body)] /\ Len(at) \in Nat
    BY <1>2, <2>1, TextOfBody
  <2>3. ~(e > Len(at))
    BY <2>1 DEF Refused
  <2>4. \A k \in (s + 1)..e : k \in 1..Len(at)
    BY <2>2, <2>3
  <2> QED BY <2>1, <2>2, <2>4 DEF Cut
<1>6. dels \in Nat
  <2> HIDE DEF cut
  <2>1. IsFiniteSet({i \in cut : i - 1 \notin cut})
    BY <1>4, FS_Subset
  <2> QED BY <2>1, FS_CardinalityType DEF Stretches
<1>7. L \in Bodies(F) /\ Len(L) = Len(p.body)
  <2>1. \A i \in next..(next + Stretches(cut) - 1) : Element("del", by, i) \in F
    <3> HIDE DEF cut
    <3> QED BY <1>6
  <2>2. E \subseteq F
    OBVIOUS
  <2> HIDE DEF F, cut
  <2>3. p.body \in Bodies(E) /\ cut \in SUBSET (DOMAIN p.body)
    BY <1>2, <1>4
  <2> QED BY <2>1, <2>2, <2>3, StruckBody
<1>8. items \in Bodies(F)
  <2>1. ins \in F
    <3>1. PICK id : id = next + dels /\ id \in Nat
      <4> HIDE DEF dels
      <4> QED BY <1>6
    <3> HIDE DEF dels
    <3> QED BY <3>1
  <2>2. place.in \in Seq(F)
    <3> HIDE DEF place
    <3> QED BY <1>4, SeqMonotonic
  <2>3. Append(place.in, ins) \in Seq(F)
    <3> HIDE DEF F, place, ins
    <3> QED BY <2>1, <2>2, AppendProperties
  <2> HIDE DEF F, place, ins
  <2> QED BY <2>3, ItemsBody
<1>9. \A k \in 1..Len(items) : InsertedBy(items[k], by)
  <2> HIDE DEF place, dels
  <2> QED BY <1>4, NewItemsInserted
<1>10. ASSUME NEW D, NEW from \in Bodies(D), BodyIsOver(p.body, from, by)
       PROVE  BodyIsOver(r.body, from, by)
  <2> HIDE DEF L, items, place, cut, F
  <2>1. PICK g : BodyOver(g, p.body, from, by)
    BY <1>10 DEF BodyIsOver
  <2>2. BodyOver(g, L, from, by)
    BY <1>2, <1>5, <2>1, StruckOver DEF L
  <2>3. Len(from) \in Nat
    BY LenProperties DEF Bodies
  <2>4. place.after \in 0..Len(L)
    BY <1>4, <1>7
  <2>5. \E h : BodyOver(h, Spliced(L, place.after, items), from, by)
    BY <1>7, <1>8, <1>9, <2>2, <2>3, <2>4, SplicedOver
  <2> QED BY <1>3, <2>5 DEF BodyIsOver
<1>11. /\ p.mark \subseteq r.mark
       /\ \A x \in r.mark \ p.mark : x.kind = "del" /\ x.by = by
  <2> HIDE DEF blank, used
  <2>1. CASE blank /\ ~\E x \in p.mark : x.kind = "del"
    <3>1. r.mark = p.mark \cup {Element("del", by, used)}
      BY <1>3, <2>1 DEF MarkDeleted
    <3> QED BY <3>1 DEF Element
  <2>2. CASE ~(blank /\ ~\E x \in p.mark : x.kind = "del")
    <3>1. r.mark = p.mark
      BY <1>3, <2>2 DEF MarkDeleted
    <3> QED BY <3>1
  <2> QED BY <2>1, <2>2
<1> HIDE DEF body, mark
<1>12. ASSUME ParagraphBy(p, by) PROVE ParagraphBy(r, by)
  <2>1. BodyIsOver(p.body, <<>>, by) /\ \E x \in p.mark : x.kind = "ins" /\ x.by = by
    BY <1>12 DEF ParagraphBy
  <2>2. <<>> \in Bodies(E)
    BY DEF Bodies
  <2>3. BodyIsOver(r.body, <<>>, by)
    BY <1>10, <2>1, <2>2
  <2> QED BY <1>11, <2>1, <2>3 DEF ParagraphBy
<1>13. ASSUME NEW D, NEW from \in ParagraphsIn(D), ParagraphOver(p, from, by)
       PROVE  ParagraphOver(r, from, by)
  <2>1. from.body \in Bodies(D)
    BY DEF ParagraphsIn
  <2>2. BodyIsOver(r.body, from.body, by)
    BY <1>10, <1>13, <2>1 DEF ParagraphOver
  <2>3. MarkOver(r.mark, from.mark, by)
    BY <1>11, <1>13 DEF ParagraphOver, MarkOver
  <2> QED BY <1>3, <1>13, <2>2, <2>3 DEF ParagraphOver
<1> QED BY <1>12, <1>13 DEF r

(***************************************************************************)
(* Tracked edits keep a document over what it was over                     *)
(***************************************************************************)

(* A replacement in one paragraph.                                         *)
LEMMA ReplacedOver ==
  ASSUME NEW E, NEW d \in Documents(E), NEW D, NEW from \in Documents(D), NEW by, Over(d, from, by),
         NEW j \in DOMAIN d, NEW s \in Nat, NEW e \in Nat, ~Refused(d[j], s, e),
         NEW new \in Seq(Tokens), NEW next \in Nat
  PROVE  Over([d EXCEPT ![j] = TrackedReplace(d[j], s, e, new, by, next).p], from, by)
<1> DEFINE q == TrackedReplace(d[j], s, e, new, by, next).p
           z == [d EXCEPT ![j] = q]
<1>1. d[j] \in ParagraphsIn(E) /\ j \in 1..Len(d) /\ Len(d) \in Nat /\ DOMAIN d = 1..Len(d)
  BY ParagraphOf
<1>2. /\ ParagraphBy(d[j], by) => ParagraphBy(q, by)
      /\ \A p \in ParagraphsIn(D) : ParagraphOver(d[j], p, by) => ParagraphOver(q, p, by)
  BY <1>1, ReplaceKeepsOver
<1> HIDE DEF q
<1>3. DOMAIN z = 1..Len(d) /\ z[j] = q /\ \A i \in 1..Len(d) : i # j => z[i] = d[i]
  BY <1>1
<1>4. Len(z) = Len(d)
  BY <1>1, <1>3
<1> HIDE DEF z
<1>5. PICK f, g : f = Len(from) /\ f \in Nat /\ Embedded(g, d, from, by)
                  /\ \A i \in 1..f : from[i] \in ParagraphsIn(D)
  <2>1. \A i \in DOMAIN from : from[i] \in ParagraphsIn(D)
    BY ParagraphOf
  <2>2. Len(from) \in Nat /\ DOMAIN from = 1..Len(from)
    BY LenProperties DEF Documents
  <2> QED BY <2>1, <2>2 DEF Over
<1>6. g \in [1..f -> 1..Len(z)] /\ Increases(g, f)
  BY <1>4, <1>5 DEF Embedded
<1>7. ASSUME NEW i \in 1..f PROVE ParagraphOver(z[g[i]], from[i], by)
  <2>1. ParagraphOver(d[g[i]], from[i], by) /\ g[i] \in 1..Len(d) /\ from[i] \in ParagraphsIn(D)
    BY <1>4, <1>5, <1>6 DEF Embedded
  <2> QED BY <1>2, <1>3, <2>1
<1>8. ASSUME NEW i \in 1..Len(z), ~\E k \in 1..f : g[k] = i PROVE ParagraphBy(z[i], by)
  <2>1. ParagraphBy(d[i], by)
    BY <1>4, <1>5, <1>8 DEF Embedded
  <2> QED BY <1>2, <1>3, <1>4, <2>1
<1>9. Embedded(g, z, from, by)
  BY <1>5, <1>6, <1>7, <1>8 DEF Embedded
<1>10. from # <<>>
  BY <1>1 DEF Over
<1> QED BY <1>9, <1>10 DEF Over, z, q

(* A new paragraph, which is none of those that were there.                *)
LEMMA InsertedOver ==
  ASSUME NEW E, NEW d \in Documents(E), NEW D, NEW from \in Documents(D), NEW by, Over(d, from, by),
         NEW j \in DOMAIN d, NEW pos, NEW pid \in Nat, NEW new \in Seq(Tokens), NEW next \in Nat
  PROVE  Over(TrackedInsert(d, j, pos, pid, new, by, next), from, by)
<1> DEFINE F == E \cup {Element("ins", by, id) : id \in Nat}
           m == Element("ins", by, next)
           x == Element("ins", by, next + 1)
           items == Items(new, <<x>>)
           p == [id |-> pid, mark |-> {m}, body |-> items]
           i == IF pos = "AFTER" THEN j ELSE j - 1
           P == ParagraphsIn(F)
           X == {y \in P : ParagraphBy(y, by)}
           z == PutInto(d, i, i, <<p>>)
<1>1. j \in 1..Len(d) /\ Len(d) \in Nat /\ DOMAIN d = 1..Len(d)
  BY ParagraphOf
<1>2. E \subseteq F
  OBVIOUS
<1>3. d \in Seq(P)
  <2> HIDE DEF F
  <2> QED BY <1>2, DocumentsGrow DEF Documents, ParagraphsIn
<1>4. m \in F /\ x \in F /\ m.kind = "ins" /\ m.by = by
  <2>1. next + 1 \in Nat
    OBVIOUS
  <2>2. \A id \in Nat : Element("ins", by, id) \in F
    OBVIOUS
  <2> QED BY <2>1, <2>2 DEF Element
<1>5. items \in Bodies(F) /\ \A k \in 1..Len(items) : InsertedBy(items[k], by)
  <2>1. Append(<<>>, x) = <<x>> /\ <<>> \in Seq(F)
    OBVIOUS
  <2>2. <<x>> \in Seq(F)
    BY <1>4
  <2>3. \A k \in 1..Len(Items(new, Append(<<>>, Element("ins", by, next + 1)))) :
             InsertedBy(Items(new, Append(<<>>, Element("ins", by, next + 1)))[k], by)
    <3> HIDE DEF F
    <3> QED BY <2>1, NewItemsInserted
  <2> HIDE DEF F, x
  <2> QED BY <2>1, <2>2, <2>3, ItemsBody DEF x
<1>6. ParagraphBy(p, by)
  <2> HIDE DEF items, m
  <2>1. \A g \in [1..0 -> 1..Len(items)] : Increases(g, 0)
    BY DEF Increases
  <2>2. PICK g : g \in [1..0 -> 1..Len(items)]
    <3>1. \A k \in 1..0 : 1 \in 1..Len(items)
      OBVIOUS
    <3>2. [k \in 1..0 |-> 1] \in [1..0 -> 1..Len(items)]
      BY <3>1
    <3> QED BY <3>2
  <2>3. Len(<<>>) = 0
    OBVIOUS
  <2>4. BodyOver(g, items, <<>>, by)
    <3>1. \A k \in 1..Len(<<>>) : ItemOver(items[g[k]], <<>>[k], by)
      BY <2>3
    <3>2. g \in [1..Len(<<>>) -> 1..Len(items)] /\ Increases(g, Len(<<>>))
      BY <2>1, <2>2, <2>3
    <3> QED BY <1>5, <3>1, <3>2 DEF BodyOver
  <2>5. p.mark = {m} /\ p.body = items
    OBVIOUS
  <2> QED BY <1>4, <2>4, <2>5 DEF ParagraphBy, BodyIsOver
<1>7. p \in P
  <2>1. {m} \in Marks(F)
    <3> HIDE DEF F, m
    <3> QED BY <1>4, FS_Singleton DEF Marks
  <2> HIDE DEF F, items, m
  <2> QED BY <1>5, <2>1 DEF ParagraphsIn
<1>8. i \in 0..Len(d)
  BY <1>1
<1>9. z = TrackedInsert(d, j, pos, pid, new, by, next)
  <2>1. TrackedInsert(d, j, pos, pid, new, by, next) = InsertedAt(d, j, pos, p)
    BY DEF TrackedInsert
  <2> HIDE DEF p
  <2>2. InsertedAt(d, j, pos, p) = InsertAt(d, i + 1, p)
    BY <1>1 DEF InsertedAt
  <2>3. (i + 1) - 1 = i
    BY <1>8
  <2>4. InsertAt(d, i + 1, p) = SubSeq(d, 1, (i + 1) - 1) \o <<p>> \o SubSeq(d, i + 1, Len(d))
    BY DEF InsertAt
  <2> HIDE DEF i
  <2> QED BY <2>1, <2>2, <2>3, <2>4 DEF PutInto
<1> HIDE DEF P, i, z, p, X
<1>10. PICK f, g : f = Len(from) /\ f \in Nat /\ Embedded(g, d, from, by)
  <2>1. Len(from) \in Nat
    BY LenProperties DEF Documents
  <2> QED BY <2>1 DEF Over
<1>11. Leads(g, f, d, X)
  <2>1. \A k \in 1..Len(d) : d[k] \in P
    BY <1>3, ElementOfSeq
  <2> QED BY <1>10, <2>1 DEF Leads, Embedded, X
<1>12. <<p>> \in Seq(P) /\ Len(<<p>>) = 1 /\ \A k \in 1..Len(<<p>>) : <<p>>[k] \in X
  BY <1>6, <1>7 DEF X
<1>13. PICK h : Leads(h, f, z, X) /\ \A k \in 1..f : z[h[k]] = d[g[k]]
  <2>1. Carries(z, d, g, f, X)
    BY <1>3, <1>8, <1>10, <1>11, <1>12, PutLeads DEF z
  <2> QED BY <2>1 DEF Carries
<1>14. Embedded(h, z, from, by)
  <2>1. \A k \in 1..f : ParagraphOver(z[h[k]], from[k], by)
    BY <1>10, <1>13 DEF Embedded
  <2>2. \A k \in 1..Len(z) : (\E l \in 1..f : h[l] = k) \/ ParagraphBy(z[k], by)
    BY <1>13 DEF Leads, X
  <2> QED BY <1>10, <1>13, <2>1, <2>2 DEF Embedded, Leads
<1>15. from # <<>>
  BY <1>1 DEF Over
<1> QED BY <1>9, <1>14, <1>15 DEF Over

(* A document nobody has edited is over itself.                            *)
LEMMA OverItself ==
  ASSUME NEW D, NEW d \in Documents(D), NEW by
  PROVE  Over(d, d, by)
<1>1. \A n \in Nat : LET g == [i \in 1..n |-> i] IN
        /\ g \in [1..n -> 1..n] /\ Increases(g, n)
        /\ \A i \in 1..n : g[i] = i
  BY DEF Increases
<1>2. Len(d) \in Nat /\ DOMAIN d = 1..Len(d)
  BY LenProperties DEF Documents
<1>3. ASSUME NEW j \in 1..Len(d) PROVE ParagraphOver(d[j], d[j], by)
  <2>1. d[j] \in ParagraphsIn(D)
    BY <1>2, ParagraphOf
  <2>2. PICK body, n : body = d[j].body /\ n = Len(body) /\ n \in Nat
                       /\ \A i \in 1..n : body[i] \in ItemsIn(D)
    <3>1. d[j].body \in Seq(ItemsIn(D))
      BY <2>1 DEF ParagraphsIn, Bodies, ItemsIn, Toks
    <3> QED BY <3>1, LenProperties, ElementOfSeq
  <2>3. ASSUME NEW i \in 1..n PROVE ItemOver(body[i], body[i], by)
    <3>1. PICK in, m : in = body[i].in /\ m = Len(in) /\ m \in Nat
      BY <2>2, LenProperties DEF ItemsIn
    <3>2. (m + 1)..m = {}
      BY <3>1
    <3>3. PathOver(in, in, by)
      BY <3>1, <3>2 DEF PathOver
    <3> QED BY <3>1, <3>3 DEF ItemOver
  <2>4. PICK g : /\ g \in [1..n -> 1..n] /\ Increases(g, n)
                 /\ \A i \in 1..n : g[i] = i
    BY <1>1, <2>2
  <2>5. BodyOver(g, body, body, by)
    BY <2>2, <2>3, <2>4 DEF BodyOver
  <2> QED BY <2>2, <2>5 DEF ParagraphOver, MarkOver, BodyIsOver
<1>4. PICK g : /\ g \in [1..Len(d) -> 1..Len(d)] /\ Increases(g, Len(d))
               /\ \A i \in 1..Len(d) : g[i] = i
  BY <1>1, <1>2
<1>5. Embedded(g, d, d, by)
  BY <1>3, <1>4 DEF Embedded
<1> QED BY <1>5 DEF Over

(***************************************************************************)
(* Rejecting the revisions of an author gives back what was there          *)
(***************************************************************************)

(* All revisions of by are selected, and none of what was there. *)
Selects(revs, by, sel) == \A r \in revs : r.kind # "link" /\ r.by = by => r.id \in sel
Spares(revs, sel) == \A r \in revs : r.kind # "link" => r.id \notin sel

(* What was there stays, without the deletions around it.                  *)
LEMMA ItemRestored ==
  ASSUME NEW E, NEW item \in ItemsIn(E), NEW D, NEW from \in ItemsIn(D), NEW by,
         ItemOver(item, from, by), NEW sel, Selects(Range(item.in), by, sel),
         Spares(Range(from.in), sel)
  PROVE  Unwrapped(item, "del", sel) = from /\ ~Gone(item, "ins", "del", sel)
<1>1. PICK in, n : in = item.in /\ n = Len(in) /\ n \in Nat /\ DOMAIN in = 1..n
  BY LenProperties DEF ItemsIn
<1>2. PICK path, m : path = from.in /\ m = Len(path) /\ m \in Nat /\ DOMAIN path = 1..m
                     /\ path = [k \in 1..m |-> path[k]]
  BY LenProperties DEF ItemsIn
<1>3. /\ m <= n /\ \A k \in 1..m : in[k] = path[k]
      /\ \A k \in (m + 1)..n : in[k].kind = "del" /\ in[k].by = by
  BY <1>1, <1>2 DEF ItemOver, PathOver
<1>4. ASSUME NEW k \in 1..m PROVE in[k].kind # "link" => in[k].id \notin sel
  <2>1. path[k] \in Range(path)
    BY <1>2 DEF Range
  <2> QED BY <1>2, <1>3, <2>1 DEF Spares
<1>5. ASSUME NEW k \in (m + 1)..n PROVE in[k].kind = "del" /\ in[k].id \in sel
  <2>1. k \in DOMAIN in
    BY <1>1, <1>2
  <2>2. in[k] \in Range(in)
    BY <2>1 DEF Range
  <2> QED BY <1>1, <1>3, <2>2 DEF Selects
<1>6. \A k \in 1..n : k \in 1..m \/ k \in (m + 1)..n
  BY <1>1, <1>2
<1>7. {k \in DOMAIN in : ~(in[k].kind = "del" /\ in[k].id \in sel)} = 1..m
  <2>1. \A k \in 1..m : k \in 1..n
    BY <1>1, <1>2, <1>3
  <2> QED BY <1>1, <1>4, <1>5, <1>6, <2>1
<1>8. Picked(in, 1..m) = path
  <2> DEFINE q == [k \in 1..m |-> k]
  <2>1. Lists(q, m, 1..m)
    BY <1>2 DEF Lists
  <2>2. 1..m \in SUBSET Nat
    BY <1>2
  <2>3. \A k \in 1..m : q[k] = k
    OBVIOUS
  <2> HIDE DEF q
  <2>4. Picked(in, 1..m) = [k \in 1..m |-> in[q[k]]]
    BY <1>2, <2>1, <2>2, PickedIs
  <2>5. \A k \in 1..m : in[q[k]] = path[k]
    BY <1>3, <2>3
  <2> QED BY <1>2, <2>4, <2>5
<1>9. Unwrapped(item, "del", sel) = from
  <2>1. Unwrapped(item, "del", sel) = [item EXCEPT !.in = path]
    BY <1>1, <1>7, <1>8 DEF Unwrapped
  <2>2. item = [tok |-> item.tok, in |-> item.in] /\ from = [tok |-> from.tok, in |-> path]
    BY <1>2 DEF ItemsIn
  <2>3. item.tok = from.tok
    BY DEF ItemOver
  <2> QED BY <2>1, <2>2, <2>3
<1>10. ASSUME NEW k \in DOMAIN in PROVE ~(in[k].kind = "ins" /\ in[k].id \in sel)
  BY <1>1, <1>4, <1>5, <1>6
<1>11. ASSUME item.tok = Open, in # <<>> PROVE ~(Last(in).kind = "del" /\ Last(in).id \in sel)
  <2>1. from.tok \notin Tokens
    BY <1>11, TokensAssumption DEF ItemOver
  <2>2. in = path
    BY <1>1, <1>2, <2>1 DEF ItemOver
  <2>3. Len(in) \in 1..m /\ Last(in) = in[Len(in)]
    BY <1>1, <1>2, <1>11, <2>2 DEF Last
  <2> QED BY <1>4, <2>3
<1>12. ~Gone(item, "ins", "del", sel)
  BY <1>1, <1>10, <1>11 DEF Gone
<1> QED BY <1>9, <1>12

(* Inserted items go, and the others are what they were.                   *)
LEMMA BodyRestored ==
  ASSUME NEW E, NEW body \in Bodies(E), NEW D, NEW from \in Bodies(D), NEW by,
         BodyIsOver(body, from, by), NEW sel,
         \A i \in DOMAIN body : Selects(Range(body[i].in), by, sel),
         \A i \in DOMAIN from : Spares(Range(from[i].in), sel)
  PROVE  ResolvedBody(body, "ins", "del", sel) = from
<1>1. PICK n : n = Len(body) /\ n \in Nat /\ DOMAIN body = 1..n /\ \A i \in 1..n : body[i] \in ItemsIn(E)
  <2>1. body \in Seq(ItemsIn(E))
    BY DEF Bodies, ItemsIn, Toks
  <2> QED BY <2>1, LenProperties, ElementOfSeq
<1>2. PICK f : f = Len(from) /\ f \in Nat /\ DOMAIN from = 1..f /\ from = [i \in 1..f |-> from[i]]
               /\ \A i \in 1..f : from[i] \in ItemsIn(D)
  <2>1. from \in Seq(ItemsIn(D))
    BY DEF Bodies, ItemsIn, Toks
  <2> QED BY <2>1, LenProperties, ElementOfSeq
<1>3. PICK g : BodyOver(g, body, from, by)
  BY DEF BodyIsOver
<1>4. /\ g \in [1..f -> 1..n] /\ Increases(g, f)
      /\ \A i \in 1..f : ItemOver(body[g[i]], from[i], by)
      /\ \A j \in 1..n : (\E i \in 1..f : g[i] = j) \/ InsertedBy(body[j], by)
  BY <1>1, <1>2, <1>3 DEF BodyOver
<1>5. ASSUME NEW i \in 1..f
      PROVE  Unwrapped(body[g[i]], "del", sel) = from[i] /\ ~Gone(body[g[i]], "ins", "del", sel)
  <2>1. PICK j \in 1..n : j = g[i]
    BY <1>4
  <2>2. /\ body[j] \in ItemsIn(E) /\ from[i] \in ItemsIn(D) /\ ItemOver(body[j], from[i], by)
        /\ Selects(Range(body[j].in), by, sel) /\ Spares(Range(from[i].in), sel)
    BY <1>1, <1>2, <1>4, <2>1
  <2> QED BY <2>1, <2>2, ItemRestored
<1>6. ASSUME NEW j \in 1..n, ~\E i \in 1..f : g[i] = j PROVE Gone(body[j], "ins", "del", sel)
  <2>1. PICK k \in DOMAIN body[j].in : body[j].in[k].kind = "ins" /\ body[j].in[k].by = by
    BY <1>4, <1>6 DEF InsertedBy
  <2>2. body[j].in[k] \in Range(body[j].in)
    BY DEF Range
  <2>3. body[j].in[k].id \in sel
    BY <1>1, <2>1, <2>2 DEF Selects
  <2> QED BY <2>1, <2>3 DEF Gone
<1> DEFINE places == {i \in DOMAIN body : ~Gone(body[i], "ins", "del", sel)}
<1>7. Lists(g, f, places) /\ places \in SUBSET Nat
  <2>1. \A k \in 1..f : g[k] \in places
    BY <1>1, <1>4, <1>5
  <2>2. \A i \in places : \E k \in 1..f : g[k] = i
    BY <1>1, <1>6
  <2>3. \A k, l \in 1..f : k < l => g[k] < g[l]
    BY <1>4 DEF Increases
  <2>4. places \in SUBSET Nat
    BY <1>1
  <2> QED BY <2>1, <2>2, <2>3, <2>4 DEF Lists
<1> HIDE DEF places
<1>8. Picked(body, places) = [k \in 1..f |-> body[g[k]]]
  BY <1>2, <1>7, PickedIs
<1>9. ResolvedBody(body, "ins", "del", sel) = [k \in 1..f |-> Unwrapped(body[g[k]], "del", sel)]
  BY <1>8 DEF ResolvedBody, places
<1> QED BY <1>2, <1>5, <1>9

(* What resolving makes of a paragraph, before paragraphs are joined, and  *)
(* the paragraphs that join the next one.                                  *)
MarkLeft(mark, sel) == {r \in mark : r.id \notin sel}

Resolved(p, drop, keep, sel) ==
  [p EXCEPT !.mark = MarkLeft(@, sel), !.body = ResolvedBody(@, drop, keep, sel)]

EachResolved(d, drop, keep, sel) == [j \in DOMAIN d |-> Resolved(d[j], drop, keep, sel)]

JoiningIn(p, drop, sel) == \E r \in p.mark : r.kind = drop /\ r.id \in sel

JoinIds(d, drop, sel) == {p.id : p \in {q \in Range(d) : JoiningIn(q, drop, sel)}}

LEMMA ResolveIs ==
  ASSUME NEW d, NEW drop, NEW keep, NEW sel
  PROVE  Resolve(d, drop, keep, sel) = Merged(EachResolved(d, drop, keep, sel), JoinIds(d, drop, sel))
BY DEF Resolve, JoinIds, JoiningIn, EachResolved, Resolved, MarkLeft

SelectsIn(p, by, sel) ==
  /\ Selects(p.mark, by, sel)
  /\ \A i \in DOMAIN p.body : Selects(Range(p.body[i].in), by, sel)

SparesIn(p, sel) ==
  /\ Spares(p.mark, sel)
  /\ \A i \in DOMAIN p.body : Spares(Range(p.body[i].in), sel)

(* A paragraph that was there is what it was, and joins nothing.           *)
LEMMA ParagraphRestored ==
  ASSUME NEW E, NEW p \in ParagraphsIn(E), NEW D, NEW from \in ParagraphsIn(D), NEW by,
         ParagraphOver(p, from, by), NEW sel, SelectsIn(p, by, sel), SparesIn(from, sel)
  PROVE  Resolved(p, "ins", "del", sel) = from /\ ~JoiningIn(p, "ins", sel)
<1>1. /\ p = [id |-> p.id, mark |-> p.mark, body |-> p.body] /\ p.body \in Bodies(E)
      /\ \A r \in p.mark : r.kind # "link"
  BY DEF ParagraphsIn, Marks
<1>2. /\ from = [id |-> from.id, mark |-> from.mark, body |-> from.body] /\ from.body \in Bodies(D)
      /\ \A r \in from.mark : r.kind # "link"
  BY DEF ParagraphsIn, Marks
<1>3. ResolvedBody(p.body, "ins", "del", sel) = from.body
  <2>1. BodyIsOver(p.body, from.body, by)
    BY DEF ParagraphOver
  <2>2. /\ \A i \in DOMAIN p.body : Selects(Range(p.body[i].in), by, sel)
        /\ \A i \in DOMAIN from.body : Spares(Range(from.body[i].in), sel)
    BY DEF SelectsIn, SparesIn
  <2>3. p.body \in Bodies(E) /\ from.body \in Bodies(D)
    BY <1>1, <1>2
  <2> QED BY <2>1, <2>2, <2>3, BodyRestored
<1>4. /\ from.mark \subseteq p.mark
      /\ \A r \in p.mark \ from.mark : r.kind = "del" /\ r.by = by
  BY DEF ParagraphOver, MarkOver
<1>5. \A r \in from.mark : r.id \notin sel
  BY <1>2 DEF SparesIn, Spares
<1>6. \A r \in p.mark \ from.mark : r.id \in sel
  BY <1>1, <1>4 DEF SelectsIn, Selects
<1>7. {r \in p.mark : r.id \notin sel} = from.mark
  BY <1>4, <1>5, <1>6
<1>8. ~JoiningIn(p, "ins", sel)
  BY <1>4, <1>5 DEF JoiningIn
<1>9. p.id = from.id
  BY DEF ParagraphOver
<1>10. Resolved(p, "ins", "del", sel) = from
  <2>1. Resolved(p, "ins", "del", sel) = [p EXCEPT !.mark = from.mark, !.body = from.body]
    BY <1>3, <1>7 DEF Resolved, MarkLeft
  <2> QED BY <1>1, <1>2, <1>9, <2>1
<1> QED BY <1>8, <1>10

(* An inserted paragraph is empty, and joins the next one.                 *)
LEMMA ParagraphTaken ==
  ASSUME NEW E, NEW p \in ParagraphsIn(E), NEW by, ParagraphBy(p, by), NEW sel, SelectsIn(p, by, sel)
  PROVE  LET r == Resolved(p, "ins", "del", sel)
         IN /\ JoiningIn(p, "ins", sel) /\ r.id = p.id /\ r.body = <<>>
            /\ r = [id |-> r.id, mark |-> r.mark, body |-> r.body]
<1>1. /\ p = [id |-> p.id, mark |-> p.mark, body |-> p.body] /\ p.body \in Bodies(E)
      /\ \A r \in p.mark : r.kind # "link"
  BY DEF ParagraphsIn, Marks
<1>2. <<>> \in Bodies(E)
  BY DEF Bodies
<1>3. ResolvedBody(p.body, "ins", "del", sel) = <<>>
  <2>1. BodyIsOver(p.body, <<>>, by)
    BY DEF ParagraphBy
  <2>2. /\ \A i \in DOMAIN p.body : Selects(Range(p.body[i].in), by, sel)
        /\ \A i \in DOMAIN <<>> : Spares(Range(<<>>[i].in), sel)
    BY DEF SelectsIn
  <2>3. p.body \in Bodies(E) /\ <<>> \in Bodies(E)
    BY <1>1, <1>2
  <2> QED BY <2>1, <2>2, <2>3, BodyRestored
<1>4. JoiningIn(p, "ins", sel)
  <2>1. PICK r \in p.mark : r.kind = "ins" /\ r.by = by
    BY DEF ParagraphBy
  <2>2. r.id \in sel
    BY <1>1, <2>1 DEF SelectsIn, Selects
  <2> QED BY <2>1, <2>2 DEF JoiningIn
<1>5. PICK mark : mark = {r \in p.mark : r.id \notin sel}
  OBVIOUS
<1>6. Resolved(p, "ins", "del", sel) = [p EXCEPT !.mark = mark, !.body = <<>>]
  BY <1>3, <1>5 DEF Resolved, MarkLeft
<1>7. Resolved(p, "ins", "del", sel) = [id |-> p.id, mark |-> mark, body |-> <<>>]
  BY <1>1, <1>6
<1> QED BY <1>4, <1>7

(***************************************************************************)
(* Joining paragraphs where the joined ones are empty                      *)
(***************************************************************************)

IsParagraph(p) == p = [id |-> p.id, mark |-> p.mark, body |-> p.body]

(* With nothing carried, the next paragraph joins or is done. *)
Stage(before, done, last) == before = [done |-> done, carry |-> <<>>, last |-> last]

LEMMA NextIs ==
  ASSUME NEW T, NEW p, IsParagraph(p), p.body \in Seq(T), NEW done, NEW last,
         NEW before, Stage(before, done, last), NEW joins
  PROVE  /\ p.id \in joins => MergedNext(before, p, joins) = [done |-> done, carry |-> p.body, last |-> <<p>>]
         /\ p.id \notin joins =>
              MergedNext(before, p, joins) = [done |-> Append(done, p), carry |-> <<>>, last |-> <<>>]
<1>1. <<>> \o p.body = p.body
  BY ConcatEmptySeq
<1>2. [p EXCEPT !.body = p.body] = p
  BY DEF IsParagraph
<1>3. before = [done |-> done, carry |-> <<>>, last |-> last]
  BY DEF Stage
<1>4. before.carry = <<>> /\ before.done = done
  BY <1>3
<1>5. [p EXCEPT !.body = before.carry \o @] = p
  BY <1>1, <1>2, <1>4
<1>6. MergedNext(before, p, joins) =
        IF p.id \in joins THEN [before EXCEPT !.carry = p.body, !.last = <<p>>]
        ELSE [done |-> Append(before.done, p), carry |-> <<>>, last |-> <<>>]
  BY <1>5 DEF MergedNext
<1>7. [before EXCEPT !.carry = p.body, !.last = <<p>>] = [done |-> done, carry |-> p.body, last |-> <<p>>]
  <2>1. PICK z : z = [before EXCEPT !.carry = p.body, !.last = <<p>>]
    OBVIOUS
  <2>2. DOMAIN z = {"done", "carry", "last"} /\ z = [k \in {"done", "carry", "last"} |-> z[k]]
    BY <1>3, <2>1
  <2>3. z.done = done /\ z.carry = p.body /\ z.last = <<p>>
    BY <1>3, <2>1
  <2> QED BY <2>1, <2>2, <2>3
<1> QED BY <1>3, <1>4, <1>6, <1>7

(* How many of the places that g leads to are not behind j. *)
IsCount(c, g, n, f) ==
  /\ c \in [0..n -> 0..f]
  /\ c[0] = 0 /\ c[n] = f
  /\ \A j \in 1..n :
       \/ c[j] = c[j - 1] /\ ~\E i \in 1..f : g[i] = j
       \/ c[j] = c[j - 1] + 1 /\ g[c[j]] = j

LEMMA Counted ==
  ASSUME NEW n \in Nat, NEW f \in Nat, NEW g \in [1..f -> 1..n], Increases(g, f)
  PROVE  \E c : IsCount(c, g, n, f)
<1> DEFINE Counts(j, k) == \A i \in 1..f : i <= k <=> g[i] <= j
<1>1. ASSUME NEW j \in 0..n PROVE \E k \in 0..f : Counts(j, k)
  <2> DEFINE S == {0} \cup {i \in 1..f : g[i] <= j}
  <2>1. S \in SUBSET Nat /\ IsFiniteSet(S) /\ S # {}
    <3>1. IsFiniteSet(0..f)
      BY FS_Interval
    <3>2. S \subseteq 0..f
      OBVIOUS
    <3> QED BY <3>1, <3>2, FS_Subset
  <2>2. PICK k \in S : \A i \in S : i <= k
    <3> HIDE DEF S
    <3> QED BY <2>1, GreatestNatural
  <2>3. k \in 0..f
    OBVIOUS
  <2>4. ASSUME NEW i \in 1..f, i <= k PROVE g[i] <= j
    <3>1. k \in 1..f /\ g[k] <= j
      BY <2>2, <2>3, <2>4
    <3>2. PICK a \in 1..n, b \in 1..n : a = g[i] /\ b = g[k] /\ (i = k \/ a < b)
      BY <2>3, <2>4, <3>1 DEF Increases
    <3>3. a <= j
      BY <3>1, <3>2
    <3> QED BY <3>2, <3>3
  <2>5. ASSUME NEW i \in 1..f, g[i] <= j PROVE i <= k
    BY <2>2, <2>5
  <2> QED BY <2>3, <2>4, <2>5
<1> DEFINE c == [j \in 0..n |-> CHOOSE k \in 0..f : Counts(j, k)]
<1>2. \A j \in 0..n : c[j] \in 0..f /\ Counts(j, c[j])
  <2> SUFFICES ASSUME NEW j \in 0..n PROVE c[j] \in 0..f /\ Counts(j, c[j])
    OBVIOUS
  <2>1. c[j] = CHOOSE k \in 0..f : Counts(j, k)
    OBVIOUS
  <2> HIDE DEF Counts, c
  <2> QED BY <1>1, <2>1
<1> HIDE DEF c
<1>3. c[0] = 0
  <2>1. PICK k \in 0..f : k = c[0] /\ \A i \in 1..f : i <= k <=> g[i] <= 0
    BY <1>2
  <2>2. k = 0
    <3> SUFFICES ASSUME k # 0 PROVE FALSE
      OBVIOUS
    <3>1. 1 \in 1..f /\ 1 <= k
      OBVIOUS
    <3>2. g[1] <= 0 /\ g[1] \in 1..n
      BY <2>1, <3>1
    <3> QED BY <3>2
  <2> QED BY <2>1, <2>2
<1>4. c[n] = f
  <2>1. PICK k \in 0..f : k = c[n] /\ \A i \in 1..f : i <= k <=> g[i] <= n
    BY <1>2
  <2>2. k = f
    <3> SUFFICES ASSUME k # f PROVE FALSE
      OBVIOUS
    <3>1. f \in 1..f /\ ~(f <= k)
      OBVIOUS
    <3>2. g[f] <= n
      BY <3>1
    <3> QED BY <2>1, <3>1, <3>2
  <2> QED BY <2>1, <2>2
<1>5. ASSUME NEW j \in 1..n
      PROVE  \/ c[j] = c[j - 1] /\ ~\E i \in 1..f : g[i] = j
             \/ c[j] = c[j - 1] + 1 /\ g[c[j]] = j
  <2>1. PICK a \in 0..f : a = c[j - 1] /\ \A i \in 1..f : i <= a <=> g[i] <= j - 1
    BY <1>2
  <2>2. PICK b \in 0..f : b = c[j] /\ \A i \in 1..f : i <= b <=> g[i] <= j
    BY <1>2
  <2>3. CASE \E i \in 1..f : g[i] = j
    <3>1. PICK i \in 1..f : g[i] = j
      BY <2>3
    <3>2. i <= b /\ ~(i <= a)
      BY <2>1, <2>2, <3>1
    <3>3. b = i
      <4> SUFFICES ASSUME b # i PROVE FALSE
        OBVIOUS
      <4>1. i + 1 \in 1..f /\ i + 1 <= b /\ i < i + 1
        BY <3>2
      <4>2. g[i + 1] <= j /\ g[i] < g[i + 1]
        BY <2>2, <4>1 DEF Increases
      <4>3. g[i + 1] \in 1..n
        BY <4>1
      <4> QED BY <3>1, <4>2, <4>3
    <3>4. a = i - 1
      <4> SUFFICES ASSUME a # i - 1 PROVE FALSE
        OBVIOUS
      <4>1. i - 1 \in 1..f /\ ~(i - 1 <= a) /\ i - 1 < i
        BY <3>2
      <4>2. ~(g[i - 1] <= j - 1) /\ g[i - 1] < g[i]
        BY <2>1, <4>1 DEF Increases
      <4>3. g[i - 1] \in 1..n
        BY <4>1
      <4> QED BY <3>1, <4>2, <4>3
    <3> QED BY <2>1, <2>2, <3>1, <3>3, <3>4
  <2>4. CASE ~\E i \in 1..f : g[i] = j
    <3>1. \A i \in 1..f : g[i] <= j <=> g[i] <= j - 1
      <4> SUFFICES ASSUME NEW i \in 1..f PROVE g[i] <= j <=> g[i] <= j - 1
        OBVIOUS
      <4>1. g[i] # j /\ g[i] \in 1..n
        BY <2>4
      <4> QED BY <4>1
    <3>2. \A i \in 1..f : i <= a <=> i <= b
      BY <2>1, <2>2, <3>1
    <3>3. a = b
      <4>1. CASE a < b
        <5>1. b \in 1..f /\ ~(b <= a)
          BY <4>1
        <5> QED BY <3>2, <5>1
      <4>2. CASE b < a
        <5>1. a \in 1..f /\ ~(a <= b)
          BY <4>2
        <5> QED BY <3>2, <5>1
      <4> QED BY <4>1, <4>2
    <3> QED BY <2>1, <2>2, <2>4, <3>3
  <2> QED BY <2>3, <2>4
<1>6. c \in [0..n -> 0..f]
  <2>1. c = [j \in 0..n |-> c[j]]
    BY DEF c
  <2> QED BY <1>2, <2>1
<1> QED BY <1>3, <1>4, <1>5, <1>6 DEF IsCount

(* p is empty, and joins the next one. *)
Vanishes(p, joins) == IsParagraph(p) /\ p.id \in joins /\ p.body = <<>>

(* The merge of a document of n paragraphs leaves exactly from.            *)
MergesTo(doc, joins, n, from) ==
  /\ Merged(doc, joins) = from
  /\ MergedUpTo(doc, joins)[n].done = from
  /\ MergedUpTo(doc, joins)[n].carry = <<>>

(* So the merge leaves the paragraphs that were there.                     *)
LEMMA EmptyOnesJoin ==
  ASSUME NEW D, NEW from \in Documents(D), NEW n \in Nat, NEW doc, Len(doc) = n,
         NEW joins, NEW g \in [1..Len(from) -> 1..n], Increases(g, Len(from)),
         \A i \in 1..Len(from) : doc[g[i]] = from[i] /\ from[i].id \notin joins,
         \A j \in 1..n : (\E i \in 1..Len(from) : g[i] = j) \/ Vanishes(doc[j], joins),
         from = <<>> => n = 0
  PROVE  MergesTo(doc, joins, n, from)
<1> DEFINE P == ParagraphsIn(D)
<1>1. PICK f : f = Len(from) /\ f \in Nat /\ from \in Seq(P) /\ DOMAIN from = 1..f
               /\ \A i \in 1..f : from[i] \in P
  <2>1. from \in Seq(P)
    BY DEF Documents, ParagraphsIn
  <2> HIDE DEF P
  <2> QED BY <2>1, LenProperties, ElementOfSeq
<1>2. PICK c \in [0..n -> 0..f] :
           /\ c[0] = 0 /\ c[n] = f
           /\ \A j \in 1..n :
                \/ c[j] = c[j - 1] /\ ~\E i \in 1..f : g[i] = j
                \/ c[j] = c[j - 1] + 1 /\ g[c[j]] = j
  <2>1. g \in [1..f -> 1..n] /\ Increases(g, f) /\ f \in Nat
    BY <1>1
  <2>2. PICK c : IsCount(c, g, n, f)
    BY <2>1, Counted
  <2> QED BY <2>2 DEF IsCount
<1> DEFINE hit(j) == \E i \in 1..f : g[i] = j
           done(j) == SubSeq(from, 1, c[j])
           last(j) == IF j # 0 /\ ~hit(j) THEN <<doc[j]>> ELSE <<>>
           w == [j \in 0..n |-> [done |-> done(j), carry |-> <<>>, last |-> last(j)]]
<1>3. ASSUME NEW j \in 1..n PROVE w[j] = MergedNext(w[j - 1], doc[j], joins)
  <2>1. j - 1 \in 0..n /\ j \in 0..n /\ j # 0
    OBVIOUS
  <2>2. /\ w[j - 1] = [done |-> done(j - 1), carry |-> <<>>, last |-> last(j - 1)]
        /\ w[j] = [done |-> done(j), carry |-> <<>>, last |-> last(j)]
    BY <2>1
  <2>9. PICK before, done0, last0, p :
           /\ before = w[j - 1] /\ done0 = done(j - 1) /\ last0 = last(j - 1) /\ p = doc[j]
           /\ Stage(before, done0, last0)
    BY <2>2 DEF Stage
  <2> HIDE DEF w
  <2>3. CASE hit(j)
    <3>1. PICK i \in 1..f : g[i] = j /\ c[j - 1] + 1 = c[j] /\ c[j] = i
      <4>1. PICK i \in 1..f : g[i] = j
        BY <2>3
      <4>2. c[j] = c[j - 1] + 1 /\ g[c[j]] = j
        BY <1>2, <2>3
      <4>3. PICK a, b : a = c[j - 1] /\ b = c[j] /\ a \in 0..f /\ b \in 0..f
        BY <1>2, <2>1
      <4>4. b \in 1..f /\ g[b] = j
        BY <4>2, <4>3
      <4>5. b = i
        <5>1. ~(b < i)
          BY <1>1, <4>1, <4>4 DEF Increases
        <5>2. ~(i < b)
          BY <1>1, <4>1, <4>4 DEF Increases
        <5> QED BY <4>4, <5>1, <5>2
      <4> QED BY <4>1, <4>2, <4>3, <4>5
    <3>2. doc[j] = from[i] /\ from[i] \in P /\ doc[j].id \notin joins
      BY <1>1, <3>1
    <3>3. IsParagraph(doc[j]) /\ doc[j].body \in Seq(ItemsIn(D))
      BY <3>2 DEF IsParagraph, ParagraphsIn, Bodies, ItemsIn, Toks
    <3>4. MergedNext(w[j - 1], doc[j], joins) =
            [done |-> Append(done(j - 1), doc[j]), carry |-> <<>>, last |-> <<>>]
      <4>1. IsParagraph(p) /\ p.body \in Seq(ItemsIn(D))
        BY <2>9, <3>3
      <4>2. p.id \notin joins
        BY <2>9, <3>2
      <4> HIDE DEF done, last
      <4>3. MergedNext(before, p, joins) = [done |-> Append(done0, p), carry |-> <<>>, last |-> <<>>]
        <5>1. Stage(before, done0, last0)
          BY <2>9
        <5> QED BY <4>1, <4>2, <5>1, NextIs
      <4> QED BY <2>9, <4>3
    <3>5. Append(done(j - 1), doc[j]) = done(j)
      <4>1. i \in 1..Len(from) /\ c[j - 1] = i - 1 /\ c[j] = i /\ 1 \in 1..Len(from) /\ i \in 1..Len(from)
        <5>1. PICK a : a = c[j - 1] /\ a \in 0..f
          BY <1>2, <2>1
        <5> QED BY <1>1, <3>1, <5>1
      <4>2. SubSeq(from, 1, i) = SubSeq(from, 1, i - 1) \o <<from[i]>>
        <5> HIDE DEF P
        <5> QED BY <1>1, <4>1, SubSeqRecursiveSecond
      <4>3. SubSeq(from, 1, i - 1) \in Seq(P)
        <5>1. \A k \in 1..(i - 1) : from[k] \in P
          BY <1>1
        <5> HIDE DEF P
        <5> QED BY <5>1, SubSeqProperties
      <4>4. Append(SubSeq(from, 1, i - 1), from[i]) = SubSeq(from, 1, i - 1) \o <<from[i]>>
        <5>1. from[i] \in P
          BY <3>2
        <5> HIDE DEF P
        <5> QED BY <4>3, <5>1, AppendIsConcat
      <4> QED BY <3>2, <4>1, <4>2, <4>4
    <3>6. last(j) = <<>>
      BY <2>3
    <3> QED BY <2>2, <3>4, <3>5, <3>6
  <2>4. CASE ~hit(j)
    <3>1. c[j] = c[j - 1]
      <4>1. ~(c[j] = c[j - 1] + 1 /\ g[c[j]] = j)
        <5>1. PICK a, b : a = c[j - 1] /\ b = c[j] /\ a \in 0..f /\ b \in 0..f
          BY <1>2, <2>1
        <5> QED BY <2>4, <5>1
      <4> QED BY <1>2, <4>1
    <3>2. /\ IsParagraph(doc[j]) /\ doc[j].id \in joins /\ doc[j].body = <<>>
          /\ doc[j].body \in Seq(P)
      <4>1. ~\E i \in 1..Len(from) : g[i] = j
        BY <1>1, <2>4
      <4>2. <<>> \in Seq(P)
        OBVIOUS
      <4> HIDE DEF P
      <4> QED BY <4>1, <4>2 DEF Vanishes
    <3>3. MergedNext(w[j - 1], doc[j], joins) =
            [done |-> done(j - 1), carry |-> doc[j].body, last |-> <<doc[j]>>]
      <4> HIDE DEF done, last, P
      <4>1. IsParagraph(p) /\ p.body \in Seq(P) /\ p.id \in joins
        BY <2>9, <3>2
      <4>2. MergedNext(before, p, joins) = [done |-> done0, carry |-> p.body, last |-> <<p>>]
        <5>1. Stage(before, done0, last0)
          BY <2>9
        <5> QED BY <4>1, <5>1, NextIs
      <4> QED BY <2>9, <4>2
    <3>4. last(j) = <<doc[j]>> /\ done(j - 1) = done(j)
      BY <2>1, <2>4, <3>1
    <3> QED BY <2>2, <3>2, <3>3, <3>4
  <2> QED BY <2>3, <2>4
<1>4. w[0] = [done |-> <<>>, carry |-> <<>>, last |-> <<>>]
  <2>1. done(0) = <<>> /\ last(0) = <<>>
    BY <1>2, SubSeqEmpty
  <2> HIDE DEF done, last
  <2> QED BY <2>1
<1>5. w[n] = [done |-> from, carry |-> <<>>, last |-> last(n)]
  <2>1. done(n) = from
    <3> HIDE DEF P
    <3> QED BY <1>1, <1>2, SubSeqFull
  <2> HIDE DEF done, last
  <2> QED BY <2>1
<1>6. DOMAIN w = 0..n /\ w = [j \in 0..n |-> w[j]]
  OBVIOUS
<1> HIDE DEF w
<1>7. IsMerge(w, doc, joins)
  BY <1>3, <1>4, <1>6 DEF IsMerge
<1>8. MergedUpTo(doc, joins)[Len(doc)] = w[Len(doc)]
  <2>1. Len(doc) \in Nat
    OBVIOUS
  <2> QED BY <1>7, <2>1, MergeIsOnly
<1> HIDE DEF last
<1>9. MergedUpTo(doc, joins)[Len(doc)] = [done |-> from, carry |-> <<>>, last |-> last(n)]
  BY <1>5, <1>8
<1>10. ~HasContent(<<>>)
  BY DEF HasContent
<1>11. ASSUME from # <<>> PROVE Merged(doc, joins) = from
  BY <1>9, <1>10, <1>11 DEF Merged
<1>12. ASSUME from = <<>> PROVE Merged(doc, joins) = from
  <2>1. last(n) = <<>>
    BY <1>12 DEF last
  <2> QED BY <1>9, <1>12, <2>1 DEF Merged
<1> QED BY <1>9, <1>11, <1>12 DEF MergesTo

(* Rejecting all that an author has done to a document gives it back.      *)
LEMMA RejectingRestores ==
  ASSUME NEW E, NEW d \in Documents(E), DistinctIds(d), NEW D, NEW from \in Documents(D), NEW by,
         Over(d, from, by), NEW sel, Selects(Revisions(d), by, sel), Spares(Revisions(from), sel)
  PROVE  /\ Reject(d, sel) = from
         /\ MergesTo(EachResolved(d, "ins", "del", sel), JoinIds(d, "ins", sel), Len(d), from)
<1> DEFINE joins == JoinIds(d, "ins", sel)
           doc == EachResolved(d, "ins", "del", sel)
<1>1. Reject(d, sel) = Merged(doc, joins)
  BY ResolveIs DEF Reject
<1>2. PICK n : n = Len(d) /\ n \in Nat /\ DOMAIN d = 1..n /\ \A j \in 1..n : d[j] \in ParagraphsIn(E)
  BY LenProperties, ParagraphOf DEF Documents
<1>3. PICK f : f = Len(from) /\ f \in Nat /\ DOMAIN from = 1..f
               /\ \A i \in 1..f : from[i] \in ParagraphsIn(D)
  BY LenProperties, ParagraphOf DEF Documents
<1>4. PICK g : Embedded(g, d, from, by)
  BY DEF Over
<1>5. /\ g \in [1..f -> 1..n] /\ Increases(g, f)
      /\ \A i \in 1..f : ParagraphOver(d[g[i]], from[i], by)
      /\ \A j \in 1..n : (\E i \in 1..f : g[i] = j) \/ ParagraphBy(d[j], by)
  BY <1>2, <1>3, <1>4 DEF Embedded
<1>6. ASSUME NEW j \in 1..n PROVE SelectsIn(d[j], by, sel)
  BY <1>2, RevisionsAre DEF SelectsIn, Selects
<1>7. ASSUME NEW i \in 1..f PROVE SparesIn(from[i], sel)
  BY <1>3, RevisionsAre DEF SparesIn, Spares
<1>8. ASSUME NEW i \in 1..f PROVE Resolved(d[g[i]], "ins", "del", sel) = from[i] /\ ~JoiningIn(d[g[i]], "ins", sel)
  <2>1. PICK j \in 1..n : j = g[i]
    BY <1>5
  <2> QED BY <1>2, <1>3, <1>5, <1>6, <1>7, <2>1, ParagraphRestored
<1>9. ASSUME NEW j \in 1..n, ~\E i \in 1..f : g[i] = j
      PROVE  LET r == Resolved(d[j], "ins", "del", sel)
             IN /\ JoiningIn(d[j], "ins", sel) /\ r.id = d[j].id /\ r.body = <<>>
                /\ r = [id |-> r.id, mark |-> r.mark, body |-> r.body]
  BY <1>2, <1>5, <1>6, <1>9, ParagraphTaken
<1>10. DOMAIN doc = 1..n /\ \A j \in 1..n : doc[j] = Resolved(d[j], "ins", "del", sel)
  BY <1>2 DEF EachResolved
<1>11. Len(doc) = n
  BY <1>2, <1>10
<1> HIDE DEF doc
<1>12. ASSUME NEW i \in 1..f PROVE doc[g[i]] = from[i] /\ from[i].id \notin joins
  <2>1. doc[g[i]] = from[i]
    BY <1>5, <1>8, <1>10
  <2>2. ASSUME NEW k \in 1..n, JoiningIn(d[k], "ins", sel), d[k].id = from[i].id PROVE FALSE
    <3>1. d[g[i]].id = from[i].id /\ g[i] \in 1..n
      BY <1>5 DEF ParagraphOver
    <3>2. k = g[i]
      BY <1>2, <2>2, <3>1 DEF DistinctIds
    <3> QED BY <1>8, <2>2, <3>2
  <2>3. from[i].id \notin joins
    BY <1>2, <2>2 DEF Range, JoinIds
  <2> QED BY <2>1, <2>3
<1>13. ASSUME NEW j \in 1..n, ~\E i \in 1..f : g[i] = j
       PROVE  Vanishes(doc[j], joins)
  <2>1. doc[j] = Resolved(d[j], "ins", "del", sel)
    BY <1>10
  <2>2. d[j] \in Range(d) /\ d[j].id \in joins
    <3>1. d[j] \in Range(d)
      BY <1>2 DEF Range
    <3> QED BY <1>9, <1>13, <3>1 DEF JoinIds
  <2> HIDE DEF joins
  <2> QED BY <1>9, <1>13, <2>1, <2>2 DEF Vanishes, IsParagraph
<1> HIDE DEF joins
<1>14. from = <<>> => n = 0
  BY <1>2 DEF Over
<1>15. MergesTo(doc, joins, n, from)
  <2>1. g \in [1..Len(from) -> 1..n] /\ Increases(g, Len(from)) /\ n \in Nat
    BY <1>2, <1>3, <1>5
  <2>2. \A i \in 1..Len(from) : doc[g[i]] = from[i] /\ from[i].id \notin joins
    BY <1>3, <1>12
  <2>3. \A j \in 1..n : (\E i \in 1..Len(from) : g[i] = j) \/ Vanishes(doc[j], joins)
    BY <1>3, <1>13
  <2> QED BY <1>11, <1>14, <2>1, <2>2, <2>3, EmptyOnesJoin
<1> QED BY <1>1, <1>2, <1>15 DEF MergesTo, doc, joins

(* A document over another one has its revisions. *)
LEMMA OverHolds ==
  ASSUME NEW E, NEW d \in Documents(E), NEW D, NEW from \in Documents(D), NEW by, Over(d, from, by)
  PROVE  Revisions(from) \subseteq Revisions(d)
<1> SUFFICES ASSUME NEW r \in Revisions(from) PROVE r \in Revisions(d)
  OBVIOUS
<1>1. PICK g : Embedded(g, d, from, by)
  BY DEF Over
<1>2. PICK j \in DOMAIN from :
        \/ r \in from[j].mark
        \/ \E i \in DOMAIN from[j].body : r \in Range(from[j].body[i].in) /\ r.kind # "link"
  BY RevisionsAre
<1>3. j \in 1..Len(from) /\ from[j] \in ParagraphsIn(D)
  BY ParagraphOf
<1>4. PICK l : l = g[j] /\ l \in DOMAIN d /\ ParagraphOver(d[l], from[j], by) /\ d[l] \in ParagraphsIn(E)
  <2>1. g[j] \in 1..Len(d) /\ ParagraphOver(d[g[j]], from[j], by)
    BY <1>1, <1>3 DEF Embedded
  <2>2. DOMAIN d = 1..Len(d)
    BY LenProperties DEF Documents
  <2>3. g[j] \in DOMAIN d
    BY <2>1, <2>2
  <2>4. d[g[j]] \in ParagraphsIn(E)
    BY <2>3, ParagraphOf
  <2> QED BY <2>1, <2>3, <2>4
<1>5. CASE r \in from[j].mark
  <2>1. r \in d[l].mark
    BY <1>4, <1>5 DEF ParagraphOver, MarkOver
  <2> QED BY <1>4, <2>1, RevisionsAre
<1>6. ASSUME NEW i \in DOMAIN from[j].body, r \in Range(from[j].body[i].in), r.kind # "link"
      PROVE  r \in Revisions(d)
  <2>1. PICK body, n : /\ body = from[j].body /\ n = Len(body) /\ DOMAIN body = 1..n
                       /\ body[i] \in ItemsIn(D) /\ i \in 1..n
    <3>1. from[j].body \in Seq(ItemsIn(D))
      BY <1>3 DEF ParagraphsIn, Bodies, ItemsIn, Toks
    <3> QED BY <1>6, <3>1, LenProperties, ElementOfSeq
  <2>2. PICK new, m : /\ new = d[l].body /\ m = Len(new) /\ DOMAIN new = 1..m
                      /\ \A k \in 1..m : new[k] \in ItemsIn(E)
    <3>1. d[l].body \in Seq(ItemsIn(E))
      BY <1>4 DEF ParagraphsIn, Bodies, ItemsIn, Toks
    <3> QED BY <3>1, LenProperties, ElementOfSeq
  <2>3. PICK h : BodyOver(h, new, body, by)
    BY <1>4, <2>1, <2>2 DEF ParagraphOver, BodyIsOver
  <2>4. PICK k : k = h[i] /\ k \in 1..m /\ ItemOver(new[k], body[i], by)
    BY <2>1, <2>2, <2>3 DEF BodyOver
  <2>5. PICK in : in = body[i].in /\ in \in Seq(D) /\ DOMAIN in = 1..Len(in) /\ Len(in) \in Nat
    BY <2>1, LenProperties DEF ItemsIn
  <2>6. PICK path : path = new[k].in /\ path \in Seq(E) /\ DOMAIN path = 1..Len(path) /\ Len(path) \in Nat
    BY <2>2, <2>4, LenProperties DEF ItemsIn
  <2>7. PathOver(path, in, by)
    BY <2>4, <2>5, <2>6 DEF ItemOver
  <2>8. r \in Range(in)
    BY <1>6, <2>1, <2>5
  <2>9. PICK u \in 1..Len(in) : in[u] = r
    BY <2>5, <2>8 DEF Range
  <2>10. u \in DOMAIN path /\ path[u] = r
    BY <2>5, <2>6, <2>7, <2>9 DEF PathOver
  <2>11. r \in Range(new[k].in)
    BY <2>6, <2>10 DEF Range
  <2>12. k \in DOMAIN d[l].body /\ r \in Range(d[l].body[k].in)
    BY <2>2, <2>4, <2>11
  <2> QED BY <1>4, <1>6, <2>12, RevisionsAre
<1> QED BY <1>2, <1>5, <1>6

(***************************************************************************)
(* Resolving revisions, one item at a time                                 *)
(***************************************************************************)

(* z is what is picked from the m places of s that q lists.                *)
Picks(z, m, q, s, places) ==
  /\ m \in Nat /\ q \in [1..m -> places] /\ Lists(q, m, places)
  /\ z = [k \in 1..m |-> s[q[k]]]

(* What is picked from places of a sequence is a sequence of what is there. *)
LEMMA PickedHas ==
  ASSUME NEW T, NEW s \in Seq(T), NEW places \in SUBSET (DOMAIN s)
  PROVE  \E m, q : /\ Picks(Picked(s, places), m, q, s, places)
                   /\ Picked(s, places) \in Seq(T) /\ Len(Picked(s, places)) = m
                   /\ DOMAIN Picked(s, places) = 1..m
                   /\ \A k \in 1..m : q[k] \in 1..Len(s)
<1>1. PICK n \in Nat : n = Len(s) /\ DOMAIN s = 1..n /\ \A i \in 1..n : s[i] \in T
  BY LenProperties, ElementOfSeq
<1>2. places \in SUBSET Nat /\ IsFiniteSet(places)
  <2>1. IsFiniteSet(1..n)
    BY FS_Interval
  <2> QED BY <1>1, <2>1, FS_Subset
<1>3. PICK m \in Nat : m = Cardinality(places)
  BY <1>2, FS_CardinalityType
<1>4. PICK q : q = Ascending(places)
  OBVIOUS
<1>5. /\ q \in [1..m -> places]
      /\ \A i \in places : \E k \in 1..m : q[k] = i
      /\ \A k, l \in 1..m : k < l => q[k] < q[l]
  BY <1>2, <1>3, <1>4, AscendingListsAll
<1>6. Lists(q, m, places)
  BY <1>5 DEF Lists
<1>7. Picked(s, places) = [k \in 1..m |-> s[q[k]]]
  BY <1>2, <1>6, PickedIs
<1>8. \A k \in 1..m : q[k] \in 1..n /\ s[q[k]] \in T
  BY <1>1, <1>5
<1>9. Picked(s, places) \in [1..m -> T]
  BY <1>7, <1>8
<1>10. Picked(s, places) \in Seq(T) /\ Len(Picked(s, places)) = m /\ DOMAIN Picked(s, places) = 1..m
  BY <1>9, FunctionIsSeq
<1> QED BY <1>1, <1>5, <1>6, <1>7, <1>8, <1>10 DEF Picks

(* Places are picked in one way.                                           *)
LEMMA PicksOnly ==
  ASSUME NEW s, NEW places \in SUBSET Nat, NEW z, NEW m, NEW q, Picks(z, m, q, s, places)
  PROVE  Picked(s, places) = z
BY PickedIs DEF Picks

(* Picking from what was picked: places among the places.                  *)
PlacesOf(s, X) == {k \in DOMAIN s : s[k] \in X}

LEMMA PickedTwice ==
  ASSUME NEW T, NEW s \in Seq(T), NEW A \in SUBSET (DOMAIN s), NEW X
  PROVE  Picked(Picked(s, A), PlacesOf(Picked(s, A), X)) = Picked(s, A \cap PlacesOf(s, X))
<1>16. PICK B : B = PlacesOf(Picked(s, A), X)
  OBVIOUS
<1>17. PICK C : C = A \cap PlacesOf(s, X)
  OBVIOUS
<1>1. PICK p : p = Picked(s, A)
  OBVIOUS
<1>2. PICK m, q : Picks(p, m, q, s, A) /\ p \in Seq(T) /\ DOMAIN p = 1..m
                  /\ \A k \in 1..m : q[k] \in 1..Len(s)
  BY <1>1, PickedHas
<1>3. m \in Nat /\ Lists(q, m, A) /\ \A k \in 1..m : q[k] \in A /\ p[k] = s[q[k]]
  BY <1>2 DEF Picks
<1>4. B \in SUBSET (DOMAIN p) /\ C \in SUBSET (DOMAIN s)
  BY <1>1, <1>16, <1>17 DEF PlacesOf
<1>5. PICK l, r : Picks(Picked(p, B), l, r, p, B)
  BY <1>2, <1>4, PickedHas
<1>6. /\ l \in Nat /\ Lists(r, l, B) /\ Picked(p, B) = [k \in 1..l |-> p[r[k]]]
      /\ \A k \in 1..l : r[k] \in B /\ r[k] \in 1..m /\ p[r[k]] \in X
  BY <1>1, <1>2, <1>4, <1>5, <1>16 DEF Picks, PlacesOf
<1> DEFINE z == [k \in 1..l |-> q[r[k]]]
<1>7. \A k \in 1..l : z[k] \in C /\ z[k] = q[r[k]]
  <2>1. \A k \in 1..l : q[r[k]] \in A /\ s[q[r[k]]] \in X
    BY <1>3, <1>6
  <2> QED BY <1>17, <2>1 DEF PlacesOf
<1>8. ASSUME NEW i \in C PROVE \E k \in 1..l : z[k] = i
  <2>1. i \in A /\ s[i] \in X
    BY <1>8, <1>17 DEF PlacesOf
  <2>2. PICK k \in 1..m : q[k] = i
    BY <1>3, <2>1 DEF Lists
  <2>3. k \in B
    BY <1>1, <1>2, <1>3, <1>16, <2>1, <2>2 DEF PlacesOf
  <2>4. PICK j \in 1..l : r[j] = k
    BY <1>6, <2>3 DEF Lists
  <2> QED BY <1>7, <2>2, <2>4
<1>9. ASSUME NEW k \in 1..l, NEW j \in 1..l, k < j PROVE z[k] < z[j]
  <2>1. r[k] < r[j]
    BY <1>6, <1>9 DEF Lists
  <2>2. q[r[k]] < q[r[j]]
    BY <1>3, <1>6, <2>1 DEF Lists
  <2> QED BY <1>7, <2>2
<1>10. Lists(z, l, C) /\ z \in [1..l -> C]
  BY <1>7, <1>8, <1>9 DEF Lists
<1>11. \A k \in 1..l : p[r[k]] = s[z[k]]
  BY <1>3, <1>6, <1>7
<1>12. C \in SUBSET Nat
  <2>1. PICK n \in Nat : DOMAIN s = 1..n
    BY LenProperties
  <2> QED BY <1>4, <2>1
<1> HIDE DEF z
<1>13. Picked(p, B) = [k \in 1..l |-> s[z[k]]]
  BY <1>6, <1>11
<1>14. Picks(Picked(p, B), l, z, s, C)
  BY <1>6, <1>10, <1>13 DEF Picks
<1>15. Picked(s, C) = Picked(p, B)
  BY <1>12, <1>14, PicksOnly
<1> QED BY <1>1, <1>15, <1>16, <1>17

(* The elements that resolving leaves around an item.                      *)
StaysAround(e, keep, sel) == ~(e.kind = keep /\ e.id \in sel)

Around(item, keep, sel) == {k \in DOMAIN item.in : StaysAround(item.in[k], keep, sel)}

LEMMA UnwrappedIs ==
  ASSUME NEW E, NEW item \in ItemsIn(E), NEW keep, NEW sel
  PROVE  /\ Unwrapped(item, keep, sel) \in ItemsIn(E) /\ Unwrapped(item, keep, sel).tok = item.tok
         /\ Unwrapped(item, keep, sel) = [item EXCEPT !.in = Unwrapped(item, keep, sel).in]
         /\ Unwrapped(item, keep, sel).in = Picked(item.in, Around(item, keep, sel))
         /\ Around(item, keep, sel) \in SUBSET (DOMAIN item.in)
<1> DEFINE places == Around(item, keep, sel)
           z == Unwrapped(item, keep, sel)
<1>1. PICK in : in = item.in /\ in \in Seq(E) /\ item = [tok |-> item.tok, in |-> in] /\ item.tok \in Toks
  BY DEF ItemsIn
<1>2. z = [item EXCEPT !.in = Picked(in, places)] /\ places \in SUBSET (DOMAIN in)
  BY <1>1 DEF Unwrapped, StaysAround, Around
<1> HIDE DEF places, z
<1>3. Picked(in, places) \in Seq(E)
  BY <1>1, <1>2, PickedHas
<1>4. z = [tok |-> item.tok, in |-> Picked(in, places)]
  BY <1>1, <1>2
<1>5. z \in ItemsIn(E) /\ z.tok = item.tok /\ z.in = Picked(in, places)
  BY <1>1, <1>3, <1>4 DEF ItemsIn
<1>6. z = [item EXCEPT !.in = z.in]
  BY <1>2, <1>5
<1> QED BY <1>1, <1>2, <1>5, <1>6 DEF z, places

(* The elements that are left are elements that were there, and stay.      *)
LEMMA UnwrappedHolds ==
  ASSUME NEW E, NEW item \in ItemsIn(E), NEW keep, NEW sel, NEW z, z = Unwrapped(item, keep, sel)
  PROVE  /\ \A k \in DOMAIN z.in : \E i \in DOMAIN item.in :
              z.in[k] = item.in[i] /\ StaysAround(item.in[i], keep, sel)
         /\ \A i \in DOMAIN item.in : StaysAround(item.in[i], keep, sel) =>
              \E k \in DOMAIN z.in : z.in[k] = item.in[i]
<1>1. PICK in : in = item.in /\ in \in Seq(E)
  BY DEF ItemsIn
<1>2. PICK places : places = Around(item, keep, sel)
  OBVIOUS
<1>3. z.in = Picked(in, places) /\ places \in SUBSET (DOMAIN in)
  BY <1>1, <1>2, UnwrappedIs
<1>4. PICK m, q : /\ Picks(Picked(in, places), m, q, in, places)
                  /\ DOMAIN Picked(in, places) = 1..m
  BY <1>1, <1>3, PickedHas
<1>5. /\ m \in Nat /\ q \in [1..m -> places] /\ Lists(q, m, places) /\ DOMAIN z.in = 1..m
      /\ z.in = [k \in 1..m |-> in[q[k]]]
  BY <1>3, <1>4 DEF Picks
<1>6. ASSUME NEW k \in DOMAIN z.in PROVE \E i \in DOMAIN in : z.in[k] = in[i] /\ StaysAround(in[i], keep, sel)
  <2>1. k \in 1..m /\ q[k] \in places /\ z.in[k] = in[q[k]]
    BY <1>5
  <2>2. q[k] \in DOMAIN in /\ StaysAround(in[q[k]], keep, sel)
    BY <1>1, <1>2, <2>1 DEF Around
  <2> QED BY <2>1, <2>2
<1>7. ASSUME NEW i \in DOMAIN in, StaysAround(in[i], keep, sel) PROVE \E k \in DOMAIN z.in : z.in[k] = in[i]
  <2>1. i \in places
    BY <1>1, <1>2, <1>7 DEF Around
  <2>2. PICK k \in 1..m : q[k] = i
    BY <1>5, <2>1 DEF Lists
  <2>3. k \in DOMAIN z.in /\ z.in[k] = in[i]
    BY <1>5, <2>2
  <2> QED BY <2>3
<1> QED BY <1>1, <1>6, <1>7

(* The last element stays the last one unless it is taken away.            *)
LEMMA LastStays ==
  ASSUME NEW E, NEW item \in ItemsIn(E), NEW keep, NEW sel, item.in # <<>>,
         StaysAround(Last(item.in), keep, sel)
  PROVE  /\ Unwrapped(item, keep, sel).in # <<>>
         /\ Last(Unwrapped(item, keep, sel).in) = Last(item.in)
<1>1. PICK in : in = item.in /\ in \in Seq(E)
  BY DEF ItemsIn
<1>2. PICK n \in Nat : n = Len(in) /\ DOMAIN in = 1..n
  BY <1>1, LenProperties
<1>3. n \in 1..n /\ Last(in) = in[n]
  BY <1>1, <1>2 DEF Last
<1>4. PICK places : places = Around(item, keep, sel)
  OBVIOUS
<1>5. n \in places
  BY <1>1, <1>2, <1>3, <1>4 DEF Around
<1>6. PICK y : y = Unwrapped(item, keep, sel).in
  OBVIOUS
<1>7. y = Picked(in, places) /\ places \in SUBSET (DOMAIN in)
  BY <1>1, <1>4, <1>6, UnwrappedIs
<1>8. PICK m, q : /\ Picks(Picked(in, places), m, q, in, places)
                  /\ Len(Picked(in, places)) = m /\ DOMAIN Picked(in, places) = 1..m
  BY <1>1, <1>7, PickedHas
<1>9. /\ m \in Nat /\ q \in [1..m -> places] /\ Lists(q, m, places)
      /\ y = [k \in 1..m |-> in[q[k]]] /\ Len(y) = m
  BY <1>7, <1>8 DEF Picks
<1>10. PICK k \in 1..m : q[k] = n
  BY <1>5, <1>9 DEF Lists
<1>11. k = m
  <2> SUFFICES ASSUME k < m PROVE FALSE
    BY <1>9
  <2>1. m \in 1..m /\ q[k] < q[m]
    BY <1>9 DEF Lists
  <2>2. q[m] \in 1..n
    BY <1>2, <1>7, <1>9, <2>1
  <2> QED BY <1>10, <2>1, <2>2
<1>12. y[m] = in[n] /\ m # 0
  BY <1>9, <1>10, <1>11
<1>13. y # <<>>
  BY <1>9, <1>12
<1> QED BY <1>1, <1>2, <1>3, <1>6, <1>9, <1>12, <1>13 DEF Last

(* What a resolution does to what is left by another one of other          *)
(* revisions is what it does to what was there.                            *)
LEMMA GoneAfter ==
  ASSUME NEW E, NEW item \in ItemsIn(E), NEW d1, NEW k1, NEW d2, NEW k2,
         NEW S, NEW T, S \cap T = {}, ~Gone(item, d1, k1, S)
  PROVE  Gone(Unwrapped(item, k1, S), d2, k2, T) <=> Gone(item, d2, k2, T)
<1>1. PICK z : z = Unwrapped(item, k1, S)
  OBVIOUS
<1>2. /\ z \in ItemsIn(E) /\ z.tok = item.tok
      /\ item.in # <<>> /\ StaysAround(Last(item.in), k1, S) => z.in # <<>> /\ Last(z.in) = Last(item.in)
  BY <1>1, UnwrappedIs, LastStays
<1>3. /\ \A k \in DOMAIN z.in : \E i \in DOMAIN item.in :
                 z.in[k] = item.in[i] /\ StaysAround(item.in[i], k1, S)
      /\ \A i \in DOMAIN item.in : StaysAround(item.in[i], k1, S) =>
                 \E k \in DOMAIN z.in : z.in[k] = item.in[i]
  BY <1>1, UnwrappedHolds
<1>4. (\E k \in DOMAIN z.in : z.in[k].kind = d2 /\ z.in[k].id \in T)
        <=> (\E k \in DOMAIN item.in : item.in[k].kind = d2 /\ item.in[k].id \in T)
  <2>1. ASSUME NEW i \in DOMAIN item.in, item.in[i].kind = d2, item.in[i].id \in T
        PROVE  StaysAround(item.in[i], k1, S)
    BY <2>1 DEF StaysAround
  <2> QED BY <1>3, <2>1
<1>5. item.tok = Open =>
        ((z.in # <<>> /\ Last(z.in).kind = k2 /\ Last(z.in).id \in T)
          <=> (item.in # <<>> /\ Last(item.in).kind = k2 /\ Last(item.in).id \in T))
  <2> SUFFICES ASSUME item.tok = Open
               PROVE (z.in # <<>> /\ Last(z.in).kind = k2 /\ Last(z.in).id \in T)
                     <=> (item.in # <<>> /\ Last(item.in).kind = k2 /\ Last(item.in).id \in T)
    OBVIOUS
  <2>1. CASE item.in = <<>>
    <3>1. PICK y : y = z.in /\ y \in Seq(E)
      BY <1>2 DEF ItemsIn
    <3>2. \A k \in DOMAIN y : FALSE
      BY <1>3, <2>1, <3>1
    <3>3. y = <<>>
      <4>1. PICK n \in Nat : n = Len(y) /\ DOMAIN y = 1..n
        BY <3>1, LenProperties
      <4>2. n = 0
        <5> SUFFICES ASSUME n # 0 PROVE FALSE
          OBVIOUS
        <5>1. 1 \in DOMAIN y
          BY <4>1
        <5> QED BY <3>2, <5>1
      <4> QED BY <3>1, <4>1, <4>2, EmptySeq
    <3> QED BY <2>1, <3>1, <3>3
  <2>2. CASE item.in # <<>>
    <3>1. StaysAround(Last(item.in), k1, S)
      BY <2>2 DEF Gone, StaysAround
    <3> QED BY <1>2, <2>2, <3>1
  <2> QED BY <2>1, <2>2
<1>6. Gone(z, d2, k2, T) <=> Gone(item, d2, k2, T)
  BY <1>2, <1>4, <1>5 DEF Gone
<1> QED BY <1>1, <1>6

(* Taking elements away twice.                                             *)
Around2(item, k1, S, k2, T) == Around(item, k1, S) \cap Around(item, k2, T)

LEMMA UnwrappedTwice ==
  ASSUME NEW E, NEW item \in ItemsIn(E), NEW k1, NEW S, NEW k2, NEW T
  PROVE  Unwrapped(Unwrapped(item, k1, S), k2, T)
         = [item EXCEPT !.in = Picked(item.in, Around2(item, k1, S, k2, T))]
<1>1. PICK y : y = Unwrapped(item, k1, S)
  OBVIOUS
<1>2. PICK z : z = Unwrapped(y, k2, T)
  OBVIOUS
<1>3. PICK in : in = item.in /\ in \in Seq(E) /\ \A k \in DOMAIN in : in[k] \in E
  <2>1. item.in \in Seq(E)
    BY DEF ItemsIn
  <2>2. \A k \in DOMAIN item.in : item.in[k] \in E
    BY <2>1, ElementOfSeq, LenProperties
  <2> QED BY <2>1, <2>2
<1>4. PICK A : A = Around(item, k1, S)
  OBVIOUS
<1>5. PICK B : B = Around(y, k2, T)
  OBVIOUS
<1>6. PICK C : C = Around2(item, k1, S, k2, T)
  OBVIOUS
<1>7. PICK X : X = {e \in E : StaysAround(e, k2, T)}
  OBVIOUS
<1>8. y \in ItemsIn(E) /\ y = [item EXCEPT !.in = y.in] /\ y.in = Picked(in, A) /\ A \in SUBSET (DOMAIN in)
  BY <1>1, <1>3, <1>4, UnwrappedIs
<1>9. z = [y EXCEPT !.in = z.in] /\ z.in = Picked(y.in, B)
  BY <1>2, <1>5, <1>8, UnwrappedIs
<1>10. B = PlacesOf(Picked(in, A), X)
  <2>1. PICK p : p = y.in /\ p \in Seq(E)
    BY <1>8 DEF ItemsIn
  <2>2. \A k \in DOMAIN p : p[k] \in E
    BY <2>1, ElementOfSeq, LenProperties
  <2>3. B = {k \in DOMAIN p : StaysAround(p[k], k2, T)}
    BY <1>5, <2>1 DEF Around
  <2>4. B = PlacesOf(p, X)
    BY <1>7, <2>2, <2>3 DEF PlacesOf
  <2> QED BY <1>8, <2>1, <2>4
<1>11. C = A \cap PlacesOf(in, X)
  BY <1>3, <1>4, <1>6, <1>7 DEF Around, Around2, PlacesOf
<1>12. Picked(Picked(in, A), B) = Picked(in, C)
  BY <1>3, <1>8, <1>10, <1>11, PickedTwice
<1>13. z.in = Picked(in, C)
  BY <1>8, <1>9, <1>12
<1>14. z = [item EXCEPT !.in = Picked(in, C)]
  <2>1. item = [tok |-> item.tok, in |-> in]
    BY <1>3 DEF ItemsIn
  <2> QED BY <1>8, <1>9, <1>13, <2>1
<1> QED BY <1>1, <1>2, <1>3, <1>6, <1>14

(***************************************************************************)
(* Resolving a body                                                        *)
(***************************************************************************)

(* The places of the items that stay.                                      *)
Staying(body, drop, keep, sel) == {i \in DOMAIN body : ~Gone(body[i], drop, keep, sel)}

(* z is what resolving leaves of body, whose m items that stay q lists.    *)
ResolvesTo(z, m, q, body, drop, keep, sel) ==
  /\ m \in Nat /\ Len(z) = m /\ Lists(q, m, Staying(body, drop, keep, sel))
  /\ \A k \in 1..m : q[k] \in 1..Len(body)
  /\ z = [k \in 1..m |-> Unwrapped(body[q[k]], keep, sel)]

LEMMA ResolvedBodyIs ==
  ASSUME NEW E, NEW body \in Bodies(E), NEW drop, NEW keep, NEW sel
  PROVE  /\ ResolvedBody(body, drop, keep, sel) \in Bodies(E)
         /\ Staying(body, drop, keep, sel) \in SUBSET (DOMAIN body)
         /\ \E m, q : ResolvesTo(ResolvedBody(body, drop, keep, sel), m, q, body, drop, keep, sel)
<1>1. PICK A : A = Staying(body, drop, keep, sel)
  OBVIOUS
<1>2. PICK left : left = Picked(body, A)
  OBVIOUS
<1>3. PICK z : z = ResolvedBody(body, drop, keep, sel)
  OBVIOUS
<1>4. PICK T : T = ItemsIn(E)
  OBVIOUS
<1>5. body \in Seq(T)
  BY <1>4 DEF Bodies, ItemsIn, Toks
<1>6. A \in SUBSET (DOMAIN body)
  BY <1>1 DEF Staying
<1>7. PICK m, q : /\ Picks(Picked(body, A), m, q, body, A)
                  /\ DOMAIN Picked(body, A) = 1..m
                  /\ \A k \in 1..m : q[k] \in 1..Len(body)
  BY <1>5, <1>6, PickedHas
<1>8. m \in Nat /\ q \in [1..m -> A] /\ Lists(q, m, A) /\ left = [k \in 1..m |-> body[q[k]]] /\ DOMAIN left = 1..m
  BY <1>2, <1>7 DEF Picks
<1>9. z = [k \in DOMAIN left |-> Unwrapped(left[k], keep, sel)]
  BY <1>1, <1>2, <1>3 DEF ResolvedBody, Staying
<1>10. z = [k \in 1..m |-> Unwrapped(body[q[k]], keep, sel)]
  BY <1>8, <1>9
<1>11. \A k \in 1..m : body[q[k]] \in T
  BY <1>5, <1>7, ElementOfSeq
<1>12. \A k \in 1..m : Unwrapped(body[q[k]], keep, sel) \in T
  BY <1>4, <1>11, UnwrappedIs
<1>13. z \in [1..m -> T]
  BY <1>10, <1>12
<1>14. z \in Seq(T) /\ Len(z) = m
  BY <1>8, <1>13, FunctionIsSeq
<1>15. z \in Bodies(E)
  BY <1>4, <1>14 DEF Bodies, ItemsIn, Toks
<1>16. ResolvesTo(z, m, q, body, drop, keep, sel)
  BY <1>1, <1>7, <1>8, <1>10, <1>14 DEF ResolvesTo
<1> QED BY <1>1, <1>3, <1>6, <1>15, <1>16

(* What is left is determined by the places that stay.                     *)
LEMMA ResolvedBodyOnly ==
  ASSUME NEW E, NEW body \in Bodies(E), NEW drop, NEW keep, NEW sel, NEW m \in Nat, NEW q,
         Lists(q, m, Staying(body, drop, keep, sel))
  PROVE  ResolvedBody(body, drop, keep, sel) = [k \in 1..m |-> Unwrapped(body[q[k]], keep, sel)]
<1>1. PICK A : A = Staying(body, drop, keep, sel)
  OBVIOUS
<1>2. A \in SUBSET Nat
  <2>1. PICK n \in Nat : DOMAIN body = 1..n
    BY LenProperties DEF Bodies
  <2> QED BY <1>1, <2>1 DEF Staying
<1>3. PICK left : left = Picked(body, A)
  OBVIOUS
<1>4. left = [k \in 1..m |-> body[q[k]]]
  BY <1>1, <1>2, <1>3, PickedIs
<1>5. ResolvedBody(body, drop, keep, sel) = [k \in DOMAIN left |-> Unwrapped(left[k], keep, sel)]
  BY <1>1, <1>3 DEF ResolvedBody, Staying
<1> QED BY <1>4, <1>5

(* Resolving some revisions and then others, in one step.                  *)
ResolvedByBoth(body, d1, k1, S, d2, k2, T) ==
  LET left == Picked(body, Staying(body, d1, k1, S) \cap Staying(body, d2, k2, T))
  IN [k \in DOMAIN left |->
        [left[k] EXCEPT !.in = Picked(left[k].in, Around2(left[k], k1, S, k2, T))]]

LEMMA ResolvedBodyTwice ==
  ASSUME NEW E, NEW body \in Bodies(E), NEW d1, NEW k1, NEW S, NEW d2, NEW k2, NEW T, S \cap T = {}
  PROVE  ResolvedBody(ResolvedBody(body, d1, k1, S), d2, k2, T)
         = ResolvedByBoth(body, d1, k1, S, d2, k2, T)
<1>1. PICK y : y = ResolvedBody(body, d1, k1, S)
  OBVIOUS
<1>2. PICK A : A = Staying(body, d1, k1, S)
  OBVIOUS
<1>3. PICK C : C = Staying(body, d2, k2, T)
  OBVIOUS
<1>4. PICK I : I = ItemsIn(E)
  OBVIOUS
<1>5. body \in Seq(I)
  BY <1>4 DEF Bodies, ItemsIn, Toks
<1>6. y \in Bodies(E) /\ A \in SUBSET (DOMAIN body)
  BY <1>1, <1>2, ResolvedBodyIs
<1>25. PICK m, q : ResolvesTo(y, m, q, body, d1, k1, S)
  BY <1>1, ResolvedBodyIs
<1>7. /\ m \in Nat /\ Len(y) = m /\ Lists(q, m, A)
      /\ \A k \in 1..m : q[k] \in 1..Len(body)
      /\ y = [k \in 1..m |-> Unwrapped(body[q[k]], k1, S)]
  BY <1>2, <1>25 DEF ResolvesTo
<1>8. PICK left : left = Picked(body, A)
  OBVIOUS
<1>9. A \in SUBSET Nat
  <2>1. PICK n \in Nat : DOMAIN body = 1..n
    BY <1>5, LenProperties
  <2> QED BY <1>6, <2>1
<1>10. left = [k \in 1..m |-> body[q[k]]]
  BY <1>7, <1>8, <1>9, PickedIs
<1>11. \A k \in 1..m : body[q[k]] \in I /\ q[k] \in A /\ left[k] = body[q[k]] /\ y[k] = Unwrapped(body[q[k]], k1, S)
  <2>1. \A k \in 1..m : q[k] \in A
    BY <1>7 DEF Lists
  <2>2. \A k \in 1..m : body[q[k]] \in I
    BY <1>5, <1>7, ElementOfSeq
  <2> QED BY <1>7, <1>10, <2>1, <2>2
<1>12. PICK X : X = {item \in I : ~Gone(item, d2, k2, T)}
  OBVIOUS
<1>13. PICK B : B = PlacesOf(left, X)
  OBVIOUS
<1>14. \A k \in 1..m : Gone(y[k], d2, k2, T) <=> Gone(left[k], d2, k2, T)
  <2> TAKE k \in 1..m
  <2>1. left[k] \in ItemsIn(E) /\ ~Gone(left[k], d1, k1, S) /\ y[k] = Unwrapped(left[k], k1, S)
    BY <1>2, <1>4, <1>11 DEF Staying
  <2>2. Gone(Unwrapped(left[k], k1, S), d2, k2, T) <=> Gone(left[k], d2, k2, T)
    BY <2>1, GoneAfter
  <2> QED BY <2>1, <2>2
<1>15. Staying(y, d2, k2, T) = B
  <2>1. DOMAIN y = 1..m /\ DOMAIN left = 1..m
    BY <1>7, <1>10
  <2>2. Staying(y, d2, k2, T) = {k \in 1..m : ~Gone(y[k], d2, k2, T)}
    BY <2>1 DEF Staying
  <2>3. B = {k \in 1..m : left[k] \in X}
    BY <1>13, <2>1 DEF PlacesOf
  <2>4. \A k \in 1..m : left[k] \in X <=> ~Gone(left[k], d2, k2, T)
    BY <1>11, <1>12
  <2> QED BY <1>14, <2>2, <2>3, <2>4
<1>16. PICK z : z = ResolvedBody(y, d2, k2, T)
  OBVIOUS
<1>26. PICK l, r : ResolvesTo(z, l, r, y, d2, k2, T)
  BY <1>6, <1>16, ResolvedBodyIs
<1>17. /\ l \in Nat /\ Len(z) = l /\ Lists(r, l, B)
       /\ \A k \in 1..l : r[k] \in 1..Len(y)
       /\ z = [k \in 1..l |-> Unwrapped(y[r[k]], k2, T)]
  BY <1>15, <1>26 DEF ResolvesTo
<1>18. PICK both : both = Picked(body, A \cap C)
  OBVIOUS
<1>19. Picked(left, B) = both
  <2>1. A \cap C = A \cap PlacesOf(body, X)
    <3>1. C = {i \in DOMAIN body : ~Gone(body[i], d2, k2, T)}
      BY <1>3 DEF Staying
    <3>2. PlacesOf(body, X) = {i \in DOMAIN body : body[i] \in X}
      BY DEF PlacesOf
    <3>3. \A i \in DOMAIN body : body[i] \in I
      BY <1>5, ElementOfSeq, LenProperties
    <3> QED BY <1>12, <3>1, <3>2, <3>3
  <2> QED BY <1>5, <1>6, <1>8, <1>13, <1>18, <2>1, PickedTwice
<1>20. both = [k \in 1..l |-> left[r[k]]]
  <2>1. B \in SUBSET Nat
    BY <1>10, <1>7, <1>13 DEF PlacesOf
  <2> QED BY <1>17, <1>19, <2>1, PickedIs
<1>21. \A k \in 1..l : r[k] \in 1..m
  BY <1>7, <1>17
<1>22. \A k \in 1..l :
         Unwrapped(y[r[k]], k2, T) = [both[k] EXCEPT !.in = Picked(both[k].in, Around2(both[k], k1, S, k2, T))]
  <2> TAKE k \in 1..l
  <2>1. r[k] \in 1..m
    BY <1>21
  <2>2. both[k] = left[r[k]] /\ left[r[k]] \in ItemsIn(E) /\ y[r[k]] = Unwrapped(left[r[k]], k1, S)
    BY <1>4, <1>11, <1>20, <2>1
  <2> QED BY <2>2, UnwrappedTwice
<1>23. ResolvedByBoth(body, d1, k1, S, d2, k2, T)
       = [k \in DOMAIN both |-> [both[k] EXCEPT !.in = Picked(both[k].in, Around2(both[k], k1, S, k2, T))]]
  BY <1>2, <1>3, <1>18 DEF ResolvedByBoth
<1>24. ResolvedByBoth(body, d1, k1, S, d2, k2, T) = z
  <2>1. DOMAIN both = 1..l
    BY <1>20
  <2> QED BY <1>17, <1>22, <1>23, <2>1
<1> QED BY <1>1, <1>16, <1>24

(* The order does not matter.                                              *)
LEMMA BodyInAnyOrder ==
  ASSUME NEW E, NEW body \in Bodies(E), NEW d1, NEW k1, NEW S, NEW d2, NEW k2, NEW T, S \cap T = {}
  PROVE  ResolvedBody(ResolvedBody(body, d1, k1, S), d2, k2, T)
         = ResolvedBody(ResolvedBody(body, d2, k2, T), d1, k1, S)
<1>1. ResolvedBody(ResolvedBody(body, d1, k1, S), d2, k2, T) = ResolvedByBoth(body, d1, k1, S, d2, k2, T)
  BY ResolvedBodyTwice
<1>2. ResolvedBody(ResolvedBody(body, d2, k2, T), d1, k1, S) = ResolvedByBoth(body, d2, k2, T, d1, k1, S)
  <2>1. T \cap S = {}
    OBVIOUS
  <2> QED BY <2>1, ResolvedBodyTwice
<1>3. Staying(body, d1, k1, S) \cap Staying(body, d2, k2, T) = Staying(body, d2, k2, T) \cap Staying(body, d1, k1, S)
  OBVIOUS
<1>4. \A item : Around2(item, k1, S, k2, T) = Around2(item, k2, T, k1, S)
  BY DEF Around2
<1>5. ResolvedByBoth(body, d1, k1, S, d2, k2, T) = ResolvedByBoth(body, d2, k2, T, d1, k1, S)
  BY <1>3, <1>4, Zenon DEF ResolvedByBoth
<1> QED BY <1>1, <1>2, <1>5

(* Resolving some and then others in the same way is resolving both.       *)
LEMMA BodyAtOnce ==
  ASSUME NEW E, NEW body \in Bodies(E), NEW drop, NEW keep, NEW S, NEW T, S \cap T = {}
  PROVE  ResolvedBody(ResolvedBody(body, drop, keep, S), drop, keep, T)
         = ResolvedBody(body, drop, keep, S \cup T)
<1>1. ResolvedBody(ResolvedBody(body, drop, keep, S), drop, keep, T)
      = ResolvedByBoth(body, drop, keep, S, drop, keep, T)
  BY ResolvedBodyTwice
<1>2. \A item : Gone(item, drop, keep, S \cup T) <=> Gone(item, drop, keep, S) \/ Gone(item, drop, keep, T)
  BY DEF Gone
<1>3. Staying(body, drop, keep, S) \cap Staying(body, drop, keep, T) = Staying(body, drop, keep, S \cup T)
  BY <1>2 DEF Staying
<1>4. PICK left : left = Picked(body, Staying(body, drop, keep, S \cup T))
  OBVIOUS
<1>5. ResolvedBody(body, drop, keep, S \cup T) = [k \in DOMAIN left |-> Unwrapped(left[k], keep, S \cup T)]
  BY <1>4 DEF ResolvedBody, Staying
<1>6. ResolvedByBoth(body, drop, keep, S, drop, keep, T)
      = [k \in DOMAIN left |-> [left[k] EXCEPT !.in = Picked(left[k].in, Around2(left[k], keep, S, keep, T))]]
  BY <1>3, <1>4, Zenon DEF ResolvedByBoth
<1>7. \A item : Around2(item, keep, S, keep, T)
                = {k \in DOMAIN item.in : ~(item.in[k].kind = keep /\ item.in[k].id \in S \cup T)}
  BY DEF Around2, Around, StaysAround
<1>8. \A k \in DOMAIN left : Unwrapped(left[k], keep, S \cup T)
        = [left[k] EXCEPT !.in = Picked(left[k].in, Around2(left[k], keep, S, keep, T))]
  BY <1>7 DEF Unwrapped
<1> QED BY <1>1, <1>5, <1>6, <1>8

(* Two bodies one after the other are resolved one after the other.        *)
LEMMA ResolvedBodyJoined ==
  ASSUME NEW E, NEW a \in Bodies(E), NEW b \in Bodies(E), NEW drop, NEW keep, NEW sel
  PROVE  ResolvedBody(a \o b, drop, keep, sel)
         = ResolvedBody(a, drop, keep, sel) \o ResolvedBody(b, drop, keep, sel)
<1>1. PICK I : I = ItemsIn(E) /\ Bodies(E) = Seq(I)
  BY DEF Bodies, ItemsIn, Toks
<1>2. PICK la \in Nat, lb \in Nat : la = Len(a) /\ lb = Len(b)
  BY <1>1, LenProperties
<1>3. PICK c : c = a \o b
  OBVIOUS
<1>4. /\ c \in Seq(I) /\ Len(c) = la + lb /\ DOMAIN c = 1..(la + lb)
      /\ \A i \in 1..la : c[i] = a[i]
      /\ \A i \in 1..lb : c[la + i] = b[i]
  BY <1>1, <1>2, <1>3
<1>5. PICK A, B, C : /\ A = Staying(a, drop, keep, sel) /\ B = Staying(b, drop, keep, sel)
                     /\ C = Staying(c, drop, keep, sel)
  OBVIOUS
<1>6. PICK x, y : x = ResolvedBody(a, drop, keep, sel) /\ y = ResolvedBody(b, drop, keep, sel)
  OBVIOUS
<1>21. PICK m, q : ResolvesTo(x, m, q, a, drop, keep, sel)
  BY <1>6, ResolvedBodyIs
<1>22. PICK l, r : ResolvesTo(y, l, r, b, drop, keep, sel)
  BY <1>6, ResolvedBodyIs
<1>7. /\ m \in Nat /\ Len(x) = m /\ Lists(q, m, A) /\ \A k \in 1..m : q[k] \in 1..la
      /\ x = [k \in 1..m |-> Unwrapped(a[q[k]], keep, sel)]
  BY <1>2, <1>5, <1>21 DEF ResolvesTo
<1>8. /\ l \in Nat /\ Len(y) = l /\ Lists(r, l, B) /\ \A k \in 1..l : r[k] \in 1..lb
      /\ y = [k \in 1..l |-> Unwrapped(b[r[k]], keep, sel)]
  BY <1>2, <1>5, <1>22 DEF ResolvesTo
<1> DEFINE t == [k \in 1..(m + l) |-> IF k <= m THEN q[k] ELSE la + r[k - m]]
<1>9. /\ \A k \in 1..m : t[k] = q[k] /\ q[k] \in A /\ q[k] \in 1..la
      /\ \A k \in 1..l : t[m + k] = la + r[k] /\ r[k] \in B /\ r[k] \in 1..lb
  <2>1. \A k \in 1..m : k \in 1..(m + l) /\ k <= m
    BY <1>7, <1>8
  <2>2. \A k \in 1..l : m + k \in 1..(m + l) /\ ~(m + k <= m) /\ (m + k) - m = k
    BY <1>7, <1>8
  <2> QED BY <1>7, <1>8, <2>1, <2>2 DEF Lists
<1> HIDE DEF t
<1>10. \A k \in 1..(m + l) : k \in 1..m \/ \E i \in 1..l : k = m + i
  <2> TAKE k \in 1..(m + l)
  <2> SUFFICES ASSUME k \notin 1..m PROVE \E i \in 1..l : k = m + i
    OBVIOUS
  <2>1. k - m \in 1..l /\ k = m + (k - m)
    BY <1>7, <1>8
  <2> QED BY <2>1
<1>11. /\ \A i \in 1..la : i \in C <=> i \in A
       /\ \A i \in 1..lb : la + i \in C <=> i \in B
  <2>1. DOMAIN a = 1..la /\ DOMAIN b = 1..lb
    BY <1>1, <1>2, LenProperties
  <2>2. \A i \in 1..la : i \in 1..(la + lb)
    BY <1>2
  <2>3. \A i \in 1..lb : la + i \in 1..(la + lb)
    BY <1>2
  <2> QED BY <1>4, <1>5, <2>1, <2>2, <2>3 DEF Staying
<1>12. \A i \in C : i \in 1..la \/ \E k \in 1..lb : i = la + k
  <2> TAKE i \in C
  <2>1. i \in 1..(la + lb)
    BY <1>4, <1>5 DEF Staying
  <2> SUFFICES ASSUME i \notin 1..la PROVE \E k \in 1..lb : i = la + k
    OBVIOUS
  <2>2. i - la \in 1..lb /\ i = la + (i - la)
    BY <1>2, <2>1
  <2> QED BY <2>2
<1>13. Lists(t, m + l, C)
  <2>1. ASSUME NEW k \in 1..(m + l) PROVE t[k] \in C
    BY <1>9, <1>10, <1>11
  <2>2. ASSUME NEW i \in C PROVE \E k \in 1..(m + l) : t[k] = i
    <3>1. CASE i \in 1..la
      <4>1. PICK k \in 1..m : q[k] = i
        BY <1>7, <1>11, <3>1 DEF Lists
      <4>2. k \in 1..(m + l)
        BY <1>7, <1>8
      <4> QED BY <1>9, <4>1, <4>2
    <3>2. CASE \E k \in 1..lb : i = la + k
      <4>1. PICK j \in 1..lb : i = la + j
        BY <3>2
      <4>2. j \in B
        BY <1>11, <4>1
      <4>3. PICK k \in 1..l : r[k] = j
        BY <1>8, <4>2 DEF Lists
      <4>4. m + k \in 1..(m + l)
        BY <1>7, <1>8
      <4> QED BY <1>9, <4>1, <4>3, <4>4
    <3> QED BY <1>12, <3>1, <3>2
  <2>3. ASSUME NEW j \in 1..(m + l), NEW k \in 1..(m + l), j < k PROVE t[j] < t[k]
    <3>1. CASE j \in 1..m /\ k \in 1..m
      BY <1>7, <1>9, <2>3, <3>1 DEF Lists
    <3>2. CASE j \in 1..m /\ k \notin 1..m
      <4>1. PICK i \in 1..l : k = m + i
        BY <1>10, <3>2
      <4>2. t[j] \in 1..la /\ t[k] = la + r[i] /\ r[i] \in 1..lb
        BY <1>9, <3>2, <4>1
      <4> QED BY <1>2, <4>2
    <3>3. CASE j \notin 1..m
      <4>1. PICK h \in 1..l : j = m + h
        BY <1>10, <3>3
      <4>2. k \notin 1..m
        BY <1>7, <2>3, <3>3
      <4>3. PICK i \in 1..l : k = m + i
        BY <1>10, <4>2
      <4>4. h < i
        BY <1>7, <1>8, <2>3, <4>1, <4>3
      <4>5. r[h] < r[i] /\ r[h] \in 1..lb /\ r[i] \in 1..lb
        BY <1>8, <4>4 DEF Lists
      <4>6. t[j] = la + r[h] /\ t[k] = la + r[i]
        BY <1>9, <4>1, <4>3
      <4> QED BY <1>2, <4>5, <4>6
    <3> QED BY <3>1, <3>2, <3>3
  <2> QED BY <2>1, <2>2, <2>3 DEF Lists
<1>14. c \in Bodies(E) /\ m + l \in Nat
  BY <1>1, <1>4, <1>7, <1>8
<1>15. ResolvedBody(c, drop, keep, sel) = [k \in 1..(m + l) |-> Unwrapped(c[t[k]], keep, sel)]
  BY <1>5, <1>13, <1>14, ResolvedBodyOnly
<1>16. x \in Seq(I) /\ y \in Seq(I)
  BY <1>1, <1>6, ResolvedBodyIs
<1>17. PICK z : z = x \o y
  OBVIOUS
<1>18. /\ z \in Seq(I) /\ Len(z) = m + l /\ DOMAIN z = 1..(m + l)
       /\ \A k \in 1..m : z[k] = x[k]
       /\ \A k \in 1..l : z[m + k] = y[k]
  BY <1>7, <1>8, <1>16, <1>17
<1>19. \A k \in 1..(m + l) : z[k] = Unwrapped(c[t[k]], keep, sel)
  <2> TAKE k \in 1..(m + l)
  <2>1. CASE k \in 1..m
    <3>1. z[k] = x[k] /\ x[k] = Unwrapped(a[q[k]], keep, sel) /\ t[k] = q[k] /\ q[k] \in 1..la
      BY <1>7, <1>9, <1>18, <2>1
    <3>2. c[t[k]] = a[q[k]]
      BY <1>4, <3>1
    <3> QED BY <3>1, <3>2
  <2>2. CASE \E i \in 1..l : k = m + i
    <3>1. PICK i \in 1..l : k = m + i
      BY <2>2
    <3>2. z[k] = y[i] /\ y[i] = Unwrapped(b[r[i]], keep, sel) /\ t[k] = la + r[i] /\ r[i] \in 1..lb
      BY <1>8, <1>9, <1>18, <3>1
    <3>3. c[t[k]] = b[r[i]]
      BY <1>4, <3>2
    <3> QED BY <3>2, <3>3
  <2> QED BY <1>10, <2>1, <2>2
<1>20. z = [k \in 1..(m + l) |-> Unwrapped(c[t[k]], keep, sel)]
  <2>1. z = [k \in 1..(m + l) |-> z[k]]
    BY <1>18
  <2> QED BY <1>19, <2>1
<1> QED BY <1>3, <1>6, <1>15, <1>17, <1>20

(* What resolving leaves: links, and what was not selected.                *)
LeftOf(E, sel) == {e \in E : e.kind = "link" \/ e.id \notin sel}

Kinds(drop, keep) == {drop, keep} = {"ins", "del"}

LEMMA UnwrappedLeaves ==
  ASSUME NEW E, \A e \in E : e.kind \in {"ins", "del", "link"}, NEW item \in ItemsIn(E),
         NEW drop, NEW keep, Kinds(drop, keep), NEW sel, ~Gone(item, drop, keep, sel)
  PROVE  Unwrapped(item, keep, sel) \in ItemsIn(LeftOf(E, sel))
<1>1. PICK z : z = Unwrapped(item, keep, sel)
  OBVIOUS
<1>2. z \in ItemsIn(E) /\ \A k \in DOMAIN z.in : \E i \in DOMAIN item.in :
              z.in[k] = item.in[i] /\ StaysAround(item.in[i], keep, sel)
  BY <1>1, UnwrappedIs, UnwrappedHolds
<1>3. PICK in, y : in = item.in /\ in \in Seq(E) /\ y = z.in /\ y \in Seq(E)
  BY <1>2 DEF ItemsIn
<1>4. PICK n \in Nat : n = Len(y) /\ DOMAIN y = 1..n /\ y = [k \in 1..n |-> y[k]]
  BY <1>3, LenProperties
<1>5. \A k \in 1..n : y[k] \in LeftOf(E, sel)
  <2> TAKE k \in 1..n
  <2>1. PICK i \in DOMAIN in : y[k] = in[i] /\ StaysAround(in[i], keep, sel)
    BY <1>2, <1>3, <1>4
  <2>2. in[i] \in E
    BY <1>3, ElementOfSeq, LenProperties
  <2>3. ~(in[i].kind = drop /\ in[i].id \in sel)
    BY <1>3 DEF Gone
  <2> QED BY <2>1, <2>2, <2>3 DEF StaysAround, LeftOf, Kinds
<1>6. y \in Seq(LeftOf(E, sel))
  BY <1>4, <1>5, FunctionIsSeq
<1> QED BY <1>1, <1>2, <1>3, <1>6 DEF ItemsIn

LEMMA ResolvedBodyLeaves ==
  ASSUME NEW E, \A e \in E : e.kind \in {"ins", "del", "link"}, NEW body \in Bodies(E),
         NEW drop, NEW keep, Kinds(drop, keep), NEW sel
  PROVE  ResolvedBody(body, drop, keep, sel) \in Bodies(LeftOf(E, sel))
<1>1. PICK I : I = ItemsIn(E) /\ body \in Seq(I)
  BY DEF Bodies, ItemsIn, Toks
<1>2. PICK J : J = ItemsIn(LeftOf(E, sel)) /\ Bodies(LeftOf(E, sel)) = Seq(J)
  BY DEF Bodies, ItemsIn, Toks
<1>3. PICK z : z = ResolvedBody(body, drop, keep, sel)
  OBVIOUS
<1>7. PICK m, q : ResolvesTo(z, m, q, body, drop, keep, sel)
  BY <1>3, ResolvedBodyIs
<1>4. /\ m \in Nat /\ Lists(q, m, Staying(body, drop, keep, sel))
      /\ \A k \in 1..m : q[k] \in 1..Len(body)
      /\ z = [k \in 1..m |-> Unwrapped(body[q[k]], keep, sel)]
  BY <1>7 DEF ResolvesTo
<1>5. \A k \in 1..m : Unwrapped(body[q[k]], keep, sel) \in J
  <2> TAKE k \in 1..m
  <2>1. body[q[k]] \in ItemsIn(E)
    BY <1>1, <1>4, ElementOfSeq
  <2>2. ~Gone(body[q[k]], drop, keep, sel)
    BY <1>4 DEF Lists, Staying
  <2> QED BY <1>2, <2>1, <2>2, UnwrappedLeaves
<1>6. z \in [1..m -> J]
  BY <1>4, <1>5
<1> QED BY <1>2, <1>3, <1>4, <1>6, FunctionIsSeq

(***************************************************************************)
(* Joining paragraphs                                                      *)
(***************************************************************************)

Started == [done |-> <<>>, carry |-> <<>>, last |-> <<>>]

(* The merge follows its rules: the recursive function exists.             *)
LEMMA MergeIsOne ==
  ASSUME NEW doc, NEW joins, Len(doc) \in Nat
  PROVE  IsMerge(MergedUpTo(doc, joins), doc, joins)
<1> DEFINE by(u) == [j \in 0..Len(doc) |-> IF j = 0 THEN Started
                                           ELSE MergedNext(u[j - 1], doc[j], joins)]
           Follows(w, i) == /\ w[0] = Started
                            /\ \A j \in 1..i : w[j] = MergedNext(w[j - 1], doc[j], joins)
           G == {i \in 0..Len(doc) : \E w : Follows(w, i)}
           m == MergedUpTo(doc, joins)
<1>1. PICK n \in Nat : n = Len(doc)
  OBVIOUS
<1>2. 0 \in G
  <2> DEFINE w == [j \in {0} |-> Started]
  <2>1. w[0] = Started
    BY Zenon
  <2> HIDE DEF w
  <2>2. Follows(w, 0)
    BY <2>1
  <2> QED BY <1>1, <2>2
<1>3. ASSUME NEW i \in 1..n, i - 1 \in G PROVE i \in G
  <2>1. PICK u : Follows(u, i - 1)
    BY <1>3
  <2> DEFINE w == [j \in 0..i |-> IF j = i THEN MergedNext(u[i - 1], doc[i], joins) ELSE u[j]]
  <2>2. /\ \A j \in 0..(i - 1) : w[j] = u[j]
        /\ w[i] = MergedNext(u[i - 1], doc[i], joins)
    OBVIOUS
  <2> HIDE DEF w
  <2>3. w[0] = Started
    BY <2>1, <2>2
  <2>4. \A j \in 1..i : w[j] = MergedNext(w[j - 1], doc[j], joins)
    <3> TAKE j \in 1..i
    <3>1. j - 1 \in 0..(i - 1) /\ w[j - 1] = u[j - 1]
      BY <2>2
    <3>2. CASE j = i
      BY <2>2, <3>1, <3>2
    <3>3. CASE j # i
      <4>1. j \in 1..(i - 1) /\ j \in 0..(i - 1)
        BY <3>3
      <4> QED BY <2>1, <2>2, <3>1, <4>1
    <3> QED BY <3>2, <3>3
  <2> QED BY <1>1, <2>3, <2>4
<1>4. n \in G
  <2>1. \A i \in 0..n : i \in G
    <3> HIDE DEF G
    <3> QED BY <1>2, <1>3, InductionUpTo
  <2>2. n \in 0..n
    OBVIOUS
  <2> HIDE DEF G
  <2> QED BY <2>1, <2>2
<1>5. PICK u : Follows(u, n)
  BY <1>4
<1> DEFINE w == [j \in 0..n |-> u[j]]
<1>6. w = by(w)
  <2>1. \A j \in 0..n : w[j] = u[j]
    OBVIOUS
  <2>2. \A j \in 0..n : w[j] = IF j = 0 THEN Started ELSE MergedNext(w[j - 1], doc[j], joins)
    <3> TAKE j \in 0..n
    <3>1. CASE j = 0
      BY <1>5, <2>1, <3>1
    <3>2. CASE j # 0
      <4>1. j \in 1..n /\ j - 1 \in 0..n
        BY <3>2
      <4> HIDE DEF w
      <4> QED BY <1>5, <2>1, <3>2, <4>1
    <3> QED BY <3>1, <3>2
  <2>3. w = [j \in 0..n |-> w[j]]
    OBVIOUS
  <2> HIDE DEF w
  <2> QED BY <1>1, <2>2, <2>3
<1>7. m = CHOOSE x : x = by(x)
  BY DEF MergedUpTo, Started
<1> HIDE DEF m, w
<1>8. m = by(m)
  <2> HIDE DEF by
  <2> QED BY <1>6, <1>7
<1>9. m = [j \in 0..n |-> m[j]]
  BY <1>1, <1>8
<1>10. m[0] = Started
  BY <1>1, <1>8
<1>11. \A j \in 1..n : m[j] = MergedNext(m[j - 1], doc[j], joins)
  BY <1>1, <1>8
<1> QED BY <1>1, <1>9, <1>10, <1>11 DEF IsMerge, m, Started

(* A paragraph behind what the merge carries. *)
Behind(carry, p) == [p EXCEPT !.body = carry \o @]

LEMMA BehindIs ==
  ASSUME NEW E, NEW p \in ParagraphsIn(E), NEW carry \in Bodies(E)
  PROVE  /\ Behind(carry, p) \in ParagraphsIn(E)
         /\ Behind(carry, p) = [id |-> p.id, mark |-> p.mark, body |-> carry \o p.body]
<1>1. PICK id, mark, body :
         /\ p = [id |-> id, mark |-> mark, body |-> body] /\ id \in Nat /\ mark \in Marks(E)
         /\ body \in Bodies(E)
  BY DEF ParagraphsIn
<1>2. PICK b : b = carry \o body
  OBVIOUS
<1>3. b \in Bodies(E)
  BY <1>1, <1>2, ConcatProperties DEF Bodies
<1>4. Behind(carry, p) = [id |-> id, mark |-> mark, body |-> b]
  <2>1. Behind(carry, p) = [p EXCEPT !.body = b]
    BY <1>1, <1>2 DEF Behind
  <2> QED BY <1>1, <2>1
<1>5. Behind(carry, p) \in ParagraphsIn(E)
  BY <1>1, <1>3, <1>4 DEF ParagraphsIn
<1>6. p.id = id /\ p.mark = mark /\ p.body = body
  BY <1>1
<1> QED BY <1>2, <1>4, <1>5, <1>6

(* One step of the merge.                                                  *)
Stages(E) == [done : Documents(E), carry : Bodies(E), last : Documents(E)]

LEMMA NextStage ==
  ASSUME NEW E, NEW s \in Stages(E), NEW p \in ParagraphsIn(E), NEW joins
  PROVE  LET q == Behind(s.carry, p)
             t == MergedNext(s, p, joins)
         IN /\ t \in Stages(E)
            /\ p.id \in joins => t.done = s.done /\ t.carry = q.body /\ t.last = <<q>>
            /\ p.id \notin joins => t.done = Append(s.done, q) /\ t.carry = <<>> /\ t.last = <<>>
<1>1. PICK q, done, carry, last, t :
         /\ q = Behind(s.carry, p) /\ done = s.done /\ carry = s.carry /\ last = s.last
         /\ t = MergedNext(s, p, joins)
  OBVIOUS
<1>2. /\ s = [done |-> done, carry |-> carry, last |-> last]
      /\ done \in Documents(E) /\ carry \in Bodies(E) /\ last \in Documents(E)
  BY <1>1 DEF Stages
<1>3. q \in ParagraphsIn(E) /\ q.body \in Bodies(E)
  <2>1. q \in ParagraphsIn(E)
    BY <1>1, <1>2, BehindIs
  <2> QED BY <2>1 DEF ParagraphsIn
<1>4. /\ p.id \in joins => t = [s EXCEPT !.carry = q.body, !.last = <<q>>]
      /\ p.id \notin joins => t = [done |-> Append(done, q), carry |-> <<>>, last |-> <<>>]
  BY <1>1 DEF MergedNext, Behind
<1>5. [s EXCEPT !.carry = q.body, !.last = <<q>>] = [done |-> done, carry |-> q.body, last |-> <<q>>]
  <2>1. PICK x, y : x = q.body /\ y = <<q>>
    OBVIOUS
  <2>2. PICK z : z = [s EXCEPT !.carry = x, !.last = y]
    OBVIOUS
  <2>3. DOMAIN z = {"done", "carry", "last"} /\ z = [k \in {"done", "carry", "last"} |-> z[k]]
    BY <1>2, <2>2
  <2>4. z.done = done /\ z.carry = x /\ z.last = y
    BY <1>2, <2>2
  <2>5. z = [done |-> done, carry |-> x, last |-> y]
    BY <2>3, <2>4
  <2> QED BY <2>1, <2>2, <2>5
<1>6. <<q>> \in Documents(E) /\ Append(done, q) \in Documents(E) /\ <<>> \in Documents(E) /\ <<>> \in Bodies(E)
  <2>1. PICK P : P = ParagraphsIn(E) /\ Documents(E) = Seq(P) /\ q \in P /\ done \in Seq(P)
    BY <1>2, <1>3 DEF Documents, ParagraphsIn
  <2>2. <<q>> \in Seq(P) /\ Append(done, q) \in Seq(P) /\ <<>> \in Seq(P)
    BY <2>1
  <2> QED BY <2>1, <2>2 DEF Bodies
<1>7. p.id \in joins => t \in Stages(E) /\ t.done = done /\ t.carry = q.body /\ t.last = <<q>>
  BY <1>2, <1>3, <1>4, <1>5, <1>6 DEF Stages
<1>8. p.id \notin joins => t \in Stages(E) /\ t.done = Append(done, q) /\ t.carry = <<>> /\ t.last = <<>>
  <2>1. PICK x, y : x = Append(done, q) /\ y = <<>>
    OBVIOUS
  <2>2. p.id \notin joins => t = [done |-> x, carry |-> y, last |-> y]
    BY <1>4, <2>1
  <2>3. x \in Documents(E) /\ y \in Bodies(E) /\ y \in Documents(E)
    BY <1>6, <2>1
  <2>4. p.id \notin joins => t \in Stages(E) /\ t.done = x /\ t.carry = y /\ t.last = y
    BY <2>2, <2>3 DEF Stages
  <2> QED BY <2>1, <2>4
<1> QED BY <1>1, <1>7, <1>8

(* From stage s the merge goes to t with the paragraph p, which is q there. *)
Advances(s, t, p, q, joins) ==
  /\ q = Behind(s.carry, p)
  /\ p.id \in joins => t.done = s.done /\ t.carry = q.body /\ t.last = <<q>>
  /\ p.id \notin joins => t.done = Append(s.done, q) /\ t.carry = <<>> /\ t.last = <<>>

(* The merge, step by step.                                                *)
LEMMA MergeRuns ==
  ASSUME NEW E, NEW doc \in Documents(E), NEW joins, NEW u, u = MergedUpTo(doc, joins)
  PROVE  /\ u[0] = Started
         /\ \A j \in 0..Len(doc) : u[j] \in Stages(E)
         /\ \A j \in 1..Len(doc) :
              \E q \in ParagraphsIn(E) : Advances(u[j - 1], u[j], doc[j], q, joins)
<1>1. PICK n \in Nat : n = Len(doc)
  BY LenProperties DEF Documents
<1>2. /\ u[0] = Started
      /\ \A j \in 1..n : u[j] = MergedNext(u[j - 1], doc[j], joins)
  BY <1>1, MergeIsOne DEF IsMerge, Started
<1>3. \A j \in 1..n : doc[j] \in ParagraphsIn(E)
  <2> TAKE j \in 1..n
  <2>1. j \in DOMAIN doc
    BY <1>1, LenProperties DEF Documents
  <2> QED BY <2>1, ParagraphOf
<1> DEFINE G == {j \in 0..n : u[j] \in Stages(E)}
<1>4. 0 \in G
  <2>1. <<>> \in Documents(E) /\ <<>> \in Bodies(E)
    BY DEF Documents, Bodies
  <2>2. Started \in Stages(E)
    BY <2>1 DEF Started, Stages
  <2> QED BY <1>2, <2>2
<1>5. ASSUME NEW j \in 1..n, j - 1 \in G PROVE j \in G
  <2>1. PICK s, p : s = u[j - 1] /\ p = doc[j] /\ s \in Stages(E) /\ p \in ParagraphsIn(E)
    BY <1>3, <1>5
  <2>2. MergedNext(s, p, joins) \in Stages(E)
    BY <2>1, NextStage
  <2> QED BY <1>2, <2>1, <2>2
<1>6. \A j \in 0..n : u[j] \in Stages(E)
  <2>1. \A j \in 0..n : j \in G
    <3> HIDE DEF G
    <3> QED BY <1>4, <1>5, InductionUpTo
  <2> QED BY <2>1
<1>7. ASSUME NEW j \in 1..n
      PROVE  \E q \in ParagraphsIn(E) : Advances(u[j - 1], u[j], doc[j], q, joins)
  <2>1. PICK s, p, q, t : /\ s = u[j - 1] /\ p = doc[j] /\ q = Behind(s.carry, p) /\ t = u[j]
                          /\ s \in Stages(E) /\ p \in ParagraphsIn(E) /\ t = MergedNext(s, p, joins)
    <3>1. j - 1 \in 0..n
      OBVIOUS
    <3> QED BY <1>2, <1>3, <1>6, <3>1
  <2>2. /\ p.id \in joins => t.done = s.done /\ t.carry = q.body /\ t.last = <<q>>
        /\ p.id \notin joins => t.done = Append(s.done, q) /\ t.carry = <<>> /\ t.last = <<>>
    BY <2>1, NextStage
  <2>3. q \in ParagraphsIn(E)
    <3>1. s.carry \in Bodies(E)
      BY <2>1 DEF Stages
    <3> QED BY <2>1, <3>1, BehindIs
  <2>4. Advances(s, t, p, q, joins)
    BY <2>1, <2>2 DEF Advances
  <2> QED BY <2>1, <2>3, <2>4
<1> QED BY <1>1, <1>2, <1>6, <1>7

(* Appending to a document.                                                *)
LEMMA Appended ==
  ASSUME NEW E, NEW d \in Documents(E), NEW q \in ParagraphsIn(E)
  PROVE  LET t == Append(d, q)
         IN /\ t \in Documents(E) /\ Len(d) \in Nat /\ Len(t) = Len(d) + 1 /\ DOMAIN t = 1..(Len(d) + 1)
            /\ t[Len(d) + 1] = q
            /\ \A k \in 1..Len(d) : t[k] = d[k]
            /\ DOMAIN d = 1..Len(d)
<1>1. PICK P : P = ParagraphsIn(E) /\ Documents(E) = Seq(P)
  BY DEF Documents, ParagraphsIn
<1> QED BY <1>1, AppendProperties, LenProperties

(* What is done stays, and more is done.                                   *)
Continues(a, b) ==
  /\ Len(a) \in Nat /\ Len(b) \in Nat /\ Len(a) <= Len(b)
  /\ \A k \in 1..Len(a) : b[k] = a[k]

LEMMA DoneGrows ==
  ASSUME NEW E, NEW doc \in Documents(E), NEW joins, NEW u, u = MergedUpTo(doc, joins),
         NEW j \in 0..Len(doc), NEW i \in 0..j
  PROVE  Continues(u[i].done, u[j].done)
<1>1. PICK n \in Nat : n = Len(doc)
  BY LenProperties DEF Documents
<1>2. PICK h, c : h = [k \in 0..n |-> u[k].done] /\ c = [k \in 0..n |-> u[k].carry]
  OBVIOUS
<1>3. \A k \in 0..n : h[k] \in Documents(E) /\ h[k] = u[k].done
  <2>1. \A k \in 0..n : u[k] \in Stages(E)
    BY <1>1, MergeRuns
  <2> QED BY <1>2, <2>1 DEF Stages
<1>4. ASSUME NEW k \in 1..n
      PROVE  h[k] = h[k - 1] \/ \E q \in ParagraphsIn(E) : h[k] = Append(h[k - 1], q)
  <2>1. k - 1 \in 0..n /\ k \in 0..n
    OBVIOUS
  <2>2. u[k].done = u[k - 1].done \/ \E q \in ParagraphsIn(E) : u[k].done = Append(u[k - 1].done, q)
    <3>1. PICK q \in ParagraphsIn(E) : Advances(u[k - 1], u[k], doc[k], q, joins)
      BY <1>1, MergeRuns
    <3> QED BY <3>1 DEF Advances
  <2> QED BY <1>3, <2>1, <2>2
<1> DEFINE Grown(k) == /\ Len(h[i]) \in Nat /\ Len(h[k]) \in Nat /\ Len(h[i]) <= Len(h[k])
                       /\ \A l \in 1..Len(h[i]) : h[k][l] = h[i][l]
           G == {k \in 0..n : i <= k => Grown(k)}
<1>5. i \in 0..n
  BY <1>1
<1>6. Grown(i)
  <2>1. Len(h[i]) \in Nat
    BY <1>3, <1>5, LenProperties DEF Documents
  <2> QED BY <2>1
<1>7. 0 \in G
  <2>1. i <= 0 => i = 0
    BY <1>5
  <2> HIDE DEF Grown
  <2> QED BY <1>6, <2>1
<1>8. ASSUME NEW k \in 1..n, k - 1 \in G PROVE k \in G
  <2>1. k \in 0..n /\ k - 1 \in 0..n
    OBVIOUS
  <2>2. CASE i = k
    <3> HIDE DEF Grown
    <3> QED BY <1>6, <2>1, <2>2
  <2>3. CASE i < k
    <3>1. Grown(k - 1)
      <4>1. i <= k - 1
        BY <1>5, <2>3
      <4> HIDE DEF Grown
      <4> QED BY <1>8, <4>1
    <3>2. CASE h[k] = h[k - 1]
      BY <2>1, <3>1, <3>2
    <3>3. CASE \E q \in ParagraphsIn(E) : h[k] = Append(h[k - 1], q)
      <4>1. PICK q \in ParagraphsIn(E) : h[k] = Append(h[k - 1], q)
        BY <3>3
      <4>2. PICK a, b : a = h[k - 1] /\ b = h[k] /\ a \in Documents(E) /\ b = Append(a, q)
        BY <1>3, <2>1, <4>1
      <4>3. /\ Len(b) = Len(a) + 1 /\ Len(a) \in Nat /\ \A l \in 1..Len(a) : b[l] = a[l]
        BY <4>2, Appended
      <4>4. /\ Len(h[i]) \in Nat /\ Len(h[i]) <= Len(a) /\ \A l \in 1..Len(h[i]) : a[l] = h[i][l]
        BY <3>1, <4>2
      <4>5. Len(h[i]) <= Len(b) /\ Len(b) \in Nat /\ \A l \in 1..Len(h[i]) : b[l] = h[i][l]
        <5>1. \A l \in 1..Len(h[i]) : l \in 1..Len(a)
          BY <4>3, <4>4
        <5> QED BY <4>3, <4>4, <5>1
      <4>6. Grown(k)
        BY <4>2, <4>4, <4>5
      <4> HIDE DEF Grown
      <4> QED BY <2>1, <4>6
    <3> QED BY <1>4, <3>2, <3>3
  <2>4. CASE k < i
    <3>1. ~(i <= k)
      BY <1>5, <2>4
    <3> HIDE DEF Grown
    <3> QED BY <2>1, <3>1
  <2>5. i = k \/ i < k \/ k < i
    BY <1>5
  <2> QED BY <2>2, <2>3, <2>4, <2>5
<1>9. \A k \in 0..n : k \in G
  <2> HIDE DEF G
  <2> QED BY <1>7, <1>8, InductionUpTo
<1>10. j \in 0..n /\ i <= j
  BY <1>1
<1>11. Grown(j)
  <2> HIDE DEF Grown
  <2> QED BY <1>9, <1>10
<1>12. Continues(h[i], h[j])
  BY <1>11 DEF Continues
<1> QED BY <1>3, <1>5, <1>10, <1>12

(* The paragraphs of a merge were there, none twice, and there is one.     *)
OriginIn(d, doc, i, joins) ==
  \A k \in DOMAIN d : \E l \in 1..i : d[k].id = doc[l].id /\ doc[l].id \notin joins

LEMMA DoneOrigin ==
  ASSUME NEW E, NEW doc \in Documents(E), DistinctIds(doc), NEW joins, NEW u, u = MergedUpTo(doc, joins)
  PROVE  \A j \in 0..Len(doc) : DistinctIds(u[j].done) /\ OriginIn(u[j].done, doc, j, joins)
<1>1. PICK n \in Nat : n = Len(doc) /\ DOMAIN doc = 1..n
  BY LenProperties DEF Documents
<1> DEFINE G == {j \in 0..n : DistinctIds(u[j].done) /\ OriginIn(u[j].done, doc, j, joins)}
<1>2. 0 \in G
  <2>1. u[0].done = <<>>
    BY MergeRuns DEF Started
  <2> QED BY <2>1 DEF DistinctIds, OriginIn
<1>3. ASSUME NEW j \in 1..n, j - 1 \in G PROVE j \in G
  <2>1. PICK q \in ParagraphsIn(E) : Advances(u[j - 1], u[j], doc[j], q, joins)
    BY <1>1, MergeRuns
  <2>2. PICK s, t, p : s = u[j - 1] /\ t = u[j] /\ p = doc[j] /\ s \in Stages(E)
    <3>1. j - 1 \in 0..n
      OBVIOUS
    <3> QED BY <1>1, <3>1, MergeRuns
  <2>3. DistinctIds(s.done) /\ OriginIn(s.done, doc, j - 1, joins)
    BY <1>3, <2>2
  <2>4. j \in 0..n /\ \A l \in 1..(j - 1) : l \in 1..j /\ l \in 1..n /\ l # j
    OBVIOUS
  <2>5. CASE p.id \in joins
    <3>1. t.done = s.done
      BY <2>1, <2>2, <2>5 DEF Advances
    <3>2. OriginIn(s.done, doc, j, joins)
      BY <2>3, <2>4 DEF OriginIn
    <3> QED BY <2>2, <2>3, <2>4, <3>1, <3>2
  <2>6. CASE p.id \notin joins
    <3>1. PICK a, b : a = s.done /\ b = t.done /\ a \in Documents(E) /\ b = Append(a, q)
      BY <2>1, <2>2, <2>6 DEF Advances, Stages
    <3>2. PICK m \in Nat : m = Len(a) /\ DOMAIN a = 1..m /\ DOMAIN b = 1..(m + 1) /\ b[m + 1] = q
                           /\ \A k \in 1..m : b[k] = a[k]
      <4>1. PICK m : m = Len(a)
        OBVIOUS
      <4>2. /\ m \in Nat /\ DOMAIN a = 1..m /\ DOMAIN b = 1..(m + 1) /\ b[m + 1] = q
            /\ \A k \in 1..m : b[k] = a[k]
        BY <3>1, <4>1, Appended
      <4> QED BY <4>1, <4>2
    <3>3. q.id = p.id /\ p.id = doc[j].id
      <4>1. p \in ParagraphsIn(E) /\ s.carry \in Bodies(E)
        BY <1>1, <2>2, ParagraphOf DEF Stages
      <4>2. Behind(s.carry, p) = [id |-> p.id, mark |-> p.mark, body |-> s.carry \o p.body]
        BY <4>1, BehindIs
      <4> QED BY <2>1, <2>2, <4>2 DEF Advances
    <3>4. \A k \in 1..m : a[k].id # p.id
      <4> SUFFICES ASSUME NEW k \in 1..m, a[k].id = p.id PROVE FALSE
        OBVIOUS
      <4>1. PICK l \in 1..(j - 1) : a[k].id = doc[l].id
        BY <2>3, <3>1, <3>2 DEF OriginIn
      <4> QED BY <1>1, <2>4, <3>3, <4>1 DEF DistinctIds
    <3>5. \A k \in 1..(m + 1) : k = m + 1 \/ k \in 1..m
      OBVIOUS
    <3>6. DistinctIds(b)
      <4>1. \A i, k \in 1..m : a[i].id = a[k].id => i = k
        BY <2>3, <3>1, <3>2 DEF DistinctIds
      <4>2. \A i, k \in 1..(m + 1) : b[i].id = b[k].id => i = k
        BY <3>2, <3>3, <3>4, <3>5, <4>1
      <4> QED BY <3>2, <4>2 DEF DistinctIds
    <3>7. OriginIn(b, doc, j, joins)
      <4> SUFFICES ASSUME NEW k \in 1..(m + 1)
                   PROVE  \E l \in 1..j : b[k].id = doc[l].id /\ doc[l].id \notin joins
        BY <3>2 DEF OriginIn
      <4>1. CASE k = m + 1
        BY <2>6, <3>2, <3>3, <4>1
      <4>2. CASE k \in 1..m
        <5>1. \E l \in 1..(j - 1) : a[k].id = doc[l].id /\ doc[l].id \notin joins
          BY <2>3, <3>1, <3>2, <4>2 DEF OriginIn
        <5> QED BY <2>4, <3>2, <4>2, <5>1
      <4> QED BY <3>5, <4>1, <4>2
    <3> QED BY <2>2, <2>4, <3>1, <3>6, <3>7
  <2> QED BY <2>5, <2>6
<1>4. \A j \in 0..n : j \in G
  <2> HIDE DEF G
  <2> QED BY <1>2, <1>3, InductionUpTo
<1> QED BY <1>1, <1>4

(* The end of a merge.                                                     *)
LEMMA MergedIs ==
  ASSUME NEW E, NEW doc \in Documents(E), NEW joins, NEW end, end = MergedUpTo(doc, joins)[Len(doc)]
  PROVE  /\ end \in Stages(E)
         /\ Merged(doc, joins) = IF end.last # <<>> /\ (HasContent(end.carry) \/ end.done = <<>>)
                                 THEN end.done \o end.last ELSE end.done
         /\ Merged(doc, joins) \in Documents(E)
         /\ doc # <<>> => Merged(doc, joins) # <<>>
         /\ doc # <<>> /\ doc[Len(doc)].id \notin joins =>
              end.last = <<>> /\ end.carry = <<>> /\ Merged(doc, joins) = end.done
<1>1. PICK n \in Nat : n = Len(doc) /\ DOMAIN doc = 1..n
  BY LenProperties DEF Documents
<1>2. PICK P : P = ParagraphsIn(E) /\ Documents(E) = Seq(P)
  BY DEF Documents, ParagraphsIn
<1>3. end \in Stages(E)
  BY <1>1, MergeRuns
<1>4. PICK done, last : done = end.done /\ last = end.last /\ done \in Seq(P) /\ last \in Seq(P)
  BY <1>2, <1>3 DEF Stages
<1>5. Merged(doc, joins) = IF last # <<>> /\ (HasContent(end.carry) \/ done = <<>>)
                           THEN done \o last ELSE done
  BY <1>4 DEF Merged
<1>6. PICK both : both = done \o last
  OBVIOUS
<1>7. both \in Seq(P) /\ (done = <<>> => both = last)
  <2>1. both \in Seq(P)
    BY <1>4, <1>6
  <2>2. <<>> \o last = last
    BY <1>4, ConcatEmptySeq
  <2> QED BY <1>6, <2>1, <2>2
<1>8. Merged(doc, joins) \in Documents(E)
  BY <1>2, <1>4, <1>5, <1>6, <1>7
<1>9. doc # <<>> => n \in 1..n
  BY <1>1, <1>2, EmptySeq
<1>10. ASSUME doc # <<>>
       PROVE  \E q \in P : Advances(MergedUpTo(doc, joins)[n - 1], end, doc[n], q, joins)
  BY <1>1, <1>2, <1>9, <1>10, MergeRuns
<1>11. ASSUME doc # <<>>, doc[n].id \notin joins
       PROVE  end.last = <<>> /\ end.carry = <<>> /\ Merged(doc, joins) = end.done
  BY <1>4, <1>5, <1>10, <1>11 DEF Advances
<1>12. ASSUME doc # <<>> PROVE Merged(doc, joins) # <<>>
  <2>1. PICK q \in P : Advances(MergedUpTo(doc, joins)[n - 1], end, doc[n], q, joins)
    BY <1>10, <1>12
  <2>2. CASE doc[n].id \in joins
    <3>1. last # <<>>
      <4>1. last = <<q>>
        BY <1>4, <2>1, <2>2 DEF Advances
      <4> QED BY <4>1
    <3> QED BY <1>5, <1>6, <1>7, <3>1
  <2>3. CASE doc[n].id \notin joins
    <3>1. PICK s : s = MergedUpTo(doc, joins)[n - 1].done
      OBVIOUS
    <3>2. s \in Documents(E)
      <4>1. n - 1 \in 0..n
        BY <1>9, <1>12
      <4> QED BY <1>1, <3>1, <4>1, MergeRuns DEF Stages
    <3>3. done = Append(s, q)
      BY <1>4, <2>1, <2>3, <3>1 DEF Advances
    <3>4. Len(done) = Len(s) + 1 /\ Len(s) \in Nat
      BY <1>2, <3>2, <3>3, Appended
    <3>5. done # <<>>
      BY <3>4
    <3> QED BY <1>4, <1>11, <1>12, <2>3, <3>5
  <2> QED BY <2>2, <2>3
<1> QED BY <1>1, <1>3, <1>4, <1>5, <1>8, <1>11, <1>12

LEMMA MergedOrigin ==
  ASSUME NEW E, NEW doc \in Documents(E), DistinctIds(doc), NEW joins
  PROVE  /\ DistinctIds(Merged(doc, joins))
         /\ \A k \in DOMAIN Merged(doc, joins) : \E l \in 1..Len(doc) : Merged(doc, joins)[k].id = doc[l].id
<1>1. PICK n \in Nat : n = Len(doc) /\ DOMAIN doc = 1..n
  BY LenProperties DEF Documents
<1>2. PICK P : P = ParagraphsIn(E) /\ Documents(E) = Seq(P)
  BY DEF Documents, ParagraphsIn
<1>3. PICK u : u = MergedUpTo(doc, joins)
  OBVIOUS
<1>4. PICK end : end = u[n]
  OBVIOUS
<1>5. end \in Stages(E) /\ (Merged(doc, joins) = end.done \/ (end.last # <<>> /\ Merged(doc, joins) = end.done \o end.last))
  <2>1. end = MergedUpTo(doc, joins)[Len(doc)]
    BY <1>1, <1>3, <1>4
  <2> QED BY <2>1, MergedIs
<1>6. PICK a \in Documents(E) : a = end.done
  BY <1>5 DEF Stages
<1>7. DistinctIds(a) /\ OriginIn(a, doc, n, joins)
  <2>1. n \in 0..Len(doc)
    BY <1>1
  <2> QED BY <1>1, <1>3, <1>4, <1>6, <2>1, DoneOrigin
<1>8. PICK m \in Nat : m = Len(a) /\ DOMAIN a = 1..m
  BY <1>2, <1>6, LenProperties
<1>9. CASE Merged(doc, joins) = a
  BY <1>1, <1>7, <1>9 DEF OriginIn
<1>10. CASE end.last # <<>> /\ Merged(doc, joins) = end.done \o end.last
  <2>1. n # 0
    <3> SUFFICES ASSUME n = 0 PROVE FALSE
      OBVIOUS
    <3>1. end = Started
      BY <1>3, <1>4, MergeRuns
    <3> QED BY <1>10, <3>1 DEF Started
  <2>2. n \in 1..n
    BY <2>1
  <2>3. PICK q \in P : Advances(u[n - 1], end, doc[n], q, joins)
    BY <1>1, <1>2, <1>3, <1>4, <2>2, MergeRuns
  <2>4. doc[n].id \in joins /\ end.last = <<q>>
    BY <1>10, <2>3 DEF Advances
  <2>5. q.id = doc[n].id
    <3>1. PICK s, p : s = u[n - 1] /\ p = doc[n] /\ p \in ParagraphsIn(E) /\ s \in Stages(E)
      <4>1. n - 1 \in 0..n /\ n \in DOMAIN doc
        BY <1>1, <2>2
      <4> QED BY <1>1, <1>3, <4>1, MergeRuns, ParagraphOf
    <3>2. Behind(s.carry, p) = [id |-> p.id, mark |-> p.mark, body |-> s.carry \o p.body]
      BY <3>1, BehindIs DEF Stages
    <3> QED BY <2>3, <3>1, <3>2 DEF Advances
  <2>6. PICK b : b = a \o <<q>>
    OBVIOUS
  <2>7. DOMAIN b = 1..(m + 1) /\ b[m + 1] = q /\ \A k \in 1..m : b[k] = a[k]
    BY <1>2, <1>6, <1>8, <2>6
  <2>8. \A k \in 1..m : \E l \in 1..n : a[k].id = doc[l].id /\ doc[l].id \notin joins
    BY <1>7, <1>8 DEF OriginIn
  <2>9. \A k \in 1..m : a[k].id # q.id
    BY <2>4, <2>5, <2>8
  <2>10. \A k \in 1..(m + 1) : k = m + 1 \/ k \in 1..m
    OBVIOUS
  <2>11. \A i, k \in 1..m : a[i].id = a[k].id => i = k
    BY <1>7, <1>8 DEF DistinctIds
  <2>12. \A i, k \in 1..(m + 1) : b[i].id = b[k].id => i = k
    BY <2>7, <2>9, <2>10, <2>11
  <2>13. \A k \in 1..(m + 1) : \E l \in 1..n : b[k].id = doc[l].id
    BY <2>2, <2>5, <2>7, <2>8, <2>10
  <2>14. Merged(doc, joins) = b
    BY <1>6, <1>10, <2>4, <2>6
  <2> QED BY <1>1, <2>7, <2>12, <2>13, <2>14 DEF DistinctIds
<1> QED BY <1>5, <1>6, <1>9, <1>10

(***************************************************************************)
(* Resolving a document                                                    *)
(***************************************************************************)

(* What resolving makes of a paragraph is one.                             *)
LEMMA ResolvedIs ==
  ASSUME NEW E, NEW p \in ParagraphsIn(E), NEW drop, NEW keep, NEW sel
  PROVE  /\ Resolved(p, drop, keep, sel)
            = [id |-> p.id, mark |-> MarkLeft(p.mark, sel),
               body |-> ResolvedBody(p.body, drop, keep, sel)]
         /\ Resolved(p, drop, keep, sel) \in ParagraphsIn(E)
         /\ (\A e \in E : e.kind \in {"ins", "del", "link"}) /\ Kinds(drop, keep) =>
              Resolved(p, drop, keep, sel) \in ParagraphsIn(LeftOf(E, sel))
<1>1. PICK id, mark, body :
         /\ p = [id |-> id, mark |-> mark, body |-> body] /\ id \in Nat /\ mark \in Marks(E)
         /\ body \in Bodies(E)
  BY DEF ParagraphsIn
<1>2. p.id = id /\ p.mark = mark /\ p.body = body
  BY <1>1
<1>3. PICK left, out : left = MarkLeft(mark, sel) /\ out = ResolvedBody(body, drop, keep, sel)
  OBVIOUS
<1>4. Resolved(p, drop, keep, sel) = [p EXCEPT !.mark = left, !.body = out]
  BY <1>2, <1>3 DEF Resolved
<1>5. Resolved(p, drop, keep, sel) = [id |-> id, mark |-> left, body |-> out]
  BY <1>1, <1>4
<1>6. left \in Marks(E) /\ left \in Marks(LeftOf(E, sel))
  <2>1. mark \in SUBSET {e \in E : e.kind # "link"} /\ IsFiniteSet(mark)
    BY <1>1 DEF Marks
  <2>2. left \subseteq mark /\ IsFiniteSet(left)
    BY <1>3, <2>1, FS_Subset DEF MarkLeft
  <2>3. left \in SUBSET {e \in LeftOf(E, sel) : e.kind # "link"}
    BY <1>3, <2>1 DEF LeftOf, MarkLeft
  <2> QED BY <2>1, <2>2, <2>3 DEF Marks
<1>7. out \in Bodies(E)
  BY <1>1, <1>3, ResolvedBodyIs
<1>8. (\A e \in E : e.kind \in {"ins", "del", "link"}) /\ Kinds(drop, keep) => out \in Bodies(LeftOf(E, sel))
  BY <1>1, <1>3, ResolvedBodyLeaves
<1>9. Resolved(p, drop, keep, sel) \in ParagraphsIn(E)
  BY <1>1, <1>5, <1>6, <1>7 DEF ParagraphsIn
<1>10. (\A e \in E : e.kind \in {"ins", "del", "link"}) /\ Kinds(drop, keep) =>
          Resolved(p, drop, keep, sel) \in ParagraphsIn(LeftOf(E, sel))
  BY <1>1, <1>5, <1>6, <1>8 DEF ParagraphsIn
<1> QED BY <1>2, <1>3, <1>5, <1>9, <1>10

LEMMA EachResolvedIs ==
  ASSUME NEW E, NEW d \in Documents(E), NEW drop, NEW keep, NEW sel
  PROVE  LET z == EachResolved(d, drop, keep, sel)
         IN /\ z \in Documents(E) /\ Len(z) = Len(d) /\ DOMAIN z = DOMAIN d
            /\ Len(d) \in Nat /\ DOMAIN d = 1..Len(d)
            /\ \A j \in DOMAIN d : z[j] = Resolved(d[j], drop, keep, sel) /\ z[j].id = d[j].id
            /\ (\A e \in E : e.kind \in {"ins", "del", "link"}) /\ Kinds(drop, keep) =>
                 z \in Documents(LeftOf(E, sel))
            /\ DistinctIds(d) => DistinctIds(z)
            /\ d # <<>> => z # <<>>
<1>1. PICK P, Q : P = ParagraphsIn(E) /\ Documents(E) = Seq(P)
                  /\ Q = ParagraphsIn(LeftOf(E, sel)) /\ Documents(LeftOf(E, sel)) = Seq(Q)
  BY DEF Documents, ParagraphsIn
<1>2. PICK n \in Nat : n = Len(d) /\ DOMAIN d = 1..n
  BY <1>1, LenProperties
<1>3. PICK z : z = EachResolved(d, drop, keep, sel)
  OBVIOUS
<1>4. z = [j \in 1..n |-> Resolved(d[j], drop, keep, sel)]
  BY <1>2, <1>3 DEF EachResolved
<1>5. \A j \in 1..n : z[j] = Resolved(d[j], drop, keep, sel) /\ z[j].id = d[j].id /\ z[j] \in P
  <2> TAKE j \in 1..n
  <2>1. d[j] \in ParagraphsIn(E)
    BY <1>2, ParagraphOf
  <2>2. PICK p, r : p = d[j] /\ r = Resolved(p, drop, keep, sel) /\ z[j] = r
    BY <1>4
  <2>3. r.id = p.id /\ r \in ParagraphsIn(E)
    BY <2>1, <2>2, ResolvedIs
  <2> QED BY <1>1, <2>2, <2>3
<1>6. (\A e \in E : e.kind \in {"ins", "del", "link"}) /\ Kinds(drop, keep) => \A j \in 1..n : z[j] \in Q
  <2> SUFFICES ASSUME (\A e \in E : e.kind \in {"ins", "del", "link"}) /\ Kinds(drop, keep), NEW j \in 1..n
               PROVE  z[j] \in Q
    OBVIOUS
  <2>1. d[j] \in ParagraphsIn(E)
    BY <1>2, ParagraphOf
  <2> QED BY <1>1, <1>5, <2>1, ResolvedIs
<1>7. DOMAIN z = 1..n /\ z \in Seq(P) /\ Len(z) = n
  <2>1. z \in [1..n -> P]
    BY <1>4, <1>5
  <2> QED BY <2>1, FunctionIsSeq
<1>8. (\A e \in E : e.kind \in {"ins", "del", "link"}) /\ Kinds(drop, keep) => z \in Seq(Q)
  <2> SUFFICES ASSUME (\A e \in E : e.kind \in {"ins", "del", "link"}) /\ Kinds(drop, keep)
               PROVE  z \in Seq(Q)
    OBVIOUS
  <2>1. z \in [1..n -> Q]
    BY <1>4, <1>6
  <2> QED BY <2>1, FunctionIsSeq
<1>9. DistinctIds(d) => DistinctIds(z)
  BY <1>2, <1>5, <1>7 DEF DistinctIds
<1>10. d # <<>> => z # <<>>
  BY <1>1, <1>2, <1>7, EmptySeq
<1> QED BY <1>1, <1>2, <1>3, <1>5, <1>7, <1>8, <1>9, <1>10

(* Resolving leaves a document with what was not selected.                 *)
LEMMA ResolveLeaves ==
  ASSUME NEW E, \A e \in E : e.kind \in {"ins", "del", "link"}, NEW d \in Documents(E),
         NEW drop, NEW keep, Kinds(drop, keep), NEW sel
  PROVE  /\ Resolve(d, drop, keep, sel) \in Documents(LeftOf(E, sel))
         /\ d # <<>> => Resolve(d, drop, keep, sel) # <<>>
         /\ DistinctIds(d) =>
              /\ DistinctIds(Resolve(d, drop, keep, sel))
              /\ \A k \in DOMAIN Resolve(d, drop, keep, sel) :
                   \E j \in DOMAIN d : Resolve(d, drop, keep, sel)[k].id = d[j].id
<1>1. PICK z, joins : z = EachResolved(d, drop, keep, sel) /\ joins = JoinIds(d, drop, sel)
  OBVIOUS
<1>2. /\ z \in Documents(LeftOf(E, sel)) /\ Len(z) = Len(d) /\ DOMAIN d = 1..Len(d)
      /\ \A j \in DOMAIN d : z[j].id = d[j].id
      /\ DistinctIds(d) => DistinctIds(z)
      /\ d # <<>> => z # <<>>
  BY <1>1, EachResolvedIs
<1>3. PICK y : y = Merged(z, joins)
  OBVIOUS
<1>4. y = Resolve(d, drop, keep, sel)
  BY <1>1, <1>3, ResolveIs
<1>5. y \in Documents(LeftOf(E, sel)) /\ (d # <<>> => y # <<>>)
  BY <1>2, <1>3, MergedIs
<1>6. ASSUME DistinctIds(d)
      PROVE  DistinctIds(y) /\ \A k \in DOMAIN y : \E j \in DOMAIN d : y[k].id = d[j].id
  <2>1. DistinctIds(z)
    BY <1>2, <1>6
  <2>2. DistinctIds(y) /\ \A k \in DOMAIN y : \E j \in 1..Len(z) : y[k].id = z[j].id
    BY <1>2, <1>3, <2>1, MergedOrigin
  <2> QED BY <1>2, <2>2
<1> QED BY <1>4, <1>5, <1>6

(* In particular the revisions that are left were there, unselected.       *)
LEMMA RevisionsLeft ==
  ASSUME NEW E, \A e \in E : e.kind \in {"ins", "del", "link"}, NEW d \in Documents(E),
         NEW drop, NEW keep, Kinds(drop, keep), NEW sel
  PROVE  \A r \in Revisions(Resolve(d, drop, keep, sel)) : r \in Revisions(d) /\ r.id \notin sel
<1>1. PICK F : F = {e \in E : e.kind = "link" \/ e \in Revisions(d)}
  OBVIOUS
<1>2. d \in Documents(F)
  BY <1>1, HoldsItsRevisions
<1>3. \A e \in F : e.kind \in {"ins", "del", "link"}
  BY <1>1
<1>4. PICK y : y = Resolve(d, drop, keep, sel)
  OBVIOUS
<1>5. y \in Documents(LeftOf(F, sel))
  BY <1>2, <1>3, <1>4, ResolveLeaves
<1>6. Revisions(y) \subseteq {e \in LeftOf(F, sel) : e.kind # "link"}
  BY <1>5, RevisionsAreIn
<1> QED BY <1>1, <1>4, <1>6 DEF LeftOf

(* Which paragraphs join the next one.                                     *)
LEMMA JoinIdsAre ==
  ASSUME NEW E, NEW d \in Documents(E), DistinctIds(d), NEW drop, NEW sel, NEW j \in DOMAIN d
  PROVE  d[j].id \in JoinIds(d, drop, sel) <=> JoiningIn(d[j], drop, sel)
<1>1. ASSUME JoiningIn(d[j], drop, sel) PROVE d[j].id \in JoinIds(d, drop, sel)
  BY <1>1 DEF JoinIds, Range
<1>2. ASSUME d[j].id \in JoinIds(d, drop, sel) PROVE JoiningIn(d[j], drop, sel)
  <2>1. PICK k \in DOMAIN d : JoiningIn(d[k], drop, sel) /\ d[k].id = d[j].id
    BY <1>2 DEF JoinIds, Range
  <2> QED BY <2>1 DEF DistinctIds
<1> QED BY <1>1, <1>2

(***************************************************************************)
(* Resolving twice                                                         *)
(***************************************************************************)

LEMMA ParagraphInAnyOrder ==
  ASSUME NEW E, NEW p \in ParagraphsIn(E), NEW d1, NEW k1, NEW S, NEW d2, NEW k2, NEW T, S \cap T = {}
  PROVE  /\ Resolved(Resolved(p, d1, k1, S), d2, k2, T) = Resolved(Resolved(p, d2, k2, T), d1, k1, S)
         /\ JoiningIn(Resolved(p, d1, k1, S), d2, T) <=> JoiningIn(p, d2, T)
<1>1. PICK a, b : a = Resolved(p, d1, k1, S) /\ b = Resolved(p, d2, k2, T)
                  /\ a \in ParagraphsIn(E) /\ b \in ParagraphsIn(E)
  BY ResolvedIs
<1>2. /\ a.id = p.id /\ a.mark = MarkLeft(p.mark, S) /\ a.body = ResolvedBody(p.body, d1, k1, S)
      /\ b.id = p.id /\ b.mark = MarkLeft(p.mark, T) /\ b.body = ResolvedBody(p.body, d2, k2, T)
  BY <1>1, ResolvedIs
<1>3. ResolvedBody(a.body, d2, k2, T) = ResolvedBody(b.body, d1, k1, S)
  <2>1. p.body \in Bodies(E)
    BY DEF ParagraphsIn
  <2> QED BY <1>2, <2>1, BodyInAnyOrder
<1>4. MarkLeft(a.mark, T) = MarkLeft(b.mark, S)
  BY <1>2 DEF MarkLeft
<1>5. Resolved(a, d2, k2, T) = [id |-> a.id, mark |-> MarkLeft(a.mark, T),
                                body |-> ResolvedBody(a.body, d2, k2, T)]
  BY <1>1, ResolvedIs
<1>6. Resolved(b, d1, k1, S) = [id |-> b.id, mark |-> MarkLeft(b.mark, S),
                                body |-> ResolvedBody(b.body, d1, k1, S)]
  BY <1>1, ResolvedIs
<1>7. Resolved(a, d2, k2, T) = Resolved(b, d1, k1, S)
  BY <1>2, <1>3, <1>4, <1>5, <1>6, Zenon
<1>8. JoiningIn(a, d2, T) <=> JoiningIn(p, d2, T)
  BY <1>2 DEF JoiningIn, MarkLeft
<1> QED BY <1>1, <1>7, <1>8

LEMMA ParagraphAtOnce ==
  ASSUME NEW E, NEW p \in ParagraphsIn(E), NEW drop, NEW keep, NEW S, NEW T, S \cap T = {}
  PROVE  Resolved(Resolved(p, drop, keep, S), drop, keep, T) = Resolved(p, drop, keep, S \cup T)
<1>1. PICK a : a = Resolved(p, drop, keep, S) /\ a \in ParagraphsIn(E)
  BY ResolvedIs
<1>2. a.id = p.id /\ a.mark = MarkLeft(p.mark, S) /\ a.body = ResolvedBody(p.body, drop, keep, S)
  BY <1>1, ResolvedIs
<1>3. ResolvedBody(a.body, drop, keep, T) = ResolvedBody(p.body, drop, keep, S \cup T)
  <2>1. p.body \in Bodies(E)
    BY DEF ParagraphsIn
  <2> QED BY <1>2, <2>1, BodyAtOnce
<1>4. MarkLeft(a.mark, T) = MarkLeft(p.mark, S \cup T)
  BY <1>2 DEF MarkLeft
<1>5. Resolved(a, drop, keep, T) = [id |-> a.id, mark |-> MarkLeft(a.mark, T),
                                    body |-> ResolvedBody(a.body, drop, keep, T)]
  BY <1>1, ResolvedIs
<1>6. Resolved(p, drop, keep, S \cup T) = [id |-> p.id, mark |-> MarkLeft(p.mark, S \cup T),
                                           body |-> ResolvedBody(p.body, drop, keep, S \cup T)]
  BY ResolvedIs
<1> QED BY <1>1, <1>2, <1>3, <1>4, <1>5, <1>6, Zenon

(* A paragraph behind what is carried, resolved.                           *)
CarriedOver(x, a, b, p, drop, keep, sel) ==
  /\ Behind(x, Resolved(p, drop, keep, sel)) = Behind(a, Resolved(Behind(b, p), drop, keep, sel))
  /\ Behind(x, Resolved(p, drop, keep, sel)).body = a \o ResolvedBody(Behind(b, p).body, drop, keep, sel)
  /\ JoiningIn(Behind(b, p), drop, sel) <=> JoiningIn(p, drop, sel)

LEMMA ResolvedBehind ==
  ASSUME NEW E, NEW p \in ParagraphsIn(E), NEW a \in Bodies(E), NEW b \in Bodies(E),
         NEW drop, NEW keep, NEW sel
  PROVE  CarriedOver(a \o ResolvedBody(b, drop, keep, sel), a, b, p, drop, keep, sel)
<1>0. PICK x : x = a \o ResolvedBody(b, drop, keep, sel)
  OBVIOUS
<1>1. PICK q, r, y, z : /\ q = Behind(b, p) /\ r = Resolved(p, drop, keep, sel)
                        /\ y = Resolved(q, drop, keep, sel) /\ z = ResolvedBody(b, drop, keep, sel)
  OBVIOUS
<1>2. PICK body : body = p.body /\ body \in Bodies(E)
  BY DEF ParagraphsIn
<1>3. PICK out : out = ResolvedBody(body, drop, keep, sel)
  OBVIOUS
<1>4. q = [id |-> p.id, mark |-> p.mark, body |-> b \o body] /\ q \in ParagraphsIn(E)
  BY <1>1, <1>2, BehindIs
<1>5. r = [id |-> p.id, mark |-> MarkLeft(p.mark, sel), body |-> out] /\ r \in ParagraphsIn(E)
  BY <1>1, <1>2, <1>3, ResolvedIs
<1>6. y = [id |-> q.id, mark |-> MarkLeft(q.mark, sel), body |-> ResolvedBody(q.body, drop, keep, sel)]
      /\ y \in ParagraphsIn(E)
  <2>1. \A h \in ParagraphsIn(E) :
          /\ Resolved(h, drop, keep, sel) = [id |-> h.id, mark |-> MarkLeft(h.mark, sel),
                                             body |-> ResolvedBody(h.body, drop, keep, sel)]
          /\ Resolved(h, drop, keep, sel) \in ParagraphsIn(E)
    BY ResolvedIs
  <2> QED BY <1>1, <1>4, <2>1
<1>7. q.id = p.id /\ q.mark = p.mark /\ q.body = b \o body
  BY <1>4
<1>8. ResolvedBody(q.body, drop, keep, sel) = z \o out
  <2>1. ResolvedBody(b \o body, drop, keep, sel)
        = ResolvedBody(b, drop, keep, sel) \o ResolvedBody(body, drop, keep, sel)
    <3>1. \A c1, c2 \in Bodies(E) :
            ResolvedBody(c1 \o c2, drop, keep, sel)
            = ResolvedBody(c1, drop, keep, sel) \o ResolvedBody(c2, drop, keep, sel)
      BY ResolvedBodyJoined
    <3> QED BY <1>2, <3>1
  <2> QED BY <1>1, <1>3, <1>7, <2>1
<1>9. z \in Bodies(E) /\ out \in Bodies(E)
  BY <1>1, <1>2, <1>3, ResolvedBodyIs
<1>10. x = a \o z /\ x \in Bodies(E)
  BY <1>0, <1>1, <1>9, ConcatProperties DEF Bodies
<1>11. x \o out = a \o (z \o out)
  BY <1>9, <1>10, ConcatAssociative DEF Bodies
<1>12. Behind(x, r) = [id |-> r.id, mark |-> r.mark, body |-> x \o r.body]
  BY <1>5, <1>10, BehindIs
<1>13. Behind(a, y) = [id |-> y.id, mark |-> y.mark, body |-> a \o y.body]
  BY <1>6, BehindIs
<1>14. r.id = p.id /\ r.mark = MarkLeft(p.mark, sel) /\ r.body = out
  BY <1>5
<1>15. y.id = p.id /\ y.mark = MarkLeft(p.mark, sel) /\ y.body = z \o out
  BY <1>6, <1>7, <1>8
<1>16. Behind(x, r) = Behind(a, y)
  BY <1>11, <1>12, <1>13, <1>14, <1>15, Zenon
<1>17. Behind(x, r).body = a \o ResolvedBody(q.body, drop, keep, sel)
  BY <1>8, <1>11, <1>12, <1>14
<1>18. JoiningIn(q, drop, sel) <=> JoiningIn(p, drop, sel)
  BY <1>7 DEF JoiningIn
<1>19. CarriedOver(x, a, b, p, drop, keep, sel)
  BY <1>1, <1>16, <1>17, <1>18 DEF CarriedOver
<1> QED BY <1>0, <1>19

(* Joining the paragraphs that are left of a resolution, resolved again,   *)
(* runs like joining all paragraphs with both resolved.                    *)
LEMMA MergedTwice ==
  ASSUME NEW E, NEW d \in Documents(E), d # <<>>, DistinctIds(d),
         NEW d1, NEW k1, NEW S, NEW d2, NEW k2, NEW T, S \cap T = {},
         NEW once, once = EachResolved(d, d1, k1, S), NEW joins, joins = JoinIds(d, d1, S),
         NEW left, left = MergedUpTo(once, joins)[Len(d)].done,
         MergedUpTo(once, joins)[Len(d)].carry = <<>>,
         NEW v, v = MergedUpTo(EachResolved(left, d2, k2, T), JoinIds(left, d2, T))[Len(left)],
         NEW w, w = MergedUpTo(EachResolved(once, d2, k2, T), joins \cup JoinIds(d, d2, T))[Len(d)]
  PROVE  /\ w.done = v.done /\ w.carry = v.carry
         /\ d[Len(d)].id \notin joins => w.last = v.last
<1>1. PICK n \in Nat : n = Len(d) /\ DOMAIN d = 1..n
  BY LenProperties DEF Documents
<1>2. n \in 1..n /\ n # 0
  BY <1>1, EmptySeq DEF Documents
<1>3. /\ once \in Documents(E) /\ Len(once) = n /\ DOMAIN once = 1..n /\ DistinctIds(once)
      /\ \A j \in 1..n : once[j] = Resolved(d[j], d1, k1, S) /\ once[j].id = d[j].id
  BY <1>1, EachResolvedIs
<1>4. PICK both : both = EachResolved(once, d2, k2, T)
  OBVIOUS
<1>5. /\ both \in Documents(E) /\ Len(both) = n
      /\ \A j \in 1..n : both[j] = Resolved(once[j], d2, k2, T) /\ both[j].id = d[j].id
  BY <1>3, <1>4, EachResolvedIs
<1>6. PICK u : u = MergedUpTo(once, joins)
  OBVIOUS
<1>7. \A j \in 0..n : u[j] \in Stages(E)
  BY <1>3, <1>6, MergeRuns
<1>8. left \in Documents(E) /\ left = u[n].done /\ u[n].carry = <<>>
  <2>1. n \in 0..n
    OBVIOUS
  <2> QED BY <1>1, <1>6, <1>7, <2>1 DEF Stages
<1>9. DistinctIds(left)
  <2>1. n \in 0..Len(once)
    BY <1>3
  <2> QED BY <1>3, <1>6, <1>8, <2>1, DoneOrigin
<1>10. PICK m \in Nat : m = Len(left) /\ DOMAIN left = 1..m
  BY <1>8, LenProperties DEF Documents
<1>11. PICK again, joins2 : again = EachResolved(left, d2, k2, T) /\ joins2 = JoinIds(left, d2, T)
  OBVIOUS
<1>12. /\ again \in Documents(E) /\ Len(again) = m
       /\ \A k \in 1..m : again[k] = Resolved(left[k], d2, k2, T) /\ again[k].id = left[k].id
  BY <1>8, <1>10, <1>11, EachResolvedIs
<1>13. PICK V, W, joins3 : V = MergedUpTo(again, joins2) /\ W = MergedUpTo(both, joins3)
                           /\ joins3 = joins \cup JoinIds(d, d2, T)
  OBVIOUS
<1>14. v = V[m] /\ w = W[n]
  BY <1>1, <1>4, <1>10, <1>11, <1>13
<1>15. (\A k \in 0..m : V[k] \in Stages(E)) /\ (\A j \in 0..n : W[j] \in Stages(E))
  BY <1>5, <1>12, <1>13, MergeRuns
<1>16. \A j \in 0..n : Len(u[j].done) \in 0..m /\ \A k \in 1..Len(u[j].done) : left[k] = u[j].done[k]
  <2> TAKE j \in 0..n
  <2>1. PICK l, i : l = n /\ i = j /\ l \in 0..Len(once) /\ i \in 0..l
    BY <1>3
  <2>2. Continues(u[i].done, u[l].done)
    BY <1>3, <1>6, <2>1, DoneGrows
  <2> QED BY <1>8, <1>10, <2>1, <2>2 DEF Continues
<1> DEFINE c(j) == Len(u[j].done)
           Sim(j) == /\ W[j].done = V[c(j)].done
                     /\ W[j].carry = V[c(j)].carry \o ResolvedBody(u[j].carry, d2, k2, T)
                     /\ j # 0 /\ once[j].id \notin joins => W[j].last = V[c(j)].last
           G == {j \in 0..n : Sim(j)}
<1>17. ResolvedBody(<<>>, d2, k2, T) = <<>> /\ <<>> \in Bodies(E)
  <2>1. <<>> \in Bodies(E)
    BY DEF Bodies
  <2>2. PICK l, r : ResolvesTo(ResolvedBody(<<>>, d2, k2, T), l, r, <<>>, d2, k2, T)
    BY <2>1, ResolvedBodyIs
  <2>3. l = 0
    <3> SUFFICES ASSUME l # 0 PROVE FALSE
      OBVIOUS
    <3>1. 1 \in 1..l /\ \A k \in 1..l : r[k] \in 1..Len(<<>>)
      BY <2>2 DEF ResolvesTo
    <3> QED BY <3>1
  <2>4. Len(ResolvedBody(<<>>, d2, k2, T)) = 0
    BY <2>2, <2>3 DEF ResolvesTo
  <2>5. ResolvedBody(<<>>, d2, k2, T) \in Bodies(E)
    BY <2>1, ResolvedBodyIs
  <2> QED BY <2>1, <2>4, <2>5, EmptySeq DEF Bodies
<1>18. 0 \in G
  <2>1. u[0] = Started /\ W[0] = Started /\ V[0] = Started
    BY <1>3, <1>5, <1>6, <1>12, <1>13, MergeRuns
  <2>2. Len(Started.done) = 0 /\ Started.carry = <<>> /\ <<>> \o <<>> = <<>>
    BY DEF Started
  <2>3. W[0].done = V[c(0)].done
    BY <2>1, <2>2
  <2>4. W[0].carry = V[c(0)].carry \o ResolvedBody(u[0].carry, d2, k2, T)
    BY <1>17, <2>1, <2>2
  <2> HIDE DEF c
  <2>5. Sim(0) /\ 0 \in 0..n
    BY <2>3, <2>4
  <2> QED BY <2>5
<1>19. ASSUME NEW j \in 1..n, j - 1 \in G PROVE j \in G
  <2>1. j - 1 \in 0..n /\ j \in 0..n /\ j # 0
    OBVIOUS
  <2>2. PICK s, t, p : /\ s = u[j - 1] /\ t = u[j] /\ p = once[j] /\ s \in Stages(E) /\ t \in Stages(E)
                       /\ p \in ParagraphsIn(E)
    BY <1>3, <1>7, <2>1, ParagraphOf
  <2>3. PICK q : q \in ParagraphsIn(E) /\ Advances(s, t, p, q, joins)
    BY <1>3, <1>6, <2>2, MergeRuns
  <2>4. PICK x, y, p2 : x = W[j - 1] /\ y = W[j] /\ p2 = both[j] /\ x \in Stages(E) /\ y \in Stages(E)
    BY <1>15, <2>1
  <2>5. PICK q2 : q2 \in ParagraphsIn(E) /\ Advances(x, y, p2, q2, joins3)
    BY <1>5, <1>13, <2>4, MergeRuns
  <2>6. p2 = Resolved(p, d2, k2, T) /\ p2.id = p.id /\ p.id = d[j].id
    BY <1>3, <1>5, <2>2, <2>4
  <2>7. PICK c0, z : /\ c0 = Len(s.done) /\ c0 \in 0..m /\ z = V[c0] /\ z \in Stages(E)
                     /\ x.done = z.done /\ x.carry = z.carry \o ResolvedBody(s.carry, d2, k2, T)
    <3>1. Sim(j - 1)
      BY <1>19
    <3>2. c(j - 1) \in 0..m /\ c(j - 1) = Len(s.done)
      BY <1>16, <2>1, <2>2
    <3> QED BY <1>15, <2>2, <2>4, <3>1, <3>2
  <2>8. s.carry \in Bodies(E) /\ z.carry \in Bodies(E) /\ x.carry \in Bodies(E)
    BY <2>2, <2>4, <2>7 DEF Stages
  <2>9. q = Behind(s.carry, p) /\ q2 = Behind(x.carry, p2)
    BY <2>3, <2>5 DEF Advances
  <2>10. /\ q2 = Behind(z.carry, Resolved(q, d2, k2, T))
         /\ q2.body = z.carry \o ResolvedBody(q.body, d2, k2, T)
         /\ JoiningIn(q, d2, T) <=> JoiningIn(p, d2, T)
    <3>1. PICK e, a, b : /\ e = x.carry /\ a = z.carry /\ b = s.carry /\ a \in Bodies(E) /\ b \in Bodies(E)
                         /\ e = a \o ResolvedBody(b, d2, k2, T)
      BY <2>7, <2>8
    <3>2. CarriedOver(a \o ResolvedBody(b, d2, k2, T), a, b, p, d2, k2, T)
      BY <2>2, <3>1, ResolvedBehind
    <3> QED BY <2>6, <2>9, <3>1, <3>2 DEF CarriedOver
  <2>11. CASE p.id \in joins
    <3>1. t.done = s.done /\ t.carry = q.body
      BY <2>3, <2>11 DEF Advances
    <3>2. y.done = x.done /\ y.carry = q2.body
      <4>1. p2.id \in joins3
        BY <1>13, <2>6, <2>11
      <4> QED BY <2>5, <4>1 DEF Advances
    <3>3. c(j) = c0 /\ V[c(j)] = z
      BY <2>2, <2>7, <3>1
    <3>4. W[j].done = V[c(j)].done
      BY <2>4, <2>7, <3>2, <3>3
    <3>5. W[j].carry = V[c(j)].carry \o ResolvedBody(u[j].carry, d2, k2, T)
      BY <2>2, <2>4, <2>10, <3>1, <3>2, <3>3
    <3> HIDE DEF c
    <3> QED BY <2>1, <2>2, <2>11, <3>4, <3>5
  <2>12. CASE p.id \notin joins
    <3>1. t.done = Append(s.done, q) /\ t.carry = <<>>
      BY <2>3, <2>12 DEF Advances
    <3>2. PICK a, b : a = s.done /\ b = t.done /\ a \in Documents(E) /\ b = Append(a, q) /\ c0 = Len(a)
      BY <2>2, <2>7, <3>1 DEF Stages
    <3>3. c0 \in Nat /\ Len(b) = c0 + 1 /\ b[c0 + 1] = q
      BY <2>3, <3>2, Appended
    <3>4. c(j) = c0 + 1 /\ c0 + 1 \in 1..m /\ left[c0 + 1] = q
      <4>1. Len(b) \in 0..m /\ \A k \in 1..Len(b) : left[k] = b[k]
        BY <1>16, <2>1, <2>2, <3>2
      <4>2. c(j) = Len(b)
        BY <2>2, <3>2
      <4>3. c0 + 1 \in 1..Len(b) /\ c0 + 1 \in 1..m
        BY <3>3, <4>1
      <4> HIDE DEF c
      <4> QED BY <3>3, <4>1, <4>2, <4>3
    <3>5. PICK k : k = c0 + 1 /\ k \in 1..m /\ k - 1 = c0 /\ c(j) = k /\ left[k] = q
      BY <3>3, <3>4
    <3>6. PICK z2, p3 : z2 = V[k] /\ p3 = again[k]
      OBVIOUS
    <3>7. PICK q3 : q3 \in ParagraphsIn(E) /\ Advances(z, z2, p3, q3, joins2)
      BY <1>12, <1>13, <2>7, <3>5, <3>6, MergeRuns
    <3>8. p3 = Resolved(q, d2, k2, T) /\ p3.id = q.id
      BY <1>12, <3>5, <3>6
    <3>9. q3 = q2
      BY <2>10, <3>7, <3>8 DEF Advances
    <3>10. p3.id \in joins2 <=> p2.id \in joins3
      <4>1. q.id \in joins2 <=> JoiningIn(q, d2, T)
        BY <1>8, <1>9, <1>10, <1>11, <3>5, JoinIdsAre
      <4>2. p.id \in JoinIds(d, d2, T) <=> JoiningIn(d[j], d2, T)
        BY <1>1, <2>6, JoinIdsAre
      <4>3. JoiningIn(p, d2, T) <=> JoiningIn(d[j], d2, T)
        <5>1. d[j] \in ParagraphsIn(E) /\ p = Resolved(d[j], d1, k1, S)
          BY <1>1, <1>3, <2>2, ParagraphOf
        <5> QED BY <5>1, ParagraphInAnyOrder
      <4> QED BY <1>13, <2>6, <2>10, <2>12, <3>8, <4>1, <4>2, <4>3
    <3>11. y.done = z2.done /\ y.carry = z2.carry /\ y.last = z2.last
      BY <2>5, <2>7, <3>7, <3>9, <3>10 DEF Advances
    <3>12. z2.carry \o ResolvedBody(t.carry, d2, k2, T) = z2.carry
      <4>1. z2 \in Stages(E)
        BY <1>15, <3>5, <3>6
      <4>2. z2.carry \o <<>> = z2.carry
        BY <4>1, ConcatEmptySeq DEF Stages, Bodies
      <4> QED BY <1>17, <3>1, <4>2
    <3>13. V[c(j)] = z2
      BY <3>5, <3>6
    <3>14. W[j].done = V[c(j)].done
      BY <2>4, <3>11, <3>13
    <3>15. W[j].carry = V[c(j)].carry \o ResolvedBody(u[j].carry, d2, k2, T)
      BY <2>2, <2>4, <3>11, <3>12, <3>13
    <3>16. W[j].last = V[c(j)].last
      BY <2>4, <3>11, <3>13
    <3> HIDE DEF c
    <3> QED BY <2>1, <3>14, <3>15, <3>16
  <2> QED BY <2>11, <2>12
<1>20. n \in G
  <2>1. \A j \in 0..n : j \in G
    <3> HIDE DEF G
    <3> QED BY <1>18, <1>19, InductionUpTo
  <2>2. n \in 0..n
    OBVIOUS
  <2> HIDE DEF G
  <2> QED BY <2>1, <2>2
<1>21. c(n) = m
  BY <1>8, <1>10
<1>22. /\ W[n].done = V[m].done
       /\ W[n].carry = V[m].carry \o ResolvedBody(u[n].carry, d2, k2, T)
       /\ once[n].id \notin joins => W[n].last = V[m].last
  <2> HIDE DEF c
  <2> QED BY <1>2, <1>20, <1>21
<1>23. V[m].carry \o <<>> = V[m].carry
  <2>1. m \in 0..m
    OBVIOUS
  <2>2. V[m].carry \in Bodies(E)
    BY <1>15, <2>1 DEF Stages
  <2> QED BY <2>2, ConcatEmptySeq DEF Bodies
<1> HIDE DEF G
<1> QED BY <1>1, <1>2, <1>3, <1>8, <1>14, <1>17, <1>22, <1>23

(* How the join ends, and what it makes of that.                           *)
End(doc, joins) == MergedUpTo(doc, joins)[Len(doc)]

OutOf(end) ==
  IF end.last # <<>> /\ (HasContent(end.carry) \/ end.done = <<>>)
  THEN end.done \o end.last ELSE end.done

LEMMA MergedOut == \A doc, joins : Merged(doc, joins) = OutOf(End(doc, joins))
BY DEF Merged, OutOf, End

LEMMA EndIs ==
  ASSUME NEW E, NEW doc \in Documents(E), doc # <<>>, NEW joins
  PROVE  /\ End(doc, joins) \in Stages(E)
         /\ doc[Len(doc)].id \in joins =>
              \E q \in ParagraphsIn(E) : End(doc, joins).last = <<q>> /\ q.body = End(doc, joins).carry
         /\ doc[Len(doc)].id \notin joins => End(doc, joins).last = <<>> /\ End(doc, joins).carry = <<>>
<1>1. PICK n : n = Len(doc) /\ n \in 1..n /\ n \in 0..n
  <2>1. Len(doc) \in Nat \ {0}
    BY EmptySeq DEF Documents
  <2> QED BY <2>1
<1>2. PICK u : u = MergedUpTo(doc, joins)
  OBVIOUS
<1>3. u[n] \in Stages(E)
  BY <1>1, <1>2, MergeRuns
<1>4. PICK q \in ParagraphsIn(E) : Advances(u[n - 1], u[n], doc[n], q, joins)
  BY <1>1, <1>2, MergeRuns
<1>5. u[n] = End(doc, joins)
  BY <1>1, <1>2 DEF End
<1> QED BY <1>1, <1>3, <1>4, <1>5 DEF Advances

(* Resolving S and then T: the two joins end alike.                        *)
EndsAlike(w, v) == w.done = v.done /\ w.carry = v.carry

EndOfBoth(d, d1, k1, S, d2, k2, T) ==
  End(EachResolved(EachResolved(d, d1, k1, S), d2, k2, T), JoinIds(d, d1, S) \cup JoinIds(d, d2, T))

EndOf(d, drop, keep, sel) == End(EachResolved(d, drop, keep, sel), JoinIds(d, drop, sel))

LEMMA ResolveOut == \A d, drop, keep, sel : Resolve(d, drop, keep, sel) = OutOf(EndOf(d, drop, keep, sel))
BY ResolveIs, MergedOut DEF EndOf

LEMMA EndsTwice ==
  ASSUME NEW E, NEW d \in Documents(E), d # <<>>, DistinctIds(d),
         NEW d1, NEW k1, NEW S, NEW d2, NEW k2, NEW T, S \cap T = {},
         NEW left, EndOf(d, d1, k1, S).done = left, EndOf(d, d1, k1, S).carry = <<>>, left \in Documents(E)
  PROVE  /\ EndsAlike(EndOfBoth(d, d1, k1, S, d2, k2, T), EndOf(left, d2, k2, T))
         /\ d[Len(d)].id \notin JoinIds(d, d1, S) =>
              EndOfBoth(d, d1, k1, S, d2, k2, T).last = EndOf(left, d2, k2, T).last
<1>1. PICK once : once = EachResolved(d, d1, k1, S) /\ Len(once) = Len(d) /\ once \in Documents(E)
  BY EachResolvedIs
<1>2. PICK joins : joins = JoinIds(d, d1, S)
  OBVIOUS
<1>3. left = MergedUpTo(once, joins)[Len(d)].done /\ MergedUpTo(once, joins)[Len(d)].carry = <<>>
  BY <1>1, <1>2 DEF EndOf, End
<1>4. Len(EachResolved(left, d2, k2, T)) = Len(left) /\ Len(EachResolved(once, d2, k2, T)) = Len(d)
  BY <1>1, EachResolvedIs
<1>5. PICK v : v = MergedUpTo(EachResolved(left, d2, k2, T), JoinIds(left, d2, T))[Len(left)]
  OBVIOUS
<1>6. PICK w : w = MergedUpTo(EachResolved(once, d2, k2, T), joins \cup JoinIds(d, d2, T))[Len(d)]
  OBVIOUS
<1>7. v = EndOf(left, d2, k2, T) /\ w = EndOfBoth(d, d1, k1, S, d2, k2, T)
  BY <1>1, <1>2, <1>4, <1>5, <1>6 DEF EndOf, EndOfBoth, End
<1>8. /\ w.done = v.done /\ w.carry = v.carry
      /\ d[Len(d)].id \notin joins => w.last = v.last
  BY <1>1, <1>2, <1>3, <1>5, <1>6, MergedTwice
<1> QED BY <1>2, <1>7, <1>8 DEF EndsAlike

(* Resolving S and then T is resolving both and joining once, when the     *)
(* last paragraph stays.                                                   *)
LEMMA ResolvedTwice ==
  ASSUME NEW E, NEW d \in Documents(E), d # <<>>, DistinctIds(d),
         NEW d1, NEW k1, NEW S, NEW d2, NEW k2, NEW T, S \cap T = {},
         d[Len(d)].id \notin JoinIds(d, d1, S)
  PROVE  Resolve(Resolve(d, d1, k1, S), d2, k2, T) = OutOf(EndOfBoth(d, d1, k1, S, d2, k2, T))
<1>1. PICK once : /\ once = EachResolved(d, d1, k1, S) /\ Len(once) = Len(d) /\ once \in Documents(E)
                  /\ once # <<>> /\ \A j \in DOMAIN d : once[j].id = d[j].id
  BY EachResolvedIs
<1>2. PICK joins : joins = JoinIds(d, d1, S)
  OBVIOUS
<1>3. Len(d) \in DOMAIN d
  BY LenProperties, EmptySeq DEF Documents
<1>4. once[Len(once)].id \notin joins
  BY <1>1, <1>2, <1>3
<1>5. PICK end : end = End(once, joins) /\ end \in Stages(E) /\ end.last = <<>> /\ end.carry = <<>>
  BY <1>1, <1>4, EndIs
<1>6. Resolve(d, d1, k1, S) = end.done /\ end = EndOf(d, d1, k1, S) /\ end.done \in Documents(E)
  <2>1. end = EndOf(d, d1, k1, S)
    BY <1>1, <1>2, <1>5 DEF EndOf
  <2>2. OutOf(end) = end.done
    BY <1>5 DEF OutOf
  <2> QED BY <1>5, <2>1, <2>2, ResolveOut DEF Stages
<1>7. PICK left : left = end.done /\ left \in Documents(E)
  BY <1>6
<1>8. PICK v, w : v = EndOf(left, d2, k2, T) /\ w = EndOfBoth(d, d1, k1, S, d2, k2, T)
  OBVIOUS
<1>9. EndsAlike(w, v) /\ w.last = v.last
  <2>1. EndOf(d, d1, k1, S).done = left /\ EndOf(d, d1, k1, S).carry = <<>>
    BY <1>5, <1>6, <1>7
  <2> QED BY <1>7, <1>8, <2>1, EndsTwice
<1>10. OutOf(w) = OutOf(v)
  BY <1>9 DEF EndsAlike, OutOf
<1> QED BY <1>6, <1>7, <1>8, <1>10, ResolveOut

LEMMA EachInAnyOrder ==
  ASSUME NEW E, NEW d \in Documents(E),
         NEW d1, NEW k1, NEW S, NEW d2, NEW k2, NEW T, S \cap T = {}
  PROVE  EndOfBoth(d, d1, k1, S, d2, k2, T) = EndOfBoth(d, d2, k2, T, d1, k1, S)
<1>1. PICK a, b : a = EachResolved(d, d1, k1, S) /\ b = EachResolved(d, d2, k2, T)
  OBVIOUS
<1>2. DOMAIN a = DOMAIN d /\ \A j \in DOMAIN d : a[j] = Resolved(d[j], d1, k1, S)
  BY <1>1 DEF EachResolved
<1>3. DOMAIN b = DOMAIN d /\ \A j \in DOMAIN d : b[j] = Resolved(d[j], d2, k2, T)
  BY <1>1 DEF EachResolved
<1>4. ASSUME NEW j \in DOMAIN d
      PROVE  Resolved(a[j], d2, k2, T) = Resolved(b[j], d1, k1, S)
  <2>1. d[j] \in ParagraphsIn(E)
    BY ParagraphOf
  <2>2. Resolved(Resolved(d[j], d1, k1, S), d2, k2, T) = Resolved(Resolved(d[j], d2, k2, T), d1, k1, S)
    BY <2>1, ParagraphInAnyOrder
  <2> QED BY <1>2, <1>3, <2>2
<1>5. EachResolved(a, d2, k2, T) = EachResolved(b, d1, k1, S)
  BY <1>2, <1>3, <1>4 DEF EachResolved
<1>6. JoinIds(d, d1, S) \cup JoinIds(d, d2, T) = JoinIds(d, d2, T) \cup JoinIds(d, d1, S)
  OBVIOUS
<1> QED BY <1>1, <1>5, <1>6 DEF EndOfBoth

(* Two selections are resolved in either order.                            *)
LEMMA ResolvedInEitherOrder ==
  ASSUME NEW E, NEW d \in Documents(E), d # <<>>, DistinctIds(d),
         NEW d1, NEW k1, NEW S, NEW d2, NEW k2, NEW T, S \cap T = {},
         d[Len(d)].id \notin JoinIds(d, d1, S), d[Len(d)].id \notin JoinIds(d, d2, T)
  PROVE  Resolve(Resolve(d, d1, k1, S), d2, k2, T) = Resolve(Resolve(d, d2, k2, T), d1, k1, S)
<1>1. Resolve(Resolve(d, d1, k1, S), d2, k2, T) = OutOf(EndOfBoth(d, d1, k1, S, d2, k2, T))
  BY ResolvedTwice
<1>2. Resolve(Resolve(d, d2, k2, T), d1, k1, S) = OutOf(EndOfBoth(d, d2, k2, T, d1, k1, S))
  BY ResolvedTwice
<1>3. EndOfBoth(d, d1, k1, S, d2, k2, T) = EndOfBoth(d, d2, k2, T, d1, k1, S)
  BY EachInAnyOrder
<1> QED BY <1>1, <1>2, <1>3

(* One kind of call on both selections is one call on their union.         *)
LEMMA EndsTogether ==
  ASSUME NEW E, NEW d \in Documents(E), NEW drop, NEW keep, NEW S, NEW T, S \cap T = {}
  PROVE  EndOf(d, drop, keep, S \cup T) = EndOfBoth(d, drop, keep, S, drop, keep, T)
<1>1. PICK a : a = EachResolved(d, drop, keep, S)
  OBVIOUS
<1>2. DOMAIN a = DOMAIN d /\ \A j \in DOMAIN d : a[j] = Resolved(d[j], drop, keep, S)
  BY <1>1 DEF EachResolved
<1>3. ASSUME NEW j \in DOMAIN d
      PROVE  Resolved(a[j], drop, keep, T) = Resolved(d[j], drop, keep, S \cup T)
  <2>1. d[j] \in ParagraphsIn(E)
    BY ParagraphOf
  <2>2. Resolved(Resolved(d[j], drop, keep, S), drop, keep, T) = Resolved(d[j], drop, keep, S \cup T)
    BY <2>1, ParagraphAtOnce
  <2> QED BY <1>2, <2>2
<1>4. EachResolved(a, drop, keep, T) = EachResolved(d, drop, keep, S \cup T)
  BY <1>2, <1>3 DEF EachResolved
<1>5. JoinIds(d, drop, S \cup T) = JoinIds(d, drop, S) \cup JoinIds(d, drop, T)
  BY DEF JoinIds, JoiningIn
<1> QED BY <1>1, <1>4, <1>5 DEF EndOf, EndOfBoth

(* Only the revisions of the document count.                               *)
AgreeOn(revs, S, T) == \A r \in revs : r.kind # "link" => (r.id \in S <=> r.id \in T)

LEMMA ItemsAgree ==
  ASSUME NEW E, NEW item \in ItemsIn(E), NEW drop, NEW keep, Kinds(drop, keep),
         NEW S, NEW T, AgreeOn(Range(item.in), S, T)
  PROVE  /\ Gone(item, drop, keep, S) <=> Gone(item, drop, keep, T)
         /\ Unwrapped(item, keep, S) = Unwrapped(item, keep, T)
<1>1. drop # "link" /\ keep # "link"
  BY DEF Kinds
<1>2. \A k \in DOMAIN item.in : item.in[k].kind # "link" => (item.in[k].id \in S <=> item.in[k].id \in T)
  BY DEF AgreeOn, Range
<1>3. item.in # <<>> => Last(item.in) = item.in[Len(item.in)] /\ Len(item.in) \in DOMAIN item.in
  <2>1. item.in \in Seq(E)
    BY DEF ItemsIn
  <2> QED BY <2>1, LenProperties, EmptySeq DEF Last
<1>4. Gone(item, drop, keep, S) <=> Gone(item, drop, keep, T)
  BY <1>1, <1>2, <1>3 DEF Gone
<1>5. {k \in DOMAIN item.in : ~(item.in[k].kind = keep /\ item.in[k].id \in S)}
      = {k \in DOMAIN item.in : ~(item.in[k].kind = keep /\ item.in[k].id \in T)}
  BY <1>1, <1>2
<1>6. Unwrapped(item, keep, S) = Unwrapped(item, keep, T)
  BY <1>5 DEF Unwrapped
<1> QED BY <1>4, <1>6

LEMMA BodiesAgree ==
  ASSUME NEW E, NEW body \in Bodies(E), NEW drop, NEW keep, Kinds(drop, keep),
         NEW S, NEW T, \A i \in DOMAIN body : AgreeOn(Range(body[i].in), S, T)
  PROVE  ResolvedBody(body, drop, keep, S) = ResolvedBody(body, drop, keep, T)
<1>1. body \in Seq(ItemsIn(E)) /\ Len(body) \in Nat /\ DOMAIN body = 1..Len(body)
  BY LenProperties DEF Bodies, ItemsIn, Toks
<1>2. ASSUME NEW i \in DOMAIN body
      PROVE  /\ Gone(body[i], drop, keep, S) <=> Gone(body[i], drop, keep, T)
             /\ Unwrapped(body[i], keep, S) = Unwrapped(body[i], keep, T)
  <2>1. body[i] \in ItemsIn(E)
    BY <1>1, ElementOfSeq
  <2>2. AgreeOn(Range(body[i].in), S, T)
    OBVIOUS
  <2> QED BY <2>1, <2>2, ItemsAgree
<1>3. Staying(body, drop, keep, S) = Staying(body, drop, keep, T)
  BY <1>2 DEF Staying
<1>4. PICK m, q : ResolvesTo(ResolvedBody(body, drop, keep, S), m, q, body, drop, keep, S)
  BY ResolvedBodyIs
<1>5. /\ m \in Nat /\ Lists(q, m, Staying(body, drop, keep, S))
      /\ \A k \in 1..m : q[k] \in 1..Len(body)
  BY <1>4 DEF ResolvesTo
<1>6. Lists(q, m, Staying(body, drop, keep, T))
  BY <1>3, <1>5
<1>7. ResolvedBody(body, drop, keep, S) = [k \in 1..m |-> Unwrapped(body[q[k]], keep, S)]
  BY <1>4 DEF ResolvesTo
<1>8. ResolvedBody(body, drop, keep, T) = [k \in 1..m |-> Unwrapped(body[q[k]], keep, T)]
  BY <1>5, <1>6, ResolvedBodyOnly
<1>9. \A k \in 1..m : Unwrapped(body[q[k]], keep, S) = Unwrapped(body[q[k]], keep, T)
  BY <1>1, <1>2, <1>5
<1> QED BY <1>7, <1>8, <1>9

LEMMA ResolutionsAgree ==
  ASSUME NEW E, NEW d \in Documents(E), NEW drop, NEW keep, Kinds(drop, keep),
         NEW S, NEW T, AgreeOn(Revisions(d), S, T)
  PROVE  EndOf(d, drop, keep, S) = EndOf(d, drop, keep, T)
<1>1. ASSUME NEW j \in DOMAIN d
      PROVE  /\ Resolved(d[j], drop, keep, S) = Resolved(d[j], drop, keep, T)
             /\ JoiningIn(d[j], drop, S) <=> JoiningIn(d[j], drop, T)
  <2>1. d[j] \in ParagraphsIn(E) /\ d[j].body \in Bodies(E)
    BY ParagraphOf DEF ParagraphsIn
  <2>2. \A r \in d[j].mark : r.id \in S <=> r.id \in T
    <3>1. \A r \in d[j].mark : r.kind # "link"
      BY <2>1 DEF ParagraphsIn, Marks
    <3>2. \A r \in d[j].mark : r \in Revisions(d)
      BY RevisionsAre
    <3> QED BY <3>1, <3>2 DEF AgreeOn
  <2>3. \A i \in DOMAIN d[j].body : AgreeOn(Range(d[j].body[i].in), S, T)
    <3>1. \A i \in DOMAIN d[j].body : \A r \in Range(d[j].body[i].in) : r.kind # "link" => r \in Revisions(d)
      BY RevisionsAre
    <3> QED BY <3>1 DEF AgreeOn
  <2>4. ResolvedBody(d[j].body, drop, keep, S) = ResolvedBody(d[j].body, drop, keep, T)
    BY <2>1, <2>3, BodiesAgree
  <2>5. MarkLeft(d[j].mark, S) = MarkLeft(d[j].mark, T)
    BY <2>2 DEF MarkLeft
  <2>6. Resolved(d[j], drop, keep, S) = Resolved(d[j], drop, keep, T)
    BY <2>1, <2>4, <2>5, ResolvedIs
  <2> QED BY <2>2, <2>6 DEF JoiningIn
<1>2. EachResolved(d, drop, keep, S) = EachResolved(d, drop, keep, T)
  BY <1>1 DEF EachResolved
<1>3. JoinIds(d, drop, S) = JoinIds(d, drop, T)
  <2>1. {q \in Range(d) : JoiningIn(q, drop, S)} = {q \in Range(d) : JoiningIn(q, drop, T)}
    BY <1>1 DEF Range
  <2> QED BY <2>1 DEF JoinIds
<1> QED BY <1>2, <1>3 DEF EndOf

(* Without a selection nothing is resolved.                                *)
LEMMA PickedAll ==
  ASSUME NEW T, NEW s \in Seq(T)
  PROVE  Picked(s, DOMAIN s) = s
<1>1. PICK n : n = Len(s) /\ n \in Nat /\ DOMAIN s = 1..n /\ s \in [1..n -> T]
  BY LenProperties
<1>2. PICK q : q = [k \in 1..n |-> k]
  OBVIOUS
<1>3. DOMAIN s \in SUBSET Nat /\ Lists(q, n, DOMAIN s)
  BY <1>1, <1>2 DEF Lists
<1>4. Picked(s, DOMAIN s) = [k \in 1..n |-> s[q[k]]]
  BY <1>1, <1>3, PickedIs
<1>5. \A k \in 1..n : s[q[k]] = s[k]
  BY <1>2
<1> QED BY <1>1, <1>4, <1>5

LEMMA ResolvedNone ==
  ASSUME NEW E, NEW body \in Bodies(E), NEW drop, NEW keep
  PROVE  ResolvedBody(body, drop, keep, {}) = body
<1>1. PICK n : n = Len(body) /\ n \in Nat /\ DOMAIN body = 1..n /\ body \in [1..n -> ItemsIn(E)]
  BY LenProperties DEF Bodies, ItemsIn, Toks
<1>2. PICK q : q = [k \in 1..n |-> k]
  OBVIOUS
<1>3. Staying(body, drop, keep, {}) = 1..n
  BY <1>1 DEF Staying, Gone
<1>4. Lists(q, n, Staying(body, drop, keep, {}))
  BY <1>1, <1>2, <1>3 DEF Lists
<1>5. ResolvedBody(body, drop, keep, {}) = [k \in 1..n |-> Unwrapped(body[q[k]], keep, {})]
  BY <1>1, <1>4, ResolvedBodyOnly
<1>6. ASSUME NEW k \in 1..n PROVE Unwrapped(body[q[k]], keep, {}) = body[k]
  <2>1. PICK item \in ItemsIn(E) : item = body[k] /\ item = body[q[k]]
    BY <1>1, <1>2
  <2>2. Unwrapped(item, keep, {}) = [item EXCEPT !.in = Picked(item.in, Around(item, keep, {}))]
    BY UnwrappedIs
  <2>3. Around(item, keep, {}) = DOMAIN item.in
    BY DEF Around, StaysAround
  <2>4. Picked(item.in, DOMAIN item.in) = item.in
    <3>1. item.in \in Seq(E)
      BY DEF ItemsIn
    <3> QED BY <3>1, PickedAll
  <2>5. [item EXCEPT !.in = item.in] = item
    BY DEF ItemsIn
  <2> QED BY <2>1, <2>2, <2>3, <2>4, <2>5
<1> QED BY <1>1, <1>5, <1>6

LEMMA NothingResolved ==
  ASSUME NEW drop, NEW keep, NEW sel
  PROVE  ResolvedBody(<<>>, drop, keep, sel) = <<>>
<1>1. PICK body, q, m : body = <<>> /\ q = <<>> /\ m = 0 /\ m \in Nat
  OBVIOUS
<1>2. Staying(body, drop, keep, sel) = {}
  BY <1>1 DEF Staying
<1>3. body \in Bodies({})
  BY <1>1, EmptySeq DEF Bodies
<1>4. Lists(q, m, Staying(body, drop, keep, sel))
  BY <1>1, <1>2 DEF Lists
<1>5. ResolvedBody(body, drop, keep, sel) = [k \in 1..m |-> Unwrapped(body[q[k]], keep, sel)]
  BY <1>1, <1>3, <1>4, ResolvedBodyOnly
<1> QED BY <1>1, <1>5

(***************************************************************************)
(* A tracked replacement, accepted, is the replacement without tracking    *)
(***************************************************************************)

Taken(body, sel) == ResolvedBody(body, "del", "ins", sel)

(* body, with the revisions in sel accepted, is from: q lists what stays.  *)
Takes(from, q, body, sel) ==
  /\ Len(from) \in Nat
  /\ q \in [1..Len(from) -> 1..Len(body)]
  /\ \A i, k \in 1..Len(from) : i < k => q[i] < q[k]
  /\ \A j \in 1..Len(body) : Gone(body[j], "del", "ins", sel) <=> ~\E k \in 1..Len(from) : q[k] = j
  /\ \A k \in 1..Len(from) : from[k] = Unwrapped(body[q[k]], "ins", sel)

LEMMA TakenIs ==
  ASSUME NEW E, NEW body \in Bodies(E), NEW sel
  PROVE  Taken(body, sel) \in Bodies(E) /\ \E q : Takes(Taken(body, sel), q, body, sel)
<1>1. PICK n : n = Len(body) /\ n \in Nat /\ DOMAIN body = 1..n
  BY LenProperties DEF Bodies
<1>2. PICK from : from = Taken(body, sel) /\ from \in Bodies(E)
  BY ResolvedBodyIs DEF Taken
<1>3. PICK m, q : ResolvesTo(from, m, q, body, "del", "ins", sel)
  BY <1>2, ResolvedBodyIs DEF Taken
<1>4. /\ m \in Nat /\ Len(from) = m
      /\ Lists(q, m, Staying(body, "del", "ins", sel))
      /\ \A k \in 1..m : q[k] \in 1..Len(body)
      /\ from = [k \in 1..m |-> Unwrapped(body[q[k]], "ins", sel)]
  BY <1>3 DEF ResolvesTo
<1>5. PICK h : h = [k \in 1..m |-> q[k]]
  OBVIOUS
<1>6. h \in [1..m -> 1..n] /\ \A k \in 1..m : h[k] = q[k]
  BY <1>1, <1>4, <1>5
<1>7. \A i, k \in 1..m : i < k => h[i] < h[k]
  BY <1>4, <1>6 DEF Lists
<1>8. \A j \in 1..n : Gone(body[j], "del", "ins", sel) <=> ~\E k \in 1..m : h[k] = j
  <2>1. \A j \in 1..n : j \in Staying(body, "del", "ins", sel) <=> ~Gone(body[j], "del", "ins", sel)
    BY <1>1 DEF Staying
  <2>2. \A j \in 1..n : j \in Staying(body, "del", "ins", sel) <=> \E k \in 1..m : q[k] = j
    BY <1>4 DEF Lists
  <2> QED BY <1>6, <2>1, <2>2
<1>9. Takes(from, h, body, sel)
  BY <1>1, <1>4, <1>6, <1>7, <1>8 DEF Takes
<1> QED BY <1>2, <1>9

LEMMA TakenOnly ==
  ASSUME NEW E, NEW body \in Bodies(E), NEW sel, NEW T, NEW from \in Seq(T), NEW q,
         Takes(from, q, body, sel)
  PROVE  Taken(body, sel) = from
<1>1. PICK n, m : n = Len(body) /\ n \in Nat /\ DOMAIN body = 1..n /\ m = Len(from) /\ m \in Nat
                  /\ DOMAIN from = 1..m /\ from \in [1..m -> T]
  BY LenProperties DEF Bodies
<1>2. /\ q \in [1..m -> 1..n]
      /\ \A i, k \in 1..m : i < k => q[i] < q[k]
      /\ \A j \in 1..n : Gone(body[j], "del", "ins", sel) <=> ~\E k \in 1..m : q[k] = j
      /\ \A k \in 1..m : from[k] = Unwrapped(body[q[k]], "ins", sel)
  BY <1>1 DEF Takes
<1>3. \A j : j \in Staying(body, "del", "ins", sel) <=> j \in 1..n /\ ~Gone(body[j], "del", "ins", sel)
  BY <1>1 DEF Staying
<1>4. Lists(q, m, Staying(body, "del", "ins", sel))
  BY <1>2, <1>3 DEF Lists
<1>5. ResolvedBody(body, "del", "ins", sel) = [k \in 1..m |-> Unwrapped(body[q[k]], "ins", sel)]
  BY <1>1, <1>4, ResolvedBodyOnly
<1> QED BY <1>1, <1>2, <1>5 DEF Taken

LEMMA ItemTaken ==
  ASSUME NEW E, NEW item \in ItemsIn(E), NEW sel
  PROVE  /\ Unwrapped(item, "ins", sel).tok = item.tok
         /\ Seen(Unwrapped(item, "ins", sel)) <=> Seen(item)
         /\ Seen(item) => ~Gone(item, "del", "ins", sel)
<1>1. PICK z : z = Unwrapped(item, "ins", sel)
  OBVIOUS
<1>2. z.tok = item.tok
  BY <1>1, UnwrappedIs
<1>3. /\ \A k \in DOMAIN z.in : \E i \in DOMAIN item.in :
           z.in[k] = item.in[i] /\ StaysAround(item.in[i], "ins", sel)
      /\ \A i \in DOMAIN item.in : StaysAround(item.in[i], "ins", sel) =>
           \E k \in DOMAIN z.in : z.in[k] = item.in[i]
  BY <1>1, UnwrappedHolds
<1>4. Within(z, {"del"}) <=> Within(item, {"del"})
  BY <1>3 DEF Within, StaysAround
<1>5. Seen(item) => ~Gone(item, "del", "ins", sel)
  BY TokensAssumption DEF Seen, Within, Gone
<1> QED BY <1>1, <1>2, <1>4, <1>5 DEF Seen

(* The visible text is the same, at the places that stay.                  *)
ShownAlike(q, p, c) ==
  /\ Len(ShownAt(c.body)) = Len(ShownAt(p.body))
  /\ \A k \in 1..Len(ShownAt(p.body)) :
       ShownAt(c.body)[k] \in 1..Len(c.body) /\ q[ShownAt(c.body)[k]] = ShownAt(p.body)[k]

LEMMA TakenShows ==
  ASSUME NEW E, NEW p, p.body \in Bodies(E), NEW sel, NEW c, c.body \in Bodies(E), NEW q,
         Takes(c.body, q, p.body, sel)
  PROVE  ShownAlike(q, p, c)
<1>1. PICK n, m : /\ n = Len(p.body) /\ n \in Nat /\ DOMAIN p.body = 1..n /\ p.body \in [1..n -> ItemsIn(E)]
                  /\ m = Len(c.body) /\ m \in Nat /\ DOMAIN c.body = 1..m
  BY LenProperties DEF Bodies, ItemsIn, Toks
<1>2. /\ q \in [1..m -> 1..n]
      /\ \A i, k \in 1..m : i < k => q[i] < q[k]
      /\ \A j \in 1..n : Gone(p.body[j], "del", "ins", sel) <=> ~\E k \in 1..m : q[k] = j
      /\ \A k \in 1..m : c.body[k] = Unwrapped(p.body[q[k]], "ins", sel)
  BY <1>1 DEF Takes
<1>3. \A j \in 1..n : j \in Shown(p.body) <=> Seen(p.body[j])
  BY <1>1 DEF Shown, Seen
<1>4. \A k \in 1..m : k \in Shown(c.body) <=> Seen(c.body[k])
  BY <1>1 DEF Shown, Seen
<1>5. ASSUME NEW k \in 1..m PROVE k \in Shown(c.body) <=> q[k] \in Shown(p.body)
  <2>1. PICK j \in 1..n : j = q[k]
    BY <1>2
  <2>2. p.body[j] \in ItemsIn(E)
    BY <1>1
  <2>3. Seen(Unwrapped(p.body[j], "ins", sel)) <=> Seen(p.body[j])
    BY <2>2, ItemTaken
  <2> QED BY <1>2, <1>3, <1>4, <2>1, <2>3
<1>6. ASSUME NEW j \in Shown(p.body) PROVE \E k \in Shown(c.body) : q[k] = j
  <2>1. j \in 1..n
    BY <1>1 DEF Shown
  <2>2. p.body[j] \in ItemsIn(E) /\ Seen(p.body[j])
    BY <1>1, <1>3, <2>1
  <2>3. ~Gone(p.body[j], "del", "ins", sel)
    BY <2>2, ItemTaken
  <2>4. PICK k \in 1..m : q[k] = j
    BY <1>2, <2>1, <2>3
  <2> QED BY <1>5, <2>4
<1>7. PICK at, l : /\ at = ShownAt(c.body) /\ l = Len(at) /\ l \in Nat /\ at \in [1..l -> Shown(c.body)]
                   /\ \A i \in Shown(c.body) : \E k \in 1..l : at[k] = i
                   /\ \A k, h \in 1..l : k < h => at[k] < at[h]
                   /\ Shown(c.body) \in SUBSET (1..m)
  BY <1>1, TextOfBody
<1>8. PICK f : f = [k \in 1..l |-> q[at[k]]]
  OBVIOUS
<1>9. f \in [1..l -> Shown(p.body)]
  BY <1>5, <1>7, <1>8
<1>10. \A j \in Shown(p.body) : \E k \in 1..l : f[k] = j
  BY <1>6, <1>7, <1>8
<1>11. ASSUME NEW k \in 1..l, NEW h \in 1..l, k < h PROVE f[k] < f[h]
  <2>1. at[k] \in 1..m /\ at[h] \in 1..m /\ at[k] < at[h]
    BY <1>7, <1>11
  <2> QED BY <1>2, <1>8, <2>1
<1>12. Shown(p.body) \in SUBSET Nat
  BY <1>1 DEF Shown
<1>13. Ascending(Shown(p.body)) = f
  <2>1. PICK S : S = Shown(p.body)
    OBVIOUS
  <2>2. PICK r \in Nat : r = l
    BY <1>7
  <2>3. S \in SUBSET Nat
    BY <1>12, <2>1
  <2>5. f \in [1..r -> S]
    BY <1>9, <2>1, <2>2
  <2>6. \A i \in S : \E k \in 1..r : f[k] = i
    BY <1>10, <2>1, <2>2
  <2>7. \A k, h \in 1..r : k < h => f[k] < f[h]
    BY <1>11, <2>2
  <2>8. Ascending(S) = f
    BY ONLY <2>3, <2>5, <2>6, <2>7, r \in Nat, AscendingIsOnly
  <2> QED BY <2>1, <2>8
<1>14. ShownAt(p.body) = f /\ Len(f) = l
  BY <1>7, <1>9, <1>13, FunctionIsSeq DEF ShownAt
<1>15. \A k \in 1..l : at[k] \in 1..m /\ f[k] = q[at[k]]
  BY <1>7, <1>8
<1> QED BY <1>1, <1>7, <1>14, <1>15 DEF ShownAlike

(* The places of an edit: what is cut and where the new text goes.         *)
SamePlace(q, m, p, c, s, e, sel) ==
  /\ \A k \in 1..m : k <= Place(c, s, e).after <=> q[k] <= Place(p, s, e).after
  /\ \A k \in 1..m : k \in Cut(c, s, e) <=> q[k] \in Cut(p, s, e)
  /\ \A k \in 1..m : k \in Cut(c, s, e) => k <= Place(c, s, e).after

InsideTaken(E, p, c, s, e, sel) ==
  \E item \in ItemsIn(E) : /\ Seen(item) /\ Place(p, s, e).in = item.in
                           /\ Place(c, s, e).in = Unwrapped(item, "ins", sel).in

LEMMA PlaceTaken ==
  ASSUME NEW E, NEW p \in ParagraphsIn(E), NEW sel, NEW c \in ParagraphsIn(E), NEW q,
         Takes(c.body, q, p.body, sel), NEW s \in Nat, NEW e \in Nat, s <= e, ~Refused(p, s, e)
  PROVE  /\ SamePlace(q, Len(c.body), p, c, s, e, sel)
         /\ Place(c, s, e).after \in 0..Len(c.body)
         /\ InsideTaken(E, p, c, s, e, sel)
<1>1. p.body \in Bodies(E) /\ c.body \in Bodies(E)
  BY DEF ParagraphsIn
<1>2. PICK n, m : /\ n = Len(p.body) /\ n \in Nat /\ DOMAIN p.body = 1..n /\ p.body \in [1..n -> ItemsIn(E)]
                  /\ m = Len(c.body) /\ m \in Nat /\ DOMAIN c.body = 1..m
  BY <1>1, LenProperties DEF Bodies, ItemsIn, Toks
<1>3. /\ q \in [1..m -> 1..n]
      /\ \A i, k \in 1..m : i < k => q[i] < q[k]
      /\ \A k \in 1..m : c.body[k] = Unwrapped(p.body[q[k]], "ins", sel)
  BY <1>2 DEF Takes
<1>4. PICK at, l : /\ at = ShownAt(p.body) /\ l = Len(at) /\ l \in Nat /\ at \in [1..l -> Shown(p.body)]
                   /\ DOMAIN at = 1..l
                   /\ \A k, h \in 1..l : k < h => at[k] < at[h]
                   /\ Shown(p.body) \in SUBSET (1..n)
  BY <1>1, <1>2, TextOfBody
<1>5. PICK to : to = ShownAt(c.body)
  OBVIOUS
<1>6. Len(to) = l /\ \A k \in 1..l : to[k] \in 1..m /\ q[to[k]] = at[k]
  <2>1. ShownAlike(q, p, c)
    BY <1>1, TakenShows
  <2> QED BY <1>2, <1>4, <1>5, <2>1 DEF ShownAlike
<1>7. e <= l /\ l >= 1 /\ at # <<>>
  <2>1. at # <<>> /\ e <= Len(at)
    BY <1>4 DEF Refused
  <2>2. at \in Seq(Nat)
    BY <1>1, <1>4, ShownIsListed, SeqMonotonic
  <2>3. Len(at) # 0
    BY <2>1, <2>2, EmptySeq
  <2> QED BY <1>4, <2>1, <2>3
<1>8. \A i, k \in 1..m : i <= k <=> q[i] <= q[k]
  BY <1>3
<1>9. /\ e = 0 => Place(p, s, e) = [after |-> at[1] - 1, in |-> p.body[at[1]].in]
                  /\ Place(c, s, e) = [after |-> to[1] - 1, in |-> c.body[to[1]].in]
      /\ e # 0 => Place(p, s, e) = [after |-> at[e], in |-> p.body[at[e]].in]
                  /\ Place(c, s, e) = [after |-> to[e], in |-> c.body[to[e]].in]
  BY <1>4, <1>5 DEF Place
<1>10. PICK b \in 1..l : b = IF e = 0 THEN 1 ELSE e
  BY <1>7
<1>11. Place(p, s, e).in = p.body[at[b]].in /\ Place(c, s, e).in = c.body[to[b]].in
  BY <1>9, <1>10
<1>12. at[b] \in 1..n /\ to[b] \in 1..m /\ q[to[b]] = at[b]
  BY <1>4, <1>6
<1>13. InsideTaken(E, p, c, s, e, sel)
  <2>1. p.body[at[b]] \in ItemsIn(E)
    BY <1>2, <1>12
  <2>2. Seen(p.body[at[b]])
    <3>1. at[b] \in Shown(p.body)
      BY <1>4
    <3> QED BY <3>1 DEF Shown, Seen
  <2>3. c.body[to[b]] = Unwrapped(p.body[at[b]], "ins", sel)
    BY <1>3, <1>12
  <2> QED BY <1>11, <2>1, <2>2, <2>3 DEF InsideTaken
<1>14. Place(c, s, e).after \in 0..m
  <2>1. e = 0 => Place(c, s, e).after = to[b] - 1
    BY <1>9, <1>10
  <2>2. e # 0 => Place(c, s, e).after = to[b]
    BY <1>9, <1>10
  <2> QED BY <1>2, <1>12, <2>1, <2>2
<1>15. ASSUME NEW k \in 1..m PROVE k <= Place(c, s, e).after <=> q[k] <= Place(p, s, e).after
  <2>1. k <= to[b] <=> q[k] <= at[b]
    BY <1>8, <1>12
  <2>2. k < to[b] <=> q[k] < at[b]
    BY <1>3, <1>8, <1>12
  <2>3. CASE e = 0
    <3>1. Place(c, s, e).after = to[b] - 1 /\ Place(p, s, e).after = at[b] - 1
      BY <1>9, <1>10, <2>3
    <3>2. k \in Nat /\ q[k] \in Nat /\ to[b] \in Nat /\ at[b] \in Nat
      BY <1>3, <1>12
    <3> QED BY <2>2, <3>1, <3>2
  <2>4. CASE e # 0
    <3>1. Place(c, s, e).after = to[b] /\ Place(p, s, e).after = at[b]
      BY <1>9, <1>10, <2>4
    <3> QED BY <2>1, <3>1
  <2> QED BY <2>3, <2>4
<1>16. Cut(p, s, e) = {at[k] : k \in (s + 1)..e} /\ Cut(c, s, e) = {to[k] : k \in (s + 1)..e}
  BY <1>4, <1>5 DEF Cut
<1>17. \A k \in (s + 1)..e : k \in 1..l
  BY <1>4, <1>7
<1>18. ASSUME NEW k \in 1..m PROVE k \in Cut(c, s, e) <=> q[k] \in Cut(p, s, e)
  <2>1. k \in Cut(c, s, e) => q[k] \in Cut(p, s, e)
    BY <1>6, <1>16, <1>17
  <2>2. ASSUME q[k] \in Cut(p, s, e) PROVE k \in Cut(c, s, e)
    <3>1. PICK i \in (s + 1)..e : q[k] = at[i]
      BY <1>16, <2>2
    <3>2. to[i] \in 1..m /\ q[to[i]] = q[k]
      BY <1>6, <1>17, <3>1
    <3>3. to[i] = k
      BY <1>8, <3>2
    <3> QED BY <1>16, <3>3
  <2> QED BY <2>1, <2>2
<1>19. ASSUME NEW k \in 1..m, k \in Cut(c, s, e) PROVE k <= Place(c, s, e).after
  <2>1. PICK i \in (s + 1)..e : k = to[i]
    BY <1>16, <1>19
  <2>2. e # 0 /\ b = e /\ i \in 1..l /\ i <= e
    BY <1>10, <1>17, <2>1
  <2>3. at[i] <= at[b]
    BY <1>4, <2>2
  <2>4. k <= to[b]
    BY <1>6, <1>8, <2>1, <2>2, <2>3
  <2> QED BY <1>9, <2>2, <2>4
<1> QED BY <1>2, <1>13, <1>14, <1>15, <1>18, <1>19 DEF SamePlace

(* What plain text replacement leaves of a body.                           *)
PlainBody(p, s, e, new) ==
  LET longer == Spliced(p.body, Place(p, s, e).after, Items(new, Place(p, s, e).in))
  IN Picked(longer, {i \in DOMAIN longer : i \notin Cut(p, s, e)})

NewItem(tok, in, by, id) == Item(tok, Append(in, Element("ins", by, id)))

(* Of the path of a new item nothing but the insertion goes.               *)
LEMMA NewItemTaken ==
  ASSUME NEW E, NEW item \in ItemsIn(E), Seen(item), NEW sel, NEW tok \in Tokens,
         NEW id \in sel, NEW by
  PROVE  /\ ~Gone(NewItem(tok, item.in, by, id), "del", "ins", sel)
         /\ Unwrapped(NewItem(tok, item.in, by, id), "ins", sel) = Item(tok, Unwrapped(item, "ins", sel).in)
<1>1. PICK in, n : in = item.in /\ in \in Seq(E) /\ n = Len(in) /\ n \in Nat /\ DOMAIN in = 1..n
  BY LenProperties DEF ItemsIn
<1>2. PICK e : e = Element("ins", by, id)
  OBVIOUS
<1>3. PICK path : path = Append(in, e)
  OBVIOUS
<1>4. /\ DOMAIN path = 1..(n + 1) /\ path[n + 1] = e
      /\ \A k \in 1..n : path[k] = in[k]
  <2>1. in \in Seq(E \cup {e}) /\ e \in E \cup {e}
    BY <1>1, SeqMonotonic
  <2> QED BY <1>1, <1>3, <2>1, AppendProperties
<1>5. PICK x : x = Item(tok, path)
  OBVIOUS
<1>5a. x.in = path /\ x.tok = tok
  BY <1>5 DEF Item
<1>6. ~Gone(x, "del", "ins", sel)
  <2>1. \A k \in 1..n : in[k].kind # "del"
    BY <1>1 DEF Seen, Within
  <2>2. e.kind # "del"
    BY <1>2 DEF Element
  <2>3. \A k \in DOMAIN x.in : x.in[k].kind # "del"
    BY <1>1, <1>4, <1>5, <1>5a, <2>1, <2>2
  <2>4. x.tok # Open
    BY <1>5, <1>5a, TokensAssumption
  <2> QED BY <2>3, <2>4 DEF Gone
<1>7. Around(x, "ins", sel) = Around(item, "ins", sel)
  <2>1. ~StaysAround(e, "ins", sel)
    BY <1>2 DEF Element, StaysAround
  <2>2. \A k : k \in Around(x, "ins", sel) <=> k \in 1..(n + 1) /\ StaysAround(path[k], "ins", sel)
    BY <1>4, <1>5, <1>5a DEF Around
  <2>3. \A k : k \in Around(item, "ins", sel) <=> k \in 1..n /\ StaysAround(in[k], "ins", sel)
    BY <1>1 DEF Around
  <2>4. \A k : k \in 1..(n + 1) <=> k \in 1..n \/ k = n + 1
    BY <1>1
  <2>5. \A k : k \in Around(x, "ins", sel) <=> k \in Around(item, "ins", sel)
    <3> SUFFICES ASSUME NEW k PROVE k \in Around(x, "ins", sel) <=> k \in Around(item, "ins", sel)
      OBVIOUS
    <3>1. CASE k \in 1..n
      BY <1>4, <2>2, <2>3, <2>4, <3>1
    <3>2. CASE k \notin 1..n
      BY <1>4, <2>1, <2>2, <2>3, <2>4, <3>2
    <3> QED BY <3>1, <3>2
  <2> QED BY <2>5
<1>8. PICK places : places = Around(item, "ins", sel)
  OBVIOUS
<1>9. places \in SUBSET (1..n)
  BY <1>1, <1>8 DEF Around
<1>10. Picked(path, places) = Picked(in, places)
  <2>1. PICK m, q : Picks(Picked(in, places), m, q, in, places)
    BY <1>1, <1>9, PickedHas
  <2>2. /\ m \in Nat /\ Lists(q, m, places)
        /\ Picked(in, places) = [k \in 1..m |-> in[q[k]]]
    BY <2>1 DEF Picks
  <2>3. places \in SUBSET Nat
    BY <1>9
  <2>4. Picked(path, places) = [k \in 1..m |-> path[q[k]]]
    BY <2>2, <2>3, PickedIs
  <2>5. \A k \in 1..m : path[q[k]] = in[q[k]]
    BY <1>4, <1>9, <2>2 DEF Lists
  <2> QED BY <2>2, <2>4, <2>5
<1>11. Unwrapped(item, "ins", sel).in = Picked(in, places)
  BY <1>1, <1>8, UnwrappedIs
<1>12. Unwrapped(x, "ins", sel) = Item(tok, Picked(path, places))
  <2>1. Unwrapped(x, "ins", sel) = [x EXCEPT !.in = Picked(path, Around(x, "ins", sel))]
    BY <1>5, <1>5a DEF Unwrapped, Around, StaysAround
  <2> QED BY <1>5, <1>5a, <1>7, <1>8, <2>1 DEF Item
<1>13. x = NewItem(tok, item.in, by, id)
  BY <1>1, <1>2, <1>3, <1>5 DEF NewItem
<1> QED BY <1>6, <1>10, <1>11, <1>12, <1>13

(* z is the sequence a with x behind its first s items.                    *)
IsSpliced(z, a, s, x) ==
  /\ Len(z) = Len(a) + Len(x)
  /\ \A k \in 1..s : z[k] = a[k]
  /\ \A t \in 1..Len(x) : z[s + t] = x[t]
  /\ \A k \in (s + 1)..Len(a) : z[k + Len(x)] = a[k]

LEMMA SplicedIs ==
  ASSUME NEW T, NEW a \in Seq(T), NEW x \in Seq(T), NEW s \in 0..Len(a)
  PROVE  Spliced(a, s, x) \in Seq(T) /\ IsSpliced(Spliced(a, s, x), a, s, x)
<1>1. PICK n \in Nat, w \in Nat : n = Len(a) /\ w = Len(x) /\ s \in Nat /\ s <= n
  BY LenProperties
<1>2. PICK z : z = Spliced(a, s, x)
  OBVIOUS
<1>3. z = PutInto(a, s, s, x)
  BY <1>2 DEF Spliced, PutInto
<1>4. z \in Seq(T) /\ IsPut(z, a, s, s, x)
  BY <1>1, <1>3, Joined
<1>5. /\ Len(z) = n - (s - s) + w
      /\ \A k \in 1..s : z[k] = a[k]
      /\ \A k \in (s + 1)..(s + w) : z[k] = x[k - s]
      /\ \A k \in (s + w + 1)..(n - (s - s) + w) : z[k] = a[k - w + (s - s)]
  BY <1>1, <1>4 DEF IsPut
<1>6. ASSUME NEW t \in 1..w PROVE z[s + t] = x[t]
  <2>1. s + t \in (s + 1)..(s + w) /\ (s + t) - s = t
    BY <1>1
  <2> QED BY <1>5, <2>1
<1>7. ASSUME NEW k \in (s + 1)..n PROVE z[k + w] = a[k]
  <2>1. k + w \in (s + w + 1)..(n - (s - s) + w) /\ (k + w) - w + (s - s) = k
    BY <1>1
  <2> QED BY <1>5, <2>1
<1>8. Len(z) = n + w
  BY <1>1, <1>5
<1> QED BY <1>1, <1>2, <1>4, <1>5, <1>6, <1>7, <1>8 DEF IsSpliced

(* q leads from one body to another past the same splice and cut.          *)
SameCuts(q, m, P, C, cutp, cutc) ==
  \A k \in 1..m : /\ k <= C <=> q[k] <= P
                  /\ k \in cutc <=> q[k] \in cutp
                  /\ k \in cutc => k <= C

(* The items of L are those of body, those that are cut being struck.      *)
IsCutBy(L, body, cut, P, sel) ==
  /\ Len(L) = Len(body)
  /\ \A i \in 1..Len(body) : i \notin cut => L[i] = body[i]
  /\ \A i \in 1..Len(body) : i \in cut => i <= P /\ Gone(L[i], "del", "ins", sel)

(* Of the new items x nothing but the insertion around them is taken off.  *)
BecomeNew(x, y, sel) ==
  /\ Len(x) = Len(y)
  /\ \A t \in 1..Len(x) : ~Gone(x[t], "del", "ins", sel) /\ Unwrapped(x[t], "ins", sel) = y[t]

Uncut(s, cut) == {i \in DOMAIN s : i \notin cut}

BodiesFit(E, F, body, c, L, x, y) ==
  body \in Bodies(E) /\ c \in Bodies(E) /\ y \in Bodies(E) /\ L \in Bodies(F) /\ x \in Bodies(F)

SplicesFit(body, c, sel, q, L, x, y, P, C, cutp, cutc) ==
  /\ Takes(c, q, body, sel) /\ P \in 0..Len(body) /\ C \in 0..Len(c)
  /\ cutc \in SUBSET (1..Len(c))
  /\ SameCuts(q, Len(c), P, C, cutp, cutc)
  /\ IsCutBy(L, body, cutp, P, sel) /\ BecomeNew(x, y, sel)

LEMMA SplicedTaken ==
  ASSUME NEW E, NEW F, NEW body, NEW c, NEW sel, NEW q, NEW L, NEW x, NEW y, NEW P, NEW C,
         NEW cutp, NEW cutc, BodiesFit(E, F, body, c, L, x, y),
         SplicesFit(body, c, sel, q, L, x, y, P, C, cutp, cutc)
  PROVE  Taken(Spliced(L, P, x), sel) = Picked(Spliced(c, C, y), Uncut(Spliced(c, C, y), cutc))
<1>0. /\ body \in Bodies(E) /\ c \in Bodies(E) /\ y \in Bodies(E) /\ L \in Bodies(F) /\ x \in Bodies(F)
      /\ Takes(c, q, body, sel) /\ P \in 0..Len(body) /\ C \in 0..Len(c)
      /\ cutc \in SUBSET (1..Len(c)) /\ SameCuts(q, Len(c), P, C, cutp, cutc)
      /\ IsCutBy(L, body, cutp, P, sel) /\ BecomeNew(x, y, sel)
  BY DEF BodiesFit, SplicesFit
<1>1. PICK n \in Nat, m \in Nat, w \in Nat :
        n = Len(body) /\ m = Len(c) /\ w = Len(x) /\ w = Len(y) /\ n = Len(L)
        /\ P \in 0..n /\ C \in 0..m
  BY <1>0, LenProperties DEF Bodies, IsCutBy, BecomeNew
<1>2. /\ q \in [1..m -> 1..n]
      /\ \A i, k \in 1..m : i < k => q[i] < q[k]
      /\ \A j \in 1..n : Gone(body[j], "del", "ins", sel) <=> ~\E k \in 1..m : q[k] = j
      /\ \A k \in 1..m : c[k] = Unwrapped(body[q[k]], "ins", sel)
  BY <1>0, <1>1 DEF Takes
<1>3. \A k \in 1..m : /\ k <= C <=> q[k] <= P
                      /\ k \in cutc <=> q[k] \in cutp
                      /\ k \in cutc => k <= C
  BY <1>0, <1>1 DEF SameCuts
<1>3a. cutc \in SUBSET (1..m)
  BY <1>0, <1>1
<1>4. /\ \A i \in 1..n : i \notin cutp => L[i] = body[i]
      /\ \A i \in 1..n : i \in cutp => i <= P /\ Gone(L[i], "del", "ins", sel)
  BY <1>0, <1>1 DEF IsCutBy
<1>5. \A t \in 1..w : ~Gone(x[t], "del", "ins", sel) /\ Unwrapped(x[t], "ins", sel) = y[t]
  BY <1>0, <1>1 DEF BecomeNew
<1>6. PICK B : B = Spliced(L, P, x)
  OBVIOUS
<1>7. PICK K : K = Spliced(c, C, y)
  OBVIOUS
<1>8. /\ B \in Bodies(F) /\ Len(B) = n + w
      /\ \A k \in 1..P : B[k] = L[k]
      /\ \A t \in 1..w : B[P + t] = x[t]
      /\ \A k \in (P + 1)..n : B[k + w] = L[k]
  <2>1. L \in Seq(ItemsIn(F)) /\ x \in Seq(ItemsIn(F)) /\ P \in 0..Len(L)
    BY <1>0, <1>1 DEF Bodies, ItemsIn, Toks
  <2>2. B \in Seq(ItemsIn(F)) /\ IsSpliced(B, L, P, x)
    BY <1>6, <2>1, SplicedIs
  <2> QED BY <1>1, <2>2 DEF IsSpliced, Bodies, ItemsIn, Toks
<1>9. /\ K \in Seq(ItemsIn(E)) /\ Len(K) = m + w
      /\ \A k \in 1..C : K[k] = c[k]
      /\ \A t \in 1..w : K[C + t] = y[t]
      /\ \A k \in (C + 1)..m : K[k + w] = c[k]
  <2>1. c \in Seq(ItemsIn(E)) /\ y \in Seq(ItemsIn(E)) /\ C \in 0..Len(c)
    BY <1>0, <1>1 DEF Bodies, ItemsIn, Toks
  <2>2. K \in Seq(ItemsIn(E)) /\ IsSpliced(K, c, C, y)
    BY <1>7, <2>1, SplicedIs
  <2> QED BY <1>1, <2>2 DEF IsSpliced
<1>10. PICK f : f = [i \in 1..(m + w) |-> IF i <= C THEN q[i] ELSE IF i <= C + w THEN P + (i - C)
                                         ELSE q[i - w] + w]
  OBVIOUS
<1>11. \A i \in 1..C : i \in 1..m /\ i \in 1..(m + w) /\ f[i] = q[i] /\ q[i] \in 1..P
  <2> SUFFICES ASSUME NEW i \in 1..C PROVE i \in 1..m /\ i \in 1..(m + w) /\ f[i] = q[i] /\ q[i] \in 1..P
    OBVIOUS
  <2>1. i \in 1..m /\ i \in 1..(m + w) /\ i <= C
    BY <1>1
  <2>2. q[i] \in 1..n /\ q[i] <= P
    BY <1>2, <1>3, <2>1
  <2> QED BY <1>1, <1>10, <2>1, <2>2
<1>12. \A t \in 1..w : C + t \in 1..(m + w) /\ f[C + t] = P + t
  <2> SUFFICES ASSUME NEW t \in 1..w PROVE C + t \in 1..(m + w) /\ f[C + t] = P + t
    OBVIOUS
  <2>1. C + t \in 1..(m + w) /\ ~(C + t <= C) /\ C + t <= C + w /\ P + ((C + t) - C) = P + t
    BY <1>1
  <2> QED BY <1>10, <2>1
<1>13. \A k \in (C + 1)..m : k \in 1..m /\ k + w \in 1..(m + w) /\ f[k + w] = q[k] + w /\ q[k] \in (P + 1)..n
  <2> SUFFICES ASSUME NEW k \in (C + 1)..m
               PROVE  k \in 1..m /\ k + w \in 1..(m + w) /\ f[k + w] = q[k] + w /\ q[k] \in (P + 1)..n
    OBVIOUS
  <2>1. k \in 1..m /\ k + w \in 1..(m + w) /\ ~(k <= C) /\ ~(k + w <= C) /\ ~(k + w <= C + w) /\ (k + w) - w = k
    BY <1>1
  <2>2. q[k] \in 1..n /\ ~(q[k] <= P)
    BY <1>2, <1>3, <2>1
  <2>3. q[k] \in (P + 1)..n
    BY <1>1, <2>2
  <2> QED BY <1>10, <2>1, <2>3
<1>14. \A i \in 1..(m + w) : \/ i \in 1..C
                             \/ \E t \in 1..w : i = C + t
                             \/ \E k \in (C + 1)..m : i = k + w
  <2> SUFFICES ASSUME NEW i \in 1..(m + w)
               PROVE  i \in 1..C \/ (\E t \in 1..w : i = C + t) \/ (\E k \in (C + 1)..m : i = k + w)
    OBVIOUS
  <2>1. CASE i <= C
    BY <1>1, <2>1
  <2>2. CASE ~(i <= C) /\ i <= C + w
    <3>1. i - C \in 1..w /\ i = C + (i - C)
      BY <1>1, <2>2
    <3> QED BY <3>1
  <2>3. CASE ~(i <= C + w)
    <3>1. i - w \in (C + 1)..m /\ i = (i - w) + w
      BY <1>1, <2>3
    <3> QED BY <3>1
  <2> QED BY <1>1, <2>1, <2>2, <2>3
<1>15. \A j \in 1..(n + w) : \/ j \in 1..P
                             \/ \E t \in 1..w : j = P + t
                             \/ \E k \in (P + 1)..n : j = k + w
  <2> SUFFICES ASSUME NEW i \in 1..(n + w)
               PROVE  i \in 1..P \/ (\E t \in 1..w : i = P + t) \/ (\E k \in (P + 1)..n : i = k + w)
    OBVIOUS
  <2>1. CASE i <= P
    BY <1>1, <2>1
  <2>2. CASE ~(i <= P) /\ i <= P + w
    <3>1. i - P \in 1..w /\ i = P + (i - P)
      BY <1>1, <2>2
    <3> QED BY <3>1
  <2>3. CASE ~(i <= P + w)
    <3>1. i - w \in (P + 1)..n /\ i = (i - w) + w
      BY <1>1, <2>3
    <3> QED BY <3>1
  <2> QED BY <1>1, <2>1, <2>2, <2>3
<1>16. /\ \A i \in 1..C : f[i] \in 1..P
       /\ \A t \in 1..w : f[C + t] \in (P + 1)..(P + w)
       /\ \A k \in (C + 1)..m : f[k + w] \in (P + w + 1)..(n + w)
  <2>1. \A t \in 1..w : P + t \in (P + 1)..(P + w)
    BY <1>1
  <2>2. \A k \in (P + 1)..n : k + w \in (P + w + 1)..(n + w)
    BY <1>1
  <2> QED BY <1>11, <1>12, <1>13, <2>1, <2>2
<1>17. f \in [1..(m + w) -> 1..(n + w)]
  <2>1. ASSUME NEW i \in 1..(m + w) PROVE f[i] \in 1..(n + w)
    <3>1. \A j : j \in 1..P \/ j \in (P + 1)..(P + w) \/ j \in (P + w + 1)..(n + w) => j \in 1..(n + w)
      BY <1>1
    <3> QED BY <1>14, <1>16, <3>1
  <2> QED BY <1>10, <2>1
<1>18. ASSUME NEW i \in 1..(m + w), NEW k \in 1..(m + w), i < k PROVE f[i] < f[k]
  <2>1. CASE i \in 1..C /\ k \in 1..C
    BY <1>2, <1>11, <1>18, <2>1
  <2>2. CASE i \in 1..C /\ k \notin 1..C
    <3>1. f[i] \in 1..P
      BY <1>16, <2>2
    <3>2. f[k] \in (P + 1)..(P + w) \/ f[k] \in (P + w + 1)..(n + w)
      BY <1>14, <1>16, <2>2
    <3> QED BY <1>1, <3>1, <3>2
  <2>3. CASE i \notin 1..C /\ \E t \in 1..w : i = C + t
    <3>1. PICK t \in 1..w : i = C + t
      BY <2>3
    <3>2. CASE \E v \in 1..w : k = C + v
      <4>1. PICK v \in 1..w : k = C + v
        BY <3>2
      <4>2. t < v
        BY <1>1, <1>18, <3>1, <4>1
      <4>3. f[i] = P + t /\ f[k] = P + v
        BY <1>12, <3>1, <4>1
      <4> QED BY <1>1, <4>2, <4>3
    <3>3. CASE \E v \in (C + 1)..m : k = v + w
      <4>1. f[k] \in (P + w + 1)..(n + w) /\ f[i] \in (P + 1)..(P + w)
        BY <1>16, <3>1, <3>3
      <4> QED BY <1>1, <4>1
    <3>4. k \notin 1..C
      BY <1>1, <1>18, <3>1
    <3> QED BY <1>14, <3>2, <3>3, <3>4
  <2>4. CASE \E t \in (C + 1)..m : i = t + w
    <3>1. PICK t \in (C + 1)..m : i = t + w
      BY <2>4
    <3>2. PICK v \in (C + 1)..m : k = v + w
      <4>1. k \notin 1..C /\ \A u \in 1..w : k # C + u
        BY <1>1, <1>18, <3>1
      <4> QED BY <1>14, <4>1
    <3>3. t < v
      BY <1>1, <1>18, <3>1, <3>2
    <3>4. t \in 1..m /\ v \in 1..m /\ f[i] = q[t] + w /\ f[k] = q[v] + w
      BY <1>13, <3>1, <3>2
    <3>5. q[t] < q[v] /\ q[t] \in Nat /\ q[v] \in Nat
      BY <1>2, <3>3, <3>4
    <3> QED BY <1>1, <3>4, <3>5
  <2> QED BY <1>14, <2>1, <2>2, <2>3, <2>4
<1>19. ASSUME NEW i \in 1..(m + w), i \notin cutc
       PROVE  ~Gone(B[f[i]], "del", "ins", sel) /\ K[i] = Unwrapped(B[f[i]], "ins", sel)
  <2>1. CASE i \in 1..C
    <3>1. i \in 1..m /\ f[i] = q[i] /\ q[i] \in 1..P /\ q[i] \in 1..n
      BY <1>2, <1>11, <2>1
    <3>2. q[i] \notin cutp
      BY <1>3, <1>19, <3>1
    <3>3. B[f[i]] = body[q[i]]
      BY <1>4, <1>8, <3>1, <3>2
    <3>4. ~Gone(body[q[i]], "del", "ins", sel)
      BY <1>2, <3>1
    <3>5. K[i] = c[i] /\ c[i] = Unwrapped(body[q[i]], "ins", sel)
      BY <1>2, <1>9, <2>1, <3>1
    <3> QED BY <3>3, <3>4, <3>5
  <2>2. CASE \E t \in 1..w : i = C + t
    <3>1. PICK t \in 1..w : i = C + t
      BY <2>2
    <3>2. B[f[i]] = x[t] /\ K[i] = y[t]
      BY <1>8, <1>9, <1>12, <3>1
    <3> QED BY <1>5, <3>2
  <2>3. CASE \E k \in (C + 1)..m : i = k + w
    <3>1. PICK k \in (C + 1)..m : i = k + w
      BY <2>3
    <3>2. k \in 1..m /\ f[i] = q[k] + w /\ q[k] \in (P + 1)..n
      BY <1>13, <3>1
    <3>3. q[k] \in 1..n /\ ~(q[k] <= P)
      BY <1>1, <3>2
    <3>4. q[k] \notin cutp
      BY <1>4, <3>3
    <3>5. B[f[i]] = body[q[k]]
      BY <1>4, <1>8, <3>2, <3>3, <3>4
    <3>6. ~Gone(body[q[k]], "del", "ins", sel)
      BY <1>2, <3>2, <3>3
    <3>7. K[i] = c[k] /\ c[k] = Unwrapped(body[q[k]], "ins", sel)
      BY <1>2, <1>9, <3>1, <3>2
    <3> QED BY <3>5, <3>6, <3>7
  <2> QED BY <1>14, <2>1, <2>2, <2>3
<1>20. ASSUME NEW j \in 1..(n + w), ~Gone(B[j], "del", "ins", sel)
       PROVE  \E i \in 1..(m + w) : i \notin cutc /\ f[i] = j
  <2>1. CASE j \in 1..P
    <3>1. j \in 1..n /\ B[j] = L[j]
      BY <1>1, <1>8, <2>1
    <3>2. j \notin cutp
      BY <1>4, <1>20, <3>1
    <3>3. PICK i \in 1..m : q[i] = j
      BY <1>2, <1>4, <1>20, <3>1, <3>2
    <3>4. i <= C /\ i \notin cutc
      BY <1>3, <2>1, <3>2, <3>3
    <3>5. i \in 1..C
      BY <1>1, <3>4
    <3> QED BY <1>11, <3>3, <3>4, <3>5
  <2>2. CASE \E t \in 1..w : j = P + t
    <3>1. PICK t \in 1..w : j = P + t
      BY <2>2
    <3>2. C + t \notin cutc
      <4>1. CASE C + t \in 1..m
        BY <1>1, <1>3, <4>1
      <4>2. CASE C + t \notin 1..m
        BY <1>1, <1>3a, <4>2
      <4> QED BY <4>1, <4>2
    <3> QED BY <1>12, <3>1, <3>2
  <2>3. CASE \E k \in (P + 1)..n : j = k + w
    <3>1. PICK k \in (P + 1)..n : j = k + w
      BY <2>3
    <3>2. k \in 1..n /\ ~(k <= P) /\ B[j] = L[k]
      BY <1>1, <1>8, <3>1
    <3>3. k \notin cutp
      BY <1>4, <3>2
    <3>4. PICK i \in 1..m : q[i] = k
      BY <1>2, <1>4, <1>20, <3>2, <3>3
    <3>5. i \in (C + 1)..m
      BY <1>1, <1>3, <3>2, <3>4
    <3>6. i + w \notin cutc
      <4>1. ~(i + w <= C)
        BY <1>1, <3>5
      <4>2. CASE i + w \in 1..m
        BY <1>3, <4>1, <4>2
      <4>3. CASE i + w \notin 1..m
        BY <1>1, <1>3a, <4>3
      <4> QED BY <4>2, <4>3
    <3> QED BY <1>13, <3>1, <3>4, <3>5, <3>6
  <2> QED BY <1>15, <2>1, <2>2, <2>3
<1>21. DOMAIN K = 1..(m + w)
  BY <1>9, LenProperties
<1>22. PICK kept : kept = Uncut(K, cutc)
  OBVIOUS
<1>23. kept \in SUBSET (DOMAIN K) /\ \A i : i \in kept <=> i \in 1..(m + w) /\ i \notin cutc
  BY <1>21, <1>22 DEF Uncut
<1>24. PICK l, at : /\ Picks(Picked(K, kept), l, at, K, kept)
                    /\ Picked(K, kept) \in Seq(ItemsIn(E)) /\ Len(Picked(K, kept)) = l
                    /\ DOMAIN Picked(K, kept) = 1..l
                    /\ \A k \in 1..l : at[k] \in 1..Len(K)
  <2>1. PICK T : T = ItemsIn(E)
    OBVIOUS
  <2>2. K \in Seq(T) /\ kept \in SUBSET (DOMAIN K)
    BY <1>9, <1>23, <2>1
  <2> QED BY <2>1, <2>2, PickedHas
<1>25. PICK R : R = Picked(K, kept)
  OBVIOUS
<1>26. /\ l \in Nat /\ Len(R) = l /\ R = [k \in 1..l |-> K[at[k]]]
       /\ \A k \in 1..l : at[k] \in 1..(m + w) /\ at[k] \notin cutc
       /\ \A i \in 1..(m + w) : i \notin cutc => \E k \in 1..l : at[k] = i
       /\ \A i, k \in 1..l : i < k => at[i] < at[k]
  BY <1>23, <1>24, <1>25 DEF Picks, Lists
<1>27. PICK h : h = [k \in 1..l |-> f[at[k]]]
  OBVIOUS
<1>28. h \in [1..l -> 1..(n + w)]
  BY <1>17, <1>26, <1>27
<1>29. \A i, k \in 1..l : i < k => h[i] < h[k]
  BY <1>18, <1>26, <1>27
<1>30. \A j \in 1..(n + w) : Gone(B[j], "del", "ins", sel) <=> ~\E k \in 1..l : h[k] = j
  <2> SUFFICES ASSUME NEW j \in 1..(n + w)
               PROVE  Gone(B[j], "del", "ins", sel) <=> ~\E k \in 1..l : h[k] = j
    OBVIOUS
  <2>1. ASSUME NEW k \in 1..l, h[k] = j PROVE ~Gone(B[j], "del", "ins", sel)
    BY <1>19, <1>26, <1>27, <2>1
  <2>2. ASSUME ~Gone(B[j], "del", "ins", sel) PROVE \E k \in 1..l : h[k] = j
    <3>1. PICK i \in 1..(m + w) : i \notin cutc /\ f[i] = j
      BY <1>20, <2>2
    <3>2. PICK k \in 1..l : at[k] = i
      BY <1>26, <3>1
    <3> QED BY <1>27, <3>1, <3>2
  <2> QED BY <2>1, <2>2
<1>31. \A k \in 1..l : R[k] = Unwrapped(B[h[k]], "ins", sel)
  BY <1>19, <1>26, <1>27
<1>32. Takes(R, h, B, sel)
  BY <1>8, <1>26, <1>28, <1>29, <1>30, <1>31 DEF Takes
<1>33. Taken(B, sel) = R
  BY <1>8, <1>24, <1>25, <1>32, TakenOnly
<1> QED BY <1>6, <1>7, <1>22, <1>25, <1>33

(* What is cut is visible text, and before the place of the new text.      *)
LEMMA CutBehind ==
  ASSUME NEW E, NEW p \in ParagraphsIn(E), NEW s \in Nat, NEW e \in Nat, ~Refused(p, s, e)
  PROVE  \A i \in Cut(p, s, e) : i \in 1..Len(p.body) /\ i <= Place(p, s, e).after /\ Seen(p.body[i])
<1>1. p.body \in Bodies(E)
  BY DEF ParagraphsIn
<1>2. PICK n : n = Len(p.body) /\ n \in Nat /\ DOMAIN p.body = 1..n
  BY <1>1, LenProperties DEF Bodies
<1>3. PICK at, l : /\ at = ShownAt(p.body) /\ l = Len(at) /\ l \in Nat /\ at \in [1..l -> Shown(p.body)]
                   /\ DOMAIN at = 1..l
                   /\ \A k, h \in 1..l : k < h => at[k] < at[h]
                   /\ Shown(p.body) \in SUBSET (1..n)
  BY <1>1, <1>2, TextOfBody
<1>4. e <= l
  BY <1>3 DEF Refused
<1>5. SUFFICES ASSUME NEW k \in (s + 1)..e
               PROVE  at[k] \in 1..n /\ at[k] <= Place(p, s, e).after /\ Seen(p.body[at[k]])
  BY <1>2, <1>3 DEF Cut
<1>6. k \in 1..l /\ e \in 1..l /\ k <= e /\ e # 0
  BY <1>3, <1>4
<1>7. Place(p, s, e).after = at[e]
  BY <1>3, <1>6 DEF Place
<1>8. at[k] \in 1..n /\ at[e] \in 1..n /\ at[k] <= at[e]
  <2>1. CASE k = e
    BY <1>3, <1>6, <2>1
  <2>2. CASE k < e
    <3>1. at[k] < at[e]
      BY <1>3, <1>6, <2>2
    <3> QED BY <1>3, <1>6, <3>1
  <2> QED BY <1>6, <2>1, <2>2
<1>9. Seen(p.body[at[k]])
  <2>1. at[k] \in Shown(p.body)
    BY <1>3, <1>6
  <2> QED BY <2>1 DEF Shown, Seen
<1> QED BY <1>7, <1>8, <1>9

(* What is struck is gone with its deletion.                               *)
LEMMA StruckIsCut ==
  ASSUME NEW E, NEW p, p.body \in Bodies(E), NEW cut \in SUBSET (DOMAIN p.body), NEW P,
         \A i \in cut : i <= P, NEW by, NEW next \in Nat, NEW sel, \A id \in Nat : id >= next => id \in sel
  PROVE  /\ IsCutBy(Struck(p, cut, by, next), p.body, cut, P, sel)
         /\ \E F : E \subseteq F /\ Struck(p, cut, by, next) \in Bodies(F)
<1>1. PICK n : n = Len(p.body) /\ n \in Nat /\ DOMAIN p.body = 1..n /\ p.body \in [1..n -> ItemsIn(E)]
  BY LenProperties DEF Bodies, ItemsIn, Toks
<1>2. cut \in SUBSET Nat /\ IsFiniteSet(cut)
  <2>1. IsFiniteSet(1..n)
    BY <1>1, FS_Interval
  <2> QED BY <1>1, <2>1, FS_Subset
<1>3. PICK L : L = Struck(p, cut, by, next)
  OBVIOUS
<1>4. PICK F : F = E \cup {Element("del", by, i) : i \in Nat}
  OBVIOUS
<1>5. E \subseteq F /\ \A i \in next..(next + Stretches(cut) - 1) : Element("del", by, i) \in F
  BY <1>4
<1>6. L \in Bodies(F) /\ Len(L) = n
  <2>1. E \subseteq F
    BY <1>5
  <2>2. \A i \in next..(next + Stretches(cut) - 1) : Element("del", by, i) \in F
    BY <1>5
  <2>3. /\ Struck(p, cut, by, next) \in Bodies(F)
        /\ Len(Struck(p, cut, by, next)) = Len(p.body)
    BY ONLY p.body \in Bodies(E), cut \in SUBSET (DOMAIN p.body), next \in Nat, <2>1, <2>2, StruckBody, SMTT(90)
  <2> QED BY <1>1, <1>3, <2>3
<1>7. \A i \in 1..n : i \notin cut => L[i] = p.body[i]
  BY <1>1, <1>3 DEF Struck
<1>8. ASSUME NEW i \in cut PROVE Gone(L[i], "del", "ins", sel)
  <2>1. PICK d : d = StretchOf(cut, i) /\ d \in Nat /\ d >= 1
    <3>1. Stretches(cut) \in Nat /\ StretchOf(cut, i) \in 1..Stretches(cut)
      BY <1>2, StretchIsCounted
    <3> QED BY <3>1
  <2>2. PICK id : id = next + d - 1 /\ id \in sel
    BY <2>1
  <2>3. PICK in : in = p.body[i].in /\ in \in Seq(E)
    BY <1>1 DEF ItemsIn
  <2>4. PICK el : el = Element("del", by, id)
    OBVIOUS
  <2>5. L[i] = [p.body[i] EXCEPT !.in = Append(in, el)]
    BY <1>1, <1>3, <2>1, <2>2, <2>3, <2>4 DEF Struck
  <2>6. p.body[i] \in ItemsIn(E)
    BY <1>1
  <2>7. L[i].in = Append(in, el)
    BY <2>5, <2>6 DEF ItemsIn
  <2>8. PICK k \in DOMAIN Append(in, el) : Append(in, el)[k] = el
    <3>1. in \in Seq(E \cup {el}) /\ el \in E \cup {el} /\ Len(in) \in Nat
      BY <2>3, SeqMonotonic, LenProperties
    <3>2. Len(in) + 1 \in DOMAIN Append(in, el) /\ Append(in, el)[Len(in) + 1] = el
      BY <3>1, AppendProperties
    <3> QED BY <3>2
  <2>9. el.kind = "del" /\ el.id \in sel
    BY <2>2, <2>4 DEF Element
  <2> QED BY <2>7, <2>8, <2>9 DEF Gone
<1>9. IsCutBy(L, p.body, cut, P, sel)
  BY <1>1, <1>6, <1>7, <1>8 DEF IsCutBy
<1> QED BY <1>3, <1>5, <1>6, <1>9

(* New text, accepted, is the same text without its insertion.             *)
LEMMA NewTextTaken ==
  ASSUME NEW E, NEW item \in ItemsIn(E), Seen(item), NEW sel, NEW new \in Seq(Tokens),
         NEW id \in sel, NEW by
  PROVE  /\ BecomeNew(Items(new, Append(item.in, Element("ins", by, id))),
                      Items(new, Unwrapped(item, "ins", sel).in), sel)
         /\ \E F : E \subseteq F /\ Items(new, Append(item.in, Element("ins", by, id))) \in Bodies(F)
         /\ Items(new, Unwrapped(item, "ins", sel).in) \in Bodies(E)
<1>1. PICK x, y, w : /\ x = Items(new, Append(item.in, Element("ins", by, id)))
                     /\ y = Items(new, Unwrapped(item, "ins", sel).in) /\ w = Len(new)
  OBVIOUS
<1>2. w \in Nat /\ DOMAIN new = 1..w /\ new \in [1..w -> Tokens]
  BY <1>1, LenProperties
<1>3. \A t \in 1..w : x[t] = NewItem(new[t], item.in, by, id)
  BY <1>1, <1>2 DEF Items, NewItem
<1>4. \A t \in 1..w : y[t] = Item(new[t], Unwrapped(item, "ins", sel).in)
  BY <1>1, <1>2 DEF Items
<1>5. PICK F : F = E \cup {Element("ins", by, id)}
  OBVIOUS
<1>6. x \in Bodies(F) /\ y \in Bodies(E)
  <2>1. item.in \in Seq(E) /\ Unwrapped(item, "ins", sel) \in ItemsIn(E)
    BY UnwrappedIs DEF ItemsIn
  <2>2. item.in \in Seq(F) /\ Element("ins", by, id) \in F
    BY <1>5, <2>1, SeqMonotonic
  <2>3. Append(item.in, Element("ins", by, id)) \in Seq(F)
    BY <2>2, AppendProperties
  <2>4. Unwrapped(item, "ins", sel).in \in Seq(E)
    BY <2>1 DEF ItemsIn
  <2> QED BY <1>1, <2>3, <2>4, ItemsBody
<1>7. Len(x) = w /\ Len(y) = w
  <2>1. DOMAIN x = 1..w /\ DOMAIN y = 1..w
    BY <1>1, <1>2 DEF Items
  <2>2. DOMAIN x = 1..Len(x) /\ DOMAIN y = 1..Len(y) /\ Len(x) \in Nat /\ Len(y) \in Nat
    BY <1>6, LenProperties DEF Bodies
  <2> QED BY <1>2, <2>1, <2>2
<1>8. ASSUME NEW t \in 1..w PROVE ~Gone(x[t], "del", "ins", sel) /\ Unwrapped(x[t], "ins", sel) = y[t]
  <2>1. new[t] \in Tokens
    BY <1>2
  <2>2. /\ ~Gone(NewItem(new[t], item.in, by, id), "del", "ins", sel)
        /\ Unwrapped(NewItem(new[t], item.in, by, id), "ins", sel) = Item(new[t], Unwrapped(item, "ins", sel).in)
    BY <2>1, NewItemTaken
  <2> QED BY <1>3, <1>4, <2>2
<1>9. BecomeNew(x, y, sel)
  BY <1>7, <1>8 DEF BecomeNew
<1> QED BY <1>1, <1>5, <1>6, <1>9

(* Accepting a tracked replacement gives what the replacement without      *)
(* tracking makes of the accepted paragraph.                               *)
AcceptedIsPlain(p, c, s, e, new, by, next, sel) ==
  Taken(TrackedReplace(p, s, e, new, by, next).p.body, sel) = PlainBody(c, s, e, new)

LEMMA ReplaceTaken ==
  ASSUME NEW E, NEW p \in ParagraphsIn(E), NEW sel, NEW c \in ParagraphsIn(E), NEW q,
         Takes(c.body, q, p.body, sel), NEW s \in Nat, NEW e \in Nat, s <= e, ~Refused(p, s, e),
         NEW new \in Seq(Tokens), NEW by, NEW next \in Nat, \A id \in Nat : id >= next => id \in sel
  PROVE  AcceptedIsPlain(p, c, s, e, new, by, next, sel)
<1>1. p.body \in Bodies(E) /\ c.body \in Bodies(E)
  BY DEF ParagraphsIn
<1>2. PICK cutp, cutc, P, C : /\ cutp = Cut(p, s, e) /\ cutc = Cut(c, s, e)
                              /\ P = Place(p, s, e).after /\ C = Place(c, s, e).after
  OBVIOUS
<1>3. /\ SamePlace(q, Len(c.body), p, c, s, e, sel) /\ C \in 0..Len(c.body)
  BY <1>2, PlaceTaken
<1>4. PICK item \in ItemsIn(E) : /\ Seen(item) /\ Place(p, s, e).in = item.in
                                 /\ Place(c, s, e).in = Unwrapped(item, "ins", sel).in
  <2>1. InsideTaken(E, p, c, s, e, sel)
    BY PlaceTaken
  <2> QED BY <2>1 DEF InsideTaken
<1>5. SameCuts(q, Len(c.body), P, C, cutp, cutc)
  BY <1>2, <1>3 DEF SamePlace, SameCuts
<1>6. P \in 0..Len(p.body) /\ cutp \in SUBSET (DOMAIN p.body) /\ IsFiniteSet(cutp)
  BY <1>2, RangeIsInside
<1>7. \A i \in cutp : i <= P
  BY <1>2, CutBehind
<1>8. cutc \in SUBSET (1..Len(c.body))
  <2>1. ShownAlike(q, p, c)
    BY <1>1, TakenShows
  <2>2. e <= Len(ShownAt(p.body)) /\ Len(ShownAt(p.body)) \in Nat
    BY <1>1, TextOfBody DEF Refused
  <2>3. \A k \in (s + 1)..e : k \in 1..Len(ShownAt(p.body))
    BY <2>2
  <2>4. \A k \in (s + 1)..e : ShownAt(c.body)[k] \in 1..Len(c.body)
    BY <2>1, <2>3 DEF ShownAlike
  <2> QED BY <1>2, <2>4 DEF Cut
<1>9. PICK dels : dels = Stretches(cutp) /\ dels \in Nat
  <2>1. IsFiniteSet({i \in cutp : i - 1 \notin cutp})
    BY <1>6, FS_Subset
  <2> QED BY <2>1, FS_CardinalityType DEF Stretches
<1>10. PICK id : id = next + dels /\ id \in sel
  BY <1>9
<1>11. PICK L : L = Struck(p, cutp, by, next)
  OBVIOUS
<1>12. IsCutBy(L, p.body, cutp, P, sel) /\ \E F : E \subseteq F /\ L \in Bodies(F)
  BY <1>1, <1>6, <1>7, <1>11, StruckIsCut
<1>13. PICK x, y : /\ x = Items(new, Append(item.in, Element("ins", by, id)))
                   /\ y = Items(new, Unwrapped(item, "ins", sel).in)
  OBVIOUS
<1>14. /\ BecomeNew(x, y, sel) /\ \E F : E \subseteq F /\ x \in Bodies(F)
       /\ y \in Bodies(E)
  BY <1>4, <1>10, <1>13, NewTextTaken
<1>15. PICK F : L \in Bodies(F) /\ x \in Bodies(F)
  <2>1. PICK F1, F2 : L \in Bodies(F1) /\ x \in Bodies(F2)
    BY <1>12, <1>14
  <2>2. PICK F3 : F3 = F1 \cup F2
    OBVIOUS
  <2>3. Bodies(F1) \subseteq Bodies(F3) /\ Bodies(F2) \subseteq Bodies(F3)
    BY <2>2, DocumentsGrow
  <2> QED BY <2>1, <2>3
<1>16. Taken(Spliced(L, P, x), sel) = Picked(Spliced(c.body, C, y), Uncut(Spliced(c.body, C, y), cutc))
  <2>1. BodiesFit(E, F, p.body, c.body, L, x, y)
    BY <1>1, <1>14, <1>15 DEF BodiesFit
  <2>2. SplicesFit(p.body, c.body, sel, q, L, x, y, P, C, cutp, cutc)
    BY <1>3, <1>5, <1>6, <1>8, <1>12, <1>14 DEF SplicesFit
  <2> QED BY ONLY <2>1, <2>2, SplicedTaken
<1>17. TrackedReplace(p, s, e, new, by, next).p.body = Spliced(L, P, x)
  <2>1. Items(new, Append(Place(p, s, e).in, Element("ins", by, next + Cardinality({i \in cutp : i - 1 \notin cutp})))) = x
    BY <1>4, <1>9, <1>10, <1>13 DEF Stretches
  <2>2. p = [id |-> p.id, mark |-> p.mark, body |-> p.body]
    BY DEF ParagraphsIn
  <2> QED BY <1>2, <1>11, <2>1, <2>2 DEF TrackedReplace
<1>18. PlainBody(c, s, e, new) = Picked(Spliced(c.body, C, y), Uncut(Spliced(c.body, C, y), cutc))
  BY <1>2, <1>4, <1>13 DEF PlainBody, Uncut
<1> QED BY <1>16, <1>17, <1>18 DEF AcceptedIsPlain

(***************************************************************************)
(* A paragraph that an edit blanks                                         *)
(***************************************************************************)

(* Blanked, a paragraph has the items it had, those that are cut struck.   *)
IsBlanked(B, body, cut, sel) ==
  /\ Len(B) = Len(body)
  /\ \A i \in 1..Len(body) : B[i].tok = body[i].tok
  /\ \A i \in 1..Len(body) : i \notin cut => B[i] = body[i]
  /\ \A i \in 1..Len(body) : i \in cut =>
       \E el : el.kind = "del" /\ el.id \in sel /\ B[i].in = Append(body[i].in, el)

LEMMA BlankedItem ==
  ASSUME NEW E, NEW p, p.body \in Bodies(E), NEW cut \in SUBSET (DOMAIN p.body),
         NEW by, NEW next \in Nat, NEW sel, \A id \in Nat : id >= next => id \in sel
  PROVE  IsBlanked(Struck(p, cut, by, next), p.body, cut, sel)
<1>1. PICK n : n = Len(p.body) /\ n \in Nat /\ DOMAIN p.body = 1..n /\ p.body \in [1..n -> ItemsIn(E)]
  BY LenProperties DEF Bodies, ItemsIn, Toks
<1>2. cut \in SUBSET Nat /\ IsFiniteSet(cut)
  <2>1. IsFiniteSet(1..n)
    BY <1>1, FS_Interval
  <2> QED BY <1>1, <2>1, FS_Subset
<1>3. PICK L : L = Struck(p, cut, by, next)
  OBVIOUS
<1>4. \A i \in 1..n : i \notin cut => L[i] = p.body[i]
  BY <1>1, <1>3 DEF Struck
<1>5. ASSUME NEW i \in cut
      PROVE  /\ L[i].tok = p.body[i].tok
             /\ \E el : el.kind = "del" /\ el.id \in sel /\ L[i].in = Append(p.body[i].in, el)
  <2>1. PICK d : d = StretchOf(cut, i) /\ d \in Nat /\ d >= 1
    <3>1. Stretches(cut) \in Nat /\ StretchOf(cut, i) \in 1..Stretches(cut)
      BY <1>2, StretchIsCounted
    <3> QED BY <3>1
  <2>2. PICK id : id = next + d - 1 /\ id \in sel
    BY <2>1
  <2>3. PICK el : el = Element("del", by, id)
    OBVIOUS
  <2>4. L[i] = [p.body[i] EXCEPT !.in = Append(p.body[i].in, el)]
    BY <1>1, <1>3, <2>1, <2>2, <2>3 DEF Struck
  <2>5. p.body[i] \in ItemsIn(E)
    BY <1>1
  <2>6. L[i].in = Append(p.body[i].in, el) /\ L[i].tok = p.body[i].tok
    BY <2>4, <2>5 DEF ItemsIn
  <2>7. el.kind = "del" /\ el.id \in sel
    BY <2>2, <2>3 DEF Element
  <2> QED BY <2>6, <2>7
<1>6. Len(L) = n
  <2>1. DOMAIN L = 1..n
    BY <1>1, <1>3 DEF Struck
  <2>2. PICK F : L \in Bodies(F)
    <3>1. \A i \in cut : i <= n
      BY <1>1
    <3>2. \E F : E \subseteq F /\ Struck(p, cut, by, next) \in Bodies(F)
      BY <3>1, StruckIsCut
    <3> QED BY <1>3, <3>2
  <2>3. DOMAIN L = 1..Len(L) /\ Len(L) \in Nat
    BY <2>2, LenProperties DEF Bodies
  <2> QED BY <1>1, <2>1, <2>3
<1> QED BY <1>1, <1>3, <1>4, <1>5, <1>6 DEF IsBlanked

LEMMA BlankedBody ==
  ASSUME NEW E, NEW p \in ParagraphsIn(E), NEW sel, NEW s \in Nat, NEW e \in Nat, ~Refused(p, s, e),
         NEW by, NEW next \in Nat, \A id \in Nat : id >= next => id \in sel
  PROVE  IsBlanked(TrackedReplace(p, s, e, <<>>, by, next).p.body, p.body, Cut(p, s, e), sel)
<1>1. p.body \in Bodies(E)
  BY DEF ParagraphsIn
<1>2. PICK cut, P, in : cut = Cut(p, s, e) /\ P = Place(p, s, e).after /\ in = Place(p, s, e).in
  OBVIOUS
<1>3. P \in 0..Len(p.body) /\ cut \in SUBSET (DOMAIN p.body) /\ IsFiniteSet(cut)
  BY <1>2, RangeIsInside
<1>4. PICK L : L = Struck(p, cut, by, next)
  OBVIOUS
<1>5. IsBlanked(L, p.body, cut, sel)
  BY <1>1, <1>3, <1>4, BlankedItem
<1>6. PICK F : L \in Bodies(F)
  <2>1. \A i \in cut : i <= P
    BY <1>2, CutBehind
  <2>2. \E F : E \subseteq F /\ Struck(p, cut, by, next) \in Bodies(F)
    BY <1>1, <1>3, <2>1, StruckIsCut
  <2> QED BY <1>4, <2>2
<1>7. PICK B : B = Spliced(L, P, <<>>)
  OBVIOUS
<1>8. PICK n : n = Len(p.body) /\ n \in Nat /\ n = Len(L) /\ P \in 0..n
  BY <1>1, <1>3, <1>5, LenProperties DEF Bodies, IsBlanked
<1>9. Len(B) = n /\ \A k \in 1..n : B[k] = L[k]
  <2>1. L \in Seq(ItemsIn(F)) /\ <<>> \in Seq(ItemsIn(F)) /\ P \in 0..Len(L)
    BY <1>6, <1>8, EmptySeq DEF Bodies, ItemsIn, Toks
  <2>2. IsSpliced(B, L, P, <<>>)
    BY <1>7, <2>1, SplicedIs
  <2>3. PICK x : x = <<>> /\ Len(x) = 0
    BY EmptySeq
  <2>4. /\ Len(B) = n + 0
        /\ \A k \in 1..P : B[k] = L[k]
        /\ \A k \in (P + 1)..n : B[k + 0] = L[k]
    BY <1>8, <2>2, <2>3 DEF IsSpliced
  <2>5. \A k \in (P + 1)..n : B[k] = L[k]
    <3>1. \A k \in (P + 1)..n : k + 0 = k
      BY <1>8
    <3> QED BY <2>4, <3>1
  <2>6. \A k \in 1..n : k \in 1..P \/ k \in (P + 1)..n
    BY <1>8
  <2> QED BY <1>8, <2>4, <2>5, <2>6
<1>10. IsBlanked(B, p.body, cut, sel)
  BY <1>5, <1>8, <1>9 DEF IsBlanked
<1>11. TrackedReplace(p, s, e, <<>>, by, next).p.body = B
  <2>1. Items(<<>>, Append(in, Element("ins", by, next + Cardinality({i \in cut : i - 1 \notin cut})))) = <<>>
    BY DEF Items
  <2>2. p = [id |-> p.id, mark |-> p.mark, body |-> p.body]
    BY DEF ParagraphsIn
  <2> QED BY <1>2, <1>4, <1>7, <2>1, <2>2 DEF TrackedReplace
<1> QED BY <1>2, <1>10, <1>11

(* Only inserted text that stays inserted: no opening, no foreign deletion. *)
Plainly(body, sel) ==
  \A i \in DOMAIN body : /\ body[i].tok # Open
                         /\ \A k \in DOMAIN body[i].in : body[i].in[k].kind = "del" => body[i].in[k].id \in sel

(* A replacement that blanks the accepted paragraph blanks this one.       *)
LEMMA BlanksBoth ==
  ASSUME NEW E, NEW p \in ParagraphsIn(E), NEW sel, NEW c \in ParagraphsIn(E), NEW q,
         Takes(c.body, q, p.body, sel), NEW s \in Nat, NEW e \in Nat, s <= e, ~Refused(p, s, e),
         NEW new, Blanks(c, s, e, new)
  PROVE  Blanks(p, s, e, new)
<1>1. p.body \in Bodies(E) /\ c.body \in Bodies(E)
  BY DEF ParagraphsIn
<1>2. PICK n, m : /\ n = Len(p.body) /\ n \in Nat /\ DOMAIN p.body = 1..n /\ p.body \in [1..n -> ItemsIn(E)]
                  /\ m = Len(c.body) /\ m \in Nat /\ DOMAIN c.body = 1..m
  BY <1>1, LenProperties DEF Bodies, ItemsIn, Toks
<1>3. /\ q \in [1..m -> 1..n]
      /\ \A i, k \in 1..m : i < k => q[i] < q[k]
      /\ \A j \in 1..n : Gone(p.body[j], "del", "ins", sel) <=> ~\E k \in 1..m : q[k] = j
      /\ \A k \in 1..m : c.body[k] = Unwrapped(p.body[q[k]], "ins", sel)
  BY <1>2 DEF Takes
<1>4. PICK at, l : /\ at = ShownAt(p.body) /\ l = Len(at) /\ l \in Nat /\ at \in [1..l -> Shown(p.body)]
                   /\ DOMAIN at = 1..l
                   /\ Shown(p.body) \in SUBSET (1..n)
  BY <1>1, <1>2, TextOfBody
<1>5. PICK to : to = ShownAt(c.body)
  OBVIOUS
<1>6. Len(to) = l /\ \A k \in 1..l : to[k] \in 1..m /\ q[to[k]] = at[k]
  <2>1. ShownAlike(q, p, c)
    BY <1>1, TakenShows
  <2> QED BY <1>2, <1>4, <1>5, <2>1 DEF ShownAlike
<1>7. s = 0 /\ e = l /\ new = <<>> /\ ~\E i \in to[1]..to[e] : c.body[i].tok = Obj /\ c.body[i].in = c.body[to[e]].in
  BY <1>5, <1>6 DEF Blanks
<1>8. l >= 1
  <2>1. at # <<>>
    BY <1>4 DEF Refused
  <2>2. at \in Seq(Nat)
    BY <1>1, <1>4, ShownIsListed, SeqMonotonic
  <2> QED BY <1>4, <2>1, <2>2, EmptySeq
<1>9. ASSUME NEW i \in at[1]..at[e], p.body[i].tok = Obj, p.body[i].in = p.body[at[e]].in PROVE FALSE
  <2>1. 1 \in 1..l /\ e \in 1..l
    BY <1>7, <1>8
  <2>2. at[1] \in 1..n /\ at[e] \in 1..n /\ at[e] \in Shown(p.body)
    BY <1>4, <2>1
  <2>3. i \in 1..n
    BY <1>2, <2>2
  <2>4. PICK x, y : x = p.body[i] /\ y = p.body[at[e]] /\ x \in ItemsIn(E) /\ y \in ItemsIn(E)
    BY <1>2, <2>2, <2>3
  <2>5. ~Within(y, {"del"})
    BY <2>2, <2>4 DEF Shown
  <2>6. x.in = y.in /\ x.tok = Obj
    BY <1>9, <2>4
  <2>7. ~Gone(x, "del", "ins", sel)
    BY <2>5, <2>6, TokensAssumption DEF Within, Gone
  <2>8. PICK k \in 1..m : q[k] = i
    BY <1>3, <2>3, <2>4, <2>7
  <2>9. c.body[k] = Unwrapped(x, "ins", sel) /\ c.body[to[e]] = Unwrapped(y, "ins", sel)
    BY <1>3, <1>6, <2>1, <2>4, <2>8
  <2>10. Unwrapped(x, "ins", sel).tok = Obj /\ Unwrapped(x, "ins", sel).in = Unwrapped(y, "ins", sel).in
    <3>1. /\ Unwrapped(x, "ins", sel).tok = x.tok
          /\ Unwrapped(x, "ins", sel).in = Picked(x.in, Around(x, "ins", sel))
      BY <2>4, UnwrappedIs
    <3>2. Unwrapped(y, "ins", sel).in = Picked(y.in, Around(y, "ins", sel))
      BY <2>4, UnwrappedIs
    <3>3. Around(x, "ins", sel) = Around(y, "ins", sel)
      BY <2>6 DEF Around
    <3> QED BY <2>6, <3>1, <3>2, <3>3
  <2>11. k \in to[1]..to[e]
    <3>1. to[1] \in 1..m /\ to[e] \in 1..m /\ q[to[1]] <= q[k] /\ q[k] <= q[to[e]]
      BY <1>6, <2>1, <2>2, <2>8
    <3>2. \A a, b \in 1..m : q[a] <= q[b] => a <= b
      BY <1>3
    <3> QED BY <3>1, <3>2
  <2> QED BY <1>7, <2>9, <2>10, <2>11
<1>10. new = <<>> /\ s = 0 /\ e = Len(at)
  BY <1>4, <1>7
<1> QED BY <1>4, <1>9, <1>10 DEF Blanks

(* Whether a blanked paragraph is inert is whether anything is left of it. *)
BlankedAlike(p, c, s, e, new, B, sel) ==
  /\ Inert(B, TRUE) <=> Taken(B, sel) = <<>>
  /\ Blanks(c, s, e, new) /\ Inert(Taken(B, sel), FALSE) <=> Taken(B, sel) = <<>>

LEMMA BlankAlike ==
  ASSUME NEW E, NEW p \in ParagraphsIn(E), NEW sel, NEW c \in ParagraphsIn(E), NEW q,
         Takes(c.body, q, p.body, sel), NEW s \in Nat, NEW e \in Nat, s <= e, ~Refused(p, s, e),
         NEW by, NEW next \in Nat, \A id \in Nat : id >= next => id \in sel,
         NEW new, Blanks(p, s, e, new), Plainly(p.body, sel),
         NEW B, B = TrackedReplace(p, s, e, new, by, next).p.body
  PROVE  BlankedAlike(p, c, s, e, new, B, sel)
<1>1. p.body \in Bodies(E) /\ c.body \in Bodies(E)
  BY DEF ParagraphsIn
<1>2. PICK n, m : /\ n = Len(p.body) /\ n \in Nat /\ DOMAIN p.body = 1..n /\ p.body \in [1..n -> ItemsIn(E)]
                  /\ m = Len(c.body) /\ m \in Nat /\ DOMAIN c.body = 1..m
  BY <1>1, LenProperties DEF Bodies, ItemsIn, Toks
<1>3. /\ q \in [1..m -> 1..n]
      /\ \A j \in 1..n : Gone(p.body[j], "del", "ins", sel) <=> ~\E k \in 1..m : q[k] = j
      /\ \A k \in 1..m : c.body[k] = Unwrapped(p.body[q[k]], "ins", sel)
  BY <1>2 DEF Takes
<1>4. new = <<>> /\ s = 0 /\ e = Len(ShownAt(p.body))
  BY DEF Blanks
<1>5. PICK cut : cut = Cut(p, s, e)
  OBVIOUS
<1>6. /\ Len(B) = n
      /\ \A i \in 1..n : B[i].tok = p.body[i].tok
      /\ \A i \in 1..n : i \notin cut => B[i] = p.body[i]
      /\ \A i \in 1..n : i \in cut =>
           \E el : el.kind = "del" /\ el.id \in sel /\ B[i].in = Append(p.body[i].in, el)
  <2>1. IsBlanked(B, p.body, cut, sel)
    BY <1>4, <1>5, BlankedBody
  <2> QED BY <1>2, <2>1 DEF IsBlanked
<1>7. PICK F : B \in Bodies(F)
  <2>1. new \in Seq(Tokens)
    BY <1>4, EmptySeq
  <2>2. PICK r : r = TrackedReplace(p, s, e, new, by, next)
    OBVIOUS
  <2>3. r.p \in ParagraphsIn(E \cup Given(by, next, r.next))
    BY <2>1, <2>2, TrackedReplaceAdds
  <2> QED BY <2>2, <2>3 DEF ParagraphsIn
<1>8. DOMAIN B = 1..n /\ B \in [1..n -> ItemsIn(F)]
  BY <1>6, <1>7, LenProperties DEF Bodies, ItemsIn, Toks
<1>9. \A i \in 1..n : p.body[i].tok # Open /\ B[i].tok # Open
  BY <1>2, <1>6 DEF Plainly
<1>10. ASSUME NEW i \in 1..n PROVE Gone(B[i], "del", "ins", sel) <=> Within(B[i], {"del"})
  <2>1. CASE i \in cut
    <3>1. PICK el : el.kind = "del" /\ el.id \in sel /\ B[i].in = Append(p.body[i].in, el)
      BY <1>6, <2>1
    <3>2. PICK k \in DOMAIN B[i].in : B[i].in[k] = el
      <4>1. PICK in : in = p.body[i].in /\ in \in Seq(E)
        BY <1>2 DEF ItemsIn
      <4>2. in \in Seq(E \cup {el}) /\ el \in E \cup {el} /\ Len(in) \in Nat
        BY <4>1, SeqMonotonic, LenProperties
      <4>3. Len(in) + 1 \in DOMAIN Append(in, el) /\ Append(in, el)[Len(in) + 1] = el
        BY <4>2, AppendProperties
      <4> QED BY <3>1, <4>1, <4>3
    <3> QED BY <3>1, <3>2 DEF Gone, Within
  <2>2. CASE i \notin cut
    <3>1. B[i] = p.body[i]
      BY <1>6, <2>2
    <3>2. \A k \in DOMAIN B[i].in : B[i].in[k].kind = "del" => B[i].in[k].id \in sel
      BY <1>2, <3>1 DEF Plainly
    <3> QED BY <1>9, <3>2 DEF Gone, Within
  <2> QED BY <2>1, <2>2
<1>11. PICK R : R = Taken(B, sel)
  OBVIOUS
<1>12. PICK h : Takes(R, h, B, sel) /\ R \in Bodies(F)
  BY <1>7, <1>11, TakenIs
<1>13. PICK l : l = Len(R) /\ l \in Nat /\ DOMAIN R = 1..l
  BY <1>12, LenProperties DEF Bodies
<1>14. /\ h \in [1..l -> 1..n]
       /\ \A j \in 1..n : Gone(B[j], "del", "ins", sel) <=> ~\E k \in 1..l : h[k] = j
       /\ \A k \in 1..l : R[k] = Unwrapped(B[h[k]], "ins", sel)
  BY <1>6, <1>12, <1>13 DEF Takes
<1>15. R = <<>> <=> l = 0
  BY <1>12, <1>13, EmptySeq DEF Bodies
<1>16. Inert(B, TRUE) <=> \A i \in 1..n : Within(B[i], {"del"})
  BY <1>8, <1>9 DEF Inert
<1>17. (\A i \in 1..n : Within(B[i], {"del"})) <=> l = 0
  <2>1. ASSUME \A i \in 1..n : Within(B[i], {"del"}), l # 0 PROVE FALSE
    <3>1. 1 \in 1..l
      BY <1>13, <2>1
    <3>2. h[1] \in 1..n
      BY <1>14, <3>1
    <3> QED BY <1>10, <1>14, <2>1, <3>1, <3>2
  <2>2. ASSUME l = 0, NEW i \in 1..n PROVE Within(B[i], {"del"})
    <3>1. \A k \in 1..l : FALSE
      BY <2>2
    <3> QED BY <1>10, <1>14, <3>1
  <2> QED BY <2>1, <2>2
<1>18. Inert(R, FALSE) <=> l = 0
  <2>1. ASSUME Inert(R, FALSE), l # 0 PROVE FALSE
    <3>1. 1 \in 1..l
      BY <1>13, <2>1
    <3>2. h[1] \in 1..n /\ R[1] = Unwrapped(B[h[1]], "ins", sel) /\ B[h[1]] \in ItemsIn(F)
      BY <1>8, <1>14, <3>1
    <3>3. R[1].tok = B[h[1]].tok
      BY <3>2, UnwrappedIs
    <3>4. R[1].tok = Open
      BY <1>13, <2>1, <3>1 DEF Inert
    <3> QED BY <1>9, <3>2, <3>3, <3>4
  <2>2. ASSUME l = 0 PROVE Inert(R, FALSE)
    <3>1. \A k \in DOMAIN R : FALSE
      BY <1>13, <2>2
    <3> QED BY <3>1 DEF Inert
  <2> QED BY <2>1, <2>2
<1>19. ASSUME l = 0 PROVE Blanks(c, s, e, new)
  <2>1. \A i \in 1..n : Gone(B[i], "del", "ins", sel)
    <3>1. \A k \in 1..l : FALSE
      BY <1>19
    <3> QED BY <1>14, <3>1
  <2>2. e = Len(ShownAt(c.body))
    <3>1. ShownAlike(q, p, c)
      BY <1>1, TakenShows
    <3> QED BY <1>4, <3>1 DEF ShownAlike
  <2>3. ASSUME NEW i \in 1..m, c.body[i].tok = Obj PROVE FALSE
    <3>1. q[i] \in 1..n /\ p.body[q[i]] \in ItemsIn(E) /\ c.body[i] = Unwrapped(p.body[q[i]], "ins", sel)
      BY <1>2, <1>3
    <3>2. p.body[q[i]].tok = Obj
      BY <2>3, <3>1, UnwrappedIs
    <3>3. q[i] \notin cut
      <4>1. ~Seen(p.body[q[i]])
        BY <3>2, TokensAssumption DEF Seen
      <4> QED BY <1>5, <4>1, CutBehind
    <3>4. B[q[i]] = p.body[q[i]]
      BY <1>6, <3>1, <3>3
    <3> QED BY <1>3, <2>1, <3>1, <3>4
  <2>4. \A i \in ShownAt(c.body)[1]..ShownAt(c.body)[e] : c.body[i].tok = Obj => i \notin 1..m
    BY <2>3
  <2>5. e >= 1
    <3>1. ShownAt(p.body) # <<>>
      BY DEF Refused
    <3>2. ShownAt(p.body) \in Seq(1..n)
      BY <1>1, <1>2, ShownIsListed
    <3>3. Len(ShownAt(p.body)) \in Nat
      BY <3>2, LenProperties
    <3> QED BY <1>4, <3>1, <3>2, <3>3, EmptySeq
  <2>6. ShownAt(c.body)[1] \in 1..m /\ ShownAt(c.body)[e] \in 1..m
    <3>1. ShownAlike(q, p, c)
      BY <1>1, TakenShows
    <3>2. 1 \in 1..e /\ e \in 1..e
      BY <2>5
    <3> QED BY <1>2, <1>4, <3>1, <3>2 DEF ShownAlike
  <2>7. \A i \in ShownAt(c.body)[1]..ShownAt(c.body)[e] : i \in 1..m
    BY <1>2, <2>6
  <2> QED BY <1>4, <2>2, <2>4, <2>7 DEF Blanks
<1> QED BY <1>11, <1>15, <1>16, <1>17, <1>18, <1>19 DEF BlankedAlike

(***************************************************************************)
(* Twins: a document and what the same edits made without tracking         *)
(***************************************************************************)

IsInserted(z, s, a, p) ==
  /\ Len(z) = Len(s) + 1 /\ z[a + 1] = p
  /\ \A i \in 1..a : z[i] = s[i]
  /\ \A i \in (a + 1)..Len(s) : z[i + 1] = s[i]

IsRemoved(z, s, j) ==
  /\ Len(z) = Len(s) - 1
  /\ \A i \in 1..(j - 1) : z[i] = s[i]
  /\ \A i \in j..(Len(s) - 1) : z[i] = s[i + 1]

(* What InsertedAt and RemoveAt do to a sequence.                          *)
LEMMA OneInserted ==
  ASSUME NEW T, NEW d \in Seq(T), NEW p \in T, NEW a \in 0..Len(d), NEW j, NEW pos,
         a + 1 = IF pos = "AFTER" THEN j + 1 ELSE j
  PROVE  InsertedAt(d, j, pos, p) \in Seq(T) /\ IsInserted(InsertedAt(d, j, pos, p), d, a, p)
<1>1. PICK n \in Nat : n = Len(d) /\ a \in 0..n
  BY LenProperties
<1>2. PICK q \in Seq(T) : q = <<p>> /\ Len(q) = 1 /\ q[1] = p
  <2>1. <<p>> \in Seq(T)
    OBVIOUS
  <2> QED BY <2>1
<1>3. PICK z : z = Spliced(d, a, q)
  OBVIOUS
<1>4. z = InsertedAt(d, j, pos, p)
  <2>1. (a + 1) - 1 = a
    BY <1>1
  <2>2. InsertedAt(d, j, pos, p) = InsertAt(d, a + 1, p)
    BY DEF InsertedAt
  <2> QED BY <1>2, <1>3, <2>1, <2>2 DEF InsertAt, Spliced
<1>5. z \in Seq(T) /\ IsSpliced(z, d, a, q)
  BY <1>2, <1>3, SplicedIs
<1>6. /\ Len(z) = n + 1
      /\ \A k \in 1..a : z[k] = d[k]
      /\ \A t \in 1..1 : z[a + t] = q[t]
      /\ \A k \in (a + 1)..n : z[k + 1] = d[k]
  BY <1>1, <1>2, <1>5 DEF IsSpliced
<1>7. z[a + 1] = p
  BY <1>2, <1>6
<1> QED BY <1>1, <1>4, <1>5, <1>6, <1>7 DEF IsInserted

LEMMA OneRemoved ==
  ASSUME NEW T, NEW d \in Seq(T), NEW j \in 1..Len(d)
  PROVE  RemoveAt(d, j) \in Seq(T) /\ IsRemoved(RemoveAt(d, j), d, j)
<1>2. PICK n : n = Len(d) /\ n \in Nat /\ DOMAIN d = 1..n /\ j \in 1..n
  BY LenProperties
<1>3. PICK z, x : z = RemoveAt(d, j) /\ x = <<>>
  OBVIOUS
<1>4. x \in Seq(T) /\ Len(x) = 0
  BY <1>3, EmptySeq
<1>5. j - 1 \in Nat /\ j \in Nat /\ j - 1 <= j /\ j <= Len(d)
  BY <1>2
<1>6. PutInto(d, j - 1, j, x) \in Seq(T) /\ IsPut(PutInto(d, j - 1, j, x), d, j - 1, j, x)
  BY <1>4, <1>5, Joined
<1>7. PutInto(d, j - 1, j, x) = z
  <2>1. SubSeq(d, 1, j - 1) \in Seq(T)
    BY <1>2, ElementOfSeq, SubSeqProperties
  <2>2. SubSeq(d, 1, j - 1) \o <<>> = SubSeq(d, 1, j - 1)
    BY <2>1, ConcatEmptySeq
  <2> QED BY <1>3, <2>2 DEF PutInto, RemoveAt
<1>8. z \in Seq(T) /\ IsPut(z, d, j - 1, j, x)
  BY <1>6, <1>7
<1>9. /\ Len(z) = Len(d) - (j - (j - 1)) + Len(x)
      /\ \A k \in 1..(j - 1) : z[k] = d[k]
      /\ \A k \in (j - 1 + Len(x) + 1)..(Len(d) - (j - (j - 1)) + Len(x)) :
           z[k] = d[k - Len(x) + (j - (j - 1))]
  BY <1>8 DEF IsPut
<1>10. Len(z) = n - 1 /\ j - 1 + Len(x) + 1 = j /\ Len(d) - (j - (j - 1)) + Len(x) = n - 1
  BY <1>2, <1>4, <1>9
<1>11. ASSUME NEW k \in j..(n - 1) PROVE z[k] = d[k + 1]
  <2>1. PICK m : m = k - Len(x) + (j - (j - 1))
    OBVIOUS
  <2>2. m = k + 1
    BY <1>2, <1>4, <2>1
  <2>3. z[k] = d[m]
    BY <1>9, <1>10, <2>1
  <2> QED BY <2>2, <2>3
<1> QED BY <1>2, <1>3, <1>8, <1>9, <1>10, <1>11 DEF IsRemoved

(* A paragraph of the document and its twin.  Only a paragraph nothing is  *)
(* left of, with a deleted mark, has none.                                 *)
TwinOf(c, p, sel) ==
  /\ ~\E r \in p.mark : r.kind = "del" /\ r.id \in sel
  /\ c.mark = MarkLeft(p.mark, sel)
  /\ c.body = Taken(p.body, sel)

Extra(p, sel) == (\E r \in p.mark : r.kind = "del") /\ Taken(p.body, sel) = <<>>

(* g leads from the paragraphs of c to their twins in d, in order.         *)
Twins(g, c, d, sel) ==
  /\ g \in [1..Len(c) -> 1..Len(d)] /\ Increases(g, Len(c))
  /\ \A k \in 1..Len(c) : TwinOf(c[k], d[g[k]], sel)
  /\ \A j \in 1..Len(d) : (\E k \in 1..Len(c) : g[k] = j) \/ Extra(d[j], sel)
  /\ \A j \in 1..Len(d), k \in 1..Len(c) : d[j].id = c[k].id => g[k] = j

IsChanged(z, s, j, p) ==
  /\ Len(z) = Len(s) /\ z[j] = p /\ p.id = s[j].id
  /\ \A i \in 1..Len(s) : i # j => z[i] = s[i]

(* Twins that are changed alike are twins.                                 *)
LEMMA TwinChanged ==
  ASSUME NEW c, NEW d, Len(c) \in Nat, Len(d) \in Nat, NEW sel, NEW g, Twins(g, c, d, sel),
         NEW k \in 1..Len(c), NEW pc, NEW pd, TwinOf(pc, pd, sel),
         NEW zc, IsChanged(zc, c, k, pc), NEW zd, IsChanged(zd, d, g[k], pd)
  PROVE  Twins(g, zc, zd, sel)
<1>1. PICK n \in Nat, m \in Nat : n = Len(d) /\ n = Len(zd) /\ m = Len(c) /\ m = Len(zc)
  BY DEF IsChanged
<1>2. /\ g \in [1..m -> 1..n] /\ Increases(g, m)
      /\ \A i \in 1..m : TwinOf(c[i], d[g[i]], sel)
      /\ \A j \in 1..n : (\E i \in 1..m : g[i] = j) \/ Extra(d[j], sel)
      /\ \A j \in 1..n, i \in 1..m : d[j].id = c[i].id => g[i] = j
  BY <1>1 DEF Twins
<1>3. k \in 1..m /\ zc[k] = pc /\ pc.id = c[k].id /\ \A i \in 1..m : i # k => zc[i] = c[i]
  BY <1>1 DEF IsChanged
<1>4. zd[g[k]] = pd /\ pd.id = d[g[k]].id /\ \A j \in 1..n : j # g[k] => zd[j] = d[j]
  BY <1>1 DEF IsChanged
<1>5. ASSUME NEW i \in 1..m PROVE TwinOf(zc[i], zd[g[i]], sel)
  <2>1. CASE i = k
    BY <1>3, <1>4, <2>1
  <2>2. CASE i # k
    <3>1. g[i] # g[k] /\ g[i] \in 1..n
      <4>1. i < k \/ k < i
        BY <1>3, <2>2
      <4>2. g[i] < g[k] \/ g[k] < g[i]
        BY <1>2, <1>3, <4>1 DEF Increases
      <4>3. g[i] \in 1..n /\ g[k] \in 1..n
        BY <1>2, <1>3
      <4> QED BY <4>2, <4>3
    <3> QED BY <1>2, <1>3, <1>4, <2>2, <3>1
  <2> QED BY <2>1, <2>2
<1>6. ASSUME NEW j \in 1..n PROVE (\E i \in 1..m : g[i] = j) \/ Extra(zd[j], sel)
  BY <1>2, <1>3, <1>4
<1>7. \A j \in 1..n : zd[j].id = d[j].id
  BY <1>4
<1>8. \A i \in 1..m : zc[i].id = c[i].id
  BY <1>3
<1>9. \A j \in 1..n, i \in 1..m : zd[j].id = zc[i].id => g[i] = j
  BY <1>2, <1>7, <1>8
<1> QED BY <1>1, <1>2, <1>5, <1>6, <1>9 DEF Twins

(* One is gone, nothing is left of the other.                              *)
LEMMA TwinRemoved ==
  ASSUME NEW c, NEW d, Len(c) \in Nat, Len(d) \in Nat, NEW sel, NEW g, Twins(g, c, d, sel),
         NEW k \in 1..Len(c), NEW pd, Extra(pd, sel),
         NEW zc, IsRemoved(zc, c, k), NEW zd, IsChanged(zd, d, g[k], pd)
  PROVE  \E h : Twins(h, zc, zd, sel)
<1>1. PICK n \in Nat, m \in Nat : n = Len(d) /\ n = Len(zd) /\ m = Len(c)
  BY DEF IsChanged
<1>2. /\ g \in [1..m -> 1..n]
      /\ \A i, j \in 1..m : i < j => g[i] < g[j]
      /\ \A i \in 1..m : TwinOf(c[i], d[g[i]], sel)
      /\ \A j \in 1..n : (\E i \in 1..m : g[i] = j) \/ Extra(d[j], sel)
      /\ \A j \in 1..n, i \in 1..m : d[j].id = c[i].id => g[i] = j
  BY <1>1 DEF Twins, Increases
<1>3. k \in 1..m /\ zd[g[k]] = pd /\ pd.id = d[g[k]].id /\ \A j \in 1..n : j # g[k] => zd[j] = d[j]
  BY <1>1 DEF IsChanged
<1>4. PICK l \in Nat : l = m - 1 /\ l = Len(zc)
  <2>1. Len(zc) = m - 1
    BY <1>1 DEF IsRemoved
  <2>2. m - 1 \in Nat
    BY <1>3
  <2> QED BY <2>1, <2>2
<1>5. PICK f : f = [i \in 1..l |-> IF i < k THEN i ELSE i + 1]
  OBVIOUS
<1>6. ASSUME NEW i \in 1..l PROVE f[i] \in 1..m /\ f[i] # k /\ zc[i] = c[f[i]]
  <2>0. /\ \A h \in 1..(k - 1) : zc[h] = c[h]
        /\ \A h \in k..(m - 1) : zc[h] = c[h + 1]
    BY <1>1 DEF IsRemoved
  <2>1. CASE i < k
    <3>1. i \in 1..(k - 1) /\ i \in 1..m
      BY <1>3, <1>4, <2>1
    <3> QED BY <1>5, <2>0, <2>1, <3>1
  <2>2. CASE ~(i < k)
    <3>1. i \in k..(m - 1) /\ i + 1 \in 1..m /\ i + 1 # k
      BY <1>3, <1>4, <2>2
    <3> QED BY <1>5, <2>0, <2>2, <3>1
  <2> QED BY <2>1, <2>2
<1>7. \A i, j \in 1..l : i < j => f[i] < f[j]
  BY <1>3, <1>4, <1>5
<1>8. \A i \in 1..m : i # k => \E h \in 1..l : f[h] = i
  <2> SUFFICES ASSUME NEW i \in 1..m, i # k PROVE \E h \in 1..l : f[h] = i
    OBVIOUS
  <2>1. CASE i < k
    <3>1. i \in 1..l
      BY <1>3, <1>4, <2>1
    <3> QED BY <1>5, <2>1, <3>1
  <2>2. CASE ~(i < k)
    <3>1. i - 1 \in 1..l /\ ~(i - 1 < k) /\ (i - 1) + 1 = i
      BY <1>3, <1>4, <2>2
    <3> QED BY <1>5, <3>1
  <2> QED BY <2>1, <2>2
<1>9. PICK h : h = [i \in 1..l |-> g[f[i]]]
  OBVIOUS
<1>10. h \in [1..l -> 1..n]
  BY <1>2, <1>6, <1>9
<1>11. Increases(h, l)
  <2> SUFFICES ASSUME NEW i \in 1..l, NEW j \in 1..l, i < j PROVE h[i] < h[j]
    BY DEF Increases
  <2> QED BY <1>2, <1>6, <1>7, <1>9
<1>12. \A i \in 1..m : i # k => g[i] # g[k] /\ g[i] \in 1..n
  <2> SUFFICES ASSUME NEW i \in 1..m, i # k PROVE g[i] # g[k] /\ g[i] \in 1..n
    OBVIOUS
  <2>1. i < k \/ k < i
    BY <1>3
  <2>2. g[i] < g[k] \/ g[k] < g[i]
    BY <1>2, <1>3, <2>1
  <2>3. g[i] \in 1..n /\ g[k] \in 1..n
    BY <1>2, <1>3
  <2> QED BY <2>2, <2>3
<1>13. ASSUME NEW i \in 1..l PROVE TwinOf(zc[i], zd[h[i]], sel)
  <2>1. f[i] \in 1..m /\ f[i] # k /\ zc[i] = c[f[i]] /\ h[i] = g[f[i]]
    BY <1>6, <1>9
  <2>2. zd[g[f[i]]] = d[g[f[i]]]
    BY <1>3, <1>12, <2>1
  <2> QED BY <1>2, <2>1, <2>2
<1>14. ASSUME NEW j \in 1..n PROVE (\E i \in 1..l : h[i] = j) \/ Extra(zd[j], sel)
  <2>1. CASE j = g[k]
    BY <1>3, <2>1
  <2>2. CASE j # g[k]
    <3>1. CASE Extra(d[j], sel)
      BY <1>3, <2>2, <3>1
    <3>2. CASE \E i \in 1..m : g[i] = j
      <4>1. PICK i \in 1..m : g[i] = j /\ i # k
        BY <2>2, <3>2
      <4>2. PICK a \in 1..l : f[a] = i
        BY <1>8, <4>1
      <4> QED BY <1>9, <4>1, <4>2
    <3> QED BY <1>2, <3>1, <3>2
  <2> QED BY <2>1, <2>2
<1>15. ASSUME NEW j \in 1..n, NEW i \in 1..l, zd[j].id = zc[i].id PROVE h[i] = j
  <2>1. zd[j].id = d[j].id
    BY <1>3
  <2>2. f[i] \in 1..m /\ zc[i] = c[f[i]] /\ h[i] = g[f[i]]
    BY <1>6, <1>9
  <2> QED BY <1>2, <1>15, <2>1, <2>2
<1>16. Twins(h, zc, zd, sel)
  BY <1>1, <1>4, <1>10, <1>11, <1>13, <1>14, <1>15 DEF Twins
<1> QED BY <1>16

(* New twins at corresponding places.                                      *)
LEMMA TwinInserted ==
  ASSUME NEW c, NEW d, Len(c) \in Nat, Len(d) \in Nat, NEW sel, NEW g, Twins(g, c, d, sel),
         NEW a \in 0..Len(d), NEW b \in 0..Len(c), \A i \in 1..Len(c) : i <= b <=> g[i] <= a,
         NEW pc, NEW pd, TwinOf(pc, pd, sel),
         \A j \in 1..Len(d) : d[j].id # pc.id, \A i \in 1..Len(c) : c[i].id # pd.id,
         NEW zc, IsInserted(zc, c, b, pc), NEW zd, IsInserted(zd, d, a, pd)
  PROVE  \E h : Twins(h, zc, zd, sel)
<1>1. PICK n \in Nat, m \in Nat : n = Len(d) /\ m = Len(c) /\ a \in 0..n /\ b \in 0..m
  OBVIOUS
<1>2. /\ g \in [1..m -> 1..n]
      /\ \A i, j \in 1..m : i < j => g[i] < g[j]
      /\ \A i \in 1..m : TwinOf(c[i], d[g[i]], sel)
      /\ \A j \in 1..n : (\E i \in 1..m : g[i] = j) \/ Extra(d[j], sel)
      /\ \A j \in 1..n, i \in 1..m : d[j].id = c[i].id => g[i] = j
  BY <1>1 DEF Twins, Increases
<1>3. \A i \in 1..m : i <= b <=> g[i] <= a
  BY <1>1
<1>4. /\ Len(zd) = n + 1 /\ zd[a + 1] = pd
      /\ \A j \in 1..a : zd[j] = d[j]
      /\ \A j \in (a + 1)..n : zd[j + 1] = d[j]
  BY <1>1 DEF IsInserted
<1>5. /\ Len(zc) = m + 1 /\ zc[b + 1] = pc
      /\ \A i \in 1..b : zc[i] = c[i]
      /\ \A i \in (b + 1)..m : zc[i + 1] = c[i]
  BY <1>1 DEF IsInserted
<1>6. PICK h : h = [i \in 1..(m + 1) |-> IF i <= b THEN g[i] ELSE IF i = b + 1 THEN a + 1 ELSE g[i - 1] + 1]
  OBVIOUS
<1>7. \A i \in 1..b : i \in 1..m /\ i \in 1..(m + 1) /\ h[i] = g[i] /\ g[i] \in 1..a
  <2> SUFFICES ASSUME NEW i \in 1..b PROVE i \in 1..m /\ i \in 1..(m + 1) /\ h[i] = g[i] /\ g[i] \in 1..a
    OBVIOUS
  <2>1. i \in 1..m /\ i \in 1..(m + 1) /\ i <= b
    BY <1>1
  <2>2. g[i] \in 1..n /\ g[i] <= a
    BY <1>2, <1>3, <2>1
  <2> QED BY <1>1, <1>6, <2>1, <2>2
<1>8. b + 1 \in 1..(m + 1) /\ h[b + 1] = a + 1
  <2>1. b + 1 \in 1..(m + 1) /\ ~(b + 1 <= b)
    BY <1>1
  <2> QED BY <1>6, <2>1
<1>9. \A i \in (b + 1)..m : i \in 1..m /\ i + 1 \in 1..(m + 1) /\ h[i + 1] = g[i] + 1 /\ g[i] \in (a + 1)..n
  <2> SUFFICES ASSUME NEW i \in (b + 1)..m
               PROVE  i \in 1..m /\ i + 1 \in 1..(m + 1) /\ h[i + 1] = g[i] + 1 /\ g[i] \in (a + 1)..n
    OBVIOUS
  <2>1. i \in 1..m /\ i + 1 \in 1..(m + 1) /\ ~(i <= b) /\ ~(i + 1 <= b) /\ i + 1 # b + 1 /\ (i + 1) - 1 = i
    BY <1>1
  <2>2. g[i] \in 1..n /\ ~(g[i] <= a)
    BY <1>2, <1>3, <2>1
  <2>3. g[i] \in (a + 1)..n
    BY <1>1, <2>2
  <2> QED BY <1>6, <2>1, <2>3
<1>10. \A i \in 1..(m + 1) : i \in 1..b \/ i = b + 1 \/ \E k \in (b + 1)..m : i = k + 1
  <2> SUFFICES ASSUME NEW i \in 1..(m + 1) PROVE i \in 1..b \/ i = b + 1 \/ \E k \in (b + 1)..m : i = k + 1
    OBVIOUS
  <2>1. CASE i <= b + 1
    BY <1>1, <2>1
  <2>2. CASE ~(i <= b + 1)
    <3>1. i - 1 \in (b + 1)..m /\ i = (i - 1) + 1
      BY <1>1, <2>2
    <3> QED BY <3>1
  <2> QED BY <1>1, <2>1, <2>2
<1>11. \A j \in 1..(n + 1) : j \in 1..a \/ j = a + 1 \/ \E k \in (a + 1)..n : j = k + 1
  <2> SUFFICES ASSUME NEW i \in 1..(n + 1) PROVE i \in 1..a \/ i = a + 1 \/ \E k \in (a + 1)..n : i = k + 1
    OBVIOUS
  <2>1. CASE i <= a + 1
    BY <1>1, <2>1
  <2>2. CASE ~(i <= a + 1)
    <3>1. i - 1 \in (a + 1)..n /\ i = (i - 1) + 1
      BY <1>1, <2>2
    <3> QED BY <3>1
  <2> QED BY <1>1, <2>1, <2>2
<1>12. h \in [1..(m + 1) -> 1..(n + 1)]
  <2>1. ASSUME NEW i \in 1..(m + 1) PROVE h[i] \in 1..(n + 1)
    <3>1. CASE i \in 1..b
      BY <1>1, <1>7, <3>1
    <3>2. CASE i = b + 1
      BY <1>1, <1>8, <3>2
    <3>3. CASE \E k \in (b + 1)..m : i = k + 1
      BY <1>1, <1>9, <3>3
    <3> QED BY <1>10, <3>1, <3>2, <3>3
  <2> QED BY <1>6, <2>1
<1>13. ASSUME NEW i \in 1..(m + 1), NEW k \in 1..(m + 1), i < k PROVE h[i] < h[k]
  <2>1. CASE i \in 1..b /\ k \in 1..b
    BY <1>2, <1>7, <1>13, <2>1
  <2>2. CASE i \in 1..b /\ k = b + 1
    BY <1>1, <1>7, <1>8, <2>2
  <2>3. CASE k \notin 1..b /\ k # b + 1
    <3>1. PICK v \in (b + 1)..m : k = v + 1 /\ v \in 1..m
      BY <1>9, <1>10, <2>3
    <3>2. h[k] = g[v] + 1 /\ g[v] \in (a + 1)..n
      BY <1>9, <3>1
    <3>3. CASE i \in 1..b
      BY <1>1, <1>7, <3>2, <3>3
    <3>4. CASE i = b + 1
      BY <1>1, <1>8, <3>2, <3>4
    <3>5. CASE \E u \in (b + 1)..m : i = u + 1
      <4>1. PICK u \in (b + 1)..m : i = u + 1 /\ u \in 1..m
        BY <1>9, <3>5
      <4>2. u < v /\ h[i] = g[u] + 1 /\ g[u] \in (a + 1)..n
        BY <1>1, <1>9, <1>13, <3>1, <4>1
      <4>3. g[u] < g[v]
        BY <1>2, <3>1, <4>1, <4>2
      <4> QED BY <1>1, <3>2, <4>2, <4>3
    <3> QED BY <1>10, <3>3, <3>4, <3>5
  <2>4. i \in 1..b \/ (k \notin 1..b /\ k # b + 1)
    BY <1>1, <1>13
  <2> QED BY <2>1, <2>2, <2>3, <2>4
<1>14. ASSUME NEW i \in 1..(m + 1) PROVE TwinOf(zc[i], zd[h[i]], sel)
  <2>1. CASE i \in 1..b
    BY <1>2, <1>4, <1>5, <1>7, <2>1
  <2>2. CASE i = b + 1
    BY <1>4, <1>5, <1>8, <2>2
  <2>3. CASE \E k \in (b + 1)..m : i = k + 1
    <3>1. PICK k \in (b + 1)..m : i = k + 1
      BY <2>3
    <3>2. k \in 1..m /\ zc[i] = c[k] /\ h[i] = g[k] + 1 /\ g[k] \in (a + 1)..n
      BY <1>5, <1>9, <3>1
    <3>3. zd[h[i]] = d[g[k]]
      BY <1>4, <3>2
    <3> QED BY <1>2, <3>2, <3>3
  <2> QED BY <1>10, <2>1, <2>2, <2>3
<1>15. ASSUME NEW j \in 1..(n + 1) PROVE (\E i \in 1..(m + 1) : h[i] = j) \/ Extra(zd[j], sel)
  <2>1. CASE j \in 1..a
    <3>1. j \in 1..n /\ zd[j] = d[j]
      BY <1>1, <1>4, <2>1
    <3>2. ASSUME NEW i \in 1..m, g[i] = j PROVE \E k \in 1..(m + 1) : h[k] = j
      <4>1. i <= b
        BY <1>3, <2>1, <3>2
      <4>2. i \in 1..b
        BY <1>1, <4>1
      <4> QED BY <1>7, <3>2, <4>2
    <3> QED BY <1>2, <3>1, <3>2
  <2>2. CASE j = a + 1
    BY <1>8, <2>2
  <2>3. CASE \E k \in (a + 1)..n : j = k + 1
    <3>1. PICK v \in (a + 1)..n : j = v + 1
      BY <2>3
    <3>2. v \in 1..n /\ zd[j] = d[v] /\ ~(v <= a)
      BY <1>1, <1>4, <3>1
    <3>3. ASSUME NEW i \in 1..m, g[i] = v PROVE \E k \in 1..(m + 1) : h[k] = j
      <4>1. ~(i <= b)
        BY <1>3, <3>2, <3>3
      <4>2. i \in (b + 1)..m
        BY <1>1, <4>1
      <4> QED BY <1>9, <3>1, <3>3, <4>2
    <3> QED BY <1>2, <3>2, <3>3
  <2> QED BY <1>11, <2>1, <2>2, <2>3
<1>16. \A i \in 1..(m + 1) : (zc[i] = pc /\ i = b + 1) \/ \E k \in 1..m : zc[i] = c[k] /\ ((k \in 1..b /\ i = k) \/ (k \in (b + 1)..m /\ i = k + 1))
  <2>1. \A k : k \in 1..b \/ k \in (b + 1)..m => k \in 1..m
    BY <1>1
  <2> QED BY <1>5, <1>10, <2>1
<1>17. \A j \in 1..(n + 1) : (zd[j] = pd /\ j = a + 1) \/ \E k \in 1..n : zd[j] = d[k] /\ ((k \in 1..a /\ j = k) \/ (k \in (a + 1)..n /\ j = k + 1))
  <2>1. \A k : k \in 1..a \/ k \in (a + 1)..n => k \in 1..n
    BY <1>1
  <2> QED BY <1>4, <1>11, <2>1
<1>18. ASSUME NEW j \in 1..(n + 1), NEW i \in 1..(m + 1), zd[j].id = zc[i].id PROVE h[i] = j
  <2>1. CASE i = b + 1 /\ j = a + 1
    BY <1>8, <2>1
  <2>2. CASE i # b + 1 /\ j # a + 1
    <3>1. PICK k \in 1..m : zc[i] = c[k] /\ ((k \in 1..b /\ i = k) \/ (k \in (b + 1)..m /\ i = k + 1))
      BY <1>16, <2>2
    <3>2. PICK l \in 1..n : zd[j] = d[l] /\ ((l \in 1..a /\ j = l) \/ (l \in (a + 1)..n /\ j = l + 1))
      BY <1>17, <2>2
    <3>3. g[k] = l
      BY <1>2, <1>18, <3>1, <3>2
    <3>4. CASE k \in 1..b /\ i = k
      <4>1. h[i] = l /\ l \in 1..a
        BY <1>7, <3>3, <3>4
      <4>2. j = l
        BY <1>1, <3>2, <4>1
      <4> QED BY <4>1, <4>2
    <3>5. CASE k \in (b + 1)..m /\ i = k + 1
      <4>1. h[i] = l + 1 /\ l \in (a + 1)..n
        BY <1>9, <3>3, <3>5
      <4>2. j = l + 1
        BY <1>1, <3>2, <4>1
      <4> QED BY <4>1, <4>2
    <3> QED BY <3>1, <3>4, <3>5
  <2>3. CASE i = b + 1 /\ j # a + 1
    <3>1. zc[i] = pc
      BY <1>5, <2>3
    <3>2. PICK l \in 1..n : zd[j] = d[l]
      BY <1>17, <2>3
    <3>3. d[l].id = pc.id
      BY <1>18, <3>1, <3>2
    <3> QED BY <1>1, <3>3
  <2>4. CASE i # b + 1 /\ j = a + 1
    <3>1. zd[j] = pd
      BY <1>4, <2>4
    <3>2. PICK l \in 1..m : zc[i] = c[l]
      BY <1>16, <2>4
    <3>3. c[l].id = pd.id
      BY <1>18, <3>1, <3>2
    <3> QED BY <1>1, <3>3
  <2> QED BY <2>1, <2>2, <2>3, <2>4
<1>19. Increases(h, m + 1)
  BY <1>13 DEF Increases
<1>20. Twins(h, zc, zd, sel)
  BY <1>4, <1>5, <1>12, <1>14, <1>15, <1>18, <1>19 DEF Twins
<1> QED BY <1>20

(***************************************************************************)
(* The same edit of a document and of its twin                             *)
(***************************************************************************)

(* The paragraph mark after a tracked replacement.                         *)
MarkedAs(z, p, blank) ==
  /\ z.id = p.id
  /\ blank => \E x \in z.mark : x.kind = "del"
  /\ ~blank => z.mark = p.mark

LEMMA MarkAfter ==
  ASSUME NEW E, NEW p \in ParagraphsIn(E), NEW s, NEW e, NEW new, NEW by, NEW next,
         NEW r, r = TrackedReplace(p, s, e, new, by, next)
  PROVE  MarkedAs(r.p, p, Blanks(p, s, e, new) /\ Inert(r.p.body, TRUE))
<1>1. PICK B, used : r.p = [p EXCEPT !.body = B, !.mark = IF Blanks(p, s, e, new) /\ Inert(B, TRUE)
                                                          THEN MarkDeleted(p.mark, by, used) ELSE p.mark]
  BY DEF TrackedReplace
<1>2. PICK mark : mark = IF Blanks(p, s, e, new) /\ Inert(B, TRUE) THEN MarkDeleted(p.mark, by, used) ELSE p.mark
  OBVIOUS
<1>3. p = [id |-> p.id, mark |-> p.mark, body |-> p.body]
  BY DEF ParagraphsIn
<1>4. r.p.id = p.id /\ r.p.body = B /\ r.p.mark = mark
  BY <1>1, <1>2, <1>3
<1>5. \E x \in MarkDeleted(p.mark, by, used) : x.kind = "del"
  <2>1. CASE \E x \in p.mark : x.kind = "del"
    BY <2>1 DEF MarkDeleted
  <2>2. CASE ~\E x \in p.mark : x.kind = "del"
    <3>1. Element("del", by, used) \in MarkDeleted(p.mark, by, used)
      BY <2>2 DEF MarkDeleted
    <3>2. Element("del", by, used).kind = "del"
      BY DEF Element
    <3> QED BY <3>1, <3>2
  <2> QED BY <2>1, <2>2
<1> QED BY <1>2, <1>4, <1>5 DEF MarkedAs

LEMMA PlainReplaceIs ==
  ASSUME NEW c, NEW k, NEW s, NEW e, NEW new
  PROVE  PlainReplace(c, k, s, e, new) =
           IF Blanks(c[k], s, e, new) /\ Inert(PlainBody(c[k], s, e, new), FALSE) /\ Len(c) > 1
           THEN RemoveAt(c, k) ELSE [c EXCEPT ![k].body = PlainBody(c[k], s, e, new)]
BY DEF PlainReplace, PlainBody, Picked

(* Twins stay twins when they are edited alike, with and without tracking. *)
LEMMA ReplacedTwins ==
  ASSUME NEW E, NEW d \in Documents(E), NEW c \in Documents(E), NEW sel, NEW g, Twins(g, c, d, sel),
         NEW k \in 1..Len(c), NEW s \in Nat, NEW e \in Nat, s <= e, ~Refused(d[g[k]], s, e),
         NEW new \in Seq(Tokens), NEW by, NEW next \in Nat, \A id \in Nat : id >= next => id \in sel,
         Blanks(d[g[k]], s, e, new) => Plainly(d[g[k]].body, sel) /\ Len(c) > 1,
         NEW r, r = TrackedReplace(d[g[k]], s, e, new, by, next)
  PROVE  \E h : Twins(h, PlainReplace(c, k, s, e, new), [d EXCEPT ![g[k]] = r.p], sel)
<1>1. PICK n \in Nat, m \in Nat : n = Len(d) /\ m = Len(c) /\ DOMAIN d = 1..n /\ DOMAIN c = 1..m
  BY LenProperties DEF Documents
<1>2. PICK j : j = g[k] /\ j \in 1..n
  BY <1>1 DEF Twins
<1>3. PICK p, x : p = d[j] /\ x = c[k] /\ p \in ParagraphsIn(E) /\ x \in ParagraphsIn(E)
  <2>1. d[j] \in ParagraphsIn(E) /\ c[k] \in ParagraphsIn(E)
    BY <1>1, <1>2, ParagraphOf
  <2> QED BY <2>1
<1>4. TwinOf(x, p, sel)
  BY <1>2, <1>3 DEF Twins
<1>5. PICK q : Takes(x.body, q, p.body, sel)
  <2>1. p.body \in Bodies(E)
    BY <1>3 DEF ParagraphsIn
  <2>2. \E q : Takes(Taken(p.body, sel), q, p.body, sel)
    BY <2>1, TakenIs
  <2> QED BY <1>4, <2>2 DEF TwinOf
<1>6. ~Refused(p, s, e) /\ r = TrackedReplace(p, s, e, new, by, next)
  BY <1>2, <1>3
<1>7. PICK B, R : B = r.p.body /\ R = PlainBody(x, s, e, new)
  OBVIOUS
<1>8. Taken(B, sel) = R
  <2>1. p \in ParagraphsIn(E)
    BY <1>3
  <2>2. x \in ParagraphsIn(E)
    BY <1>3
  <2>3. ~Refused(p, s, e)
    BY <1>6
  <2>4. AcceptedIsPlain(p, x, s, e, new, by, next, sel)
    BY ONLY <1>5, <2>1, <2>2, <2>3, s \in Nat, e \in Nat, s <= e, new \in Seq(Tokens),
            next \in Nat, \A id \in Nat : id >= next => id \in sel, ReplaceTaken
  <2> QED BY <1>6, <1>7, <2>4 DEF AcceptedIsPlain
<1>9. PICK tb : tb = (Blanks(p, s, e, new) /\ Inert(B, TRUE))
  OBVIOUS
<1>10. PICK cb : cb = (Blanks(x, s, e, new) /\ Inert(R, FALSE) /\ Len(c) > 1)
  OBVIOUS
<1>11. Blanks(p, s, e, new) => /\ Inert(B, TRUE) <=> R = <<>>
                               /\ Blanks(x, s, e, new) /\ Inert(R, FALSE) <=> R = <<>>
  <2> SUFFICES ASSUME Blanks(p, s, e, new)
               PROVE  /\ Inert(B, TRUE) <=> R = <<>>
                      /\ Blanks(x, s, e, new) /\ Inert(R, FALSE) <=> R = <<>>
    OBVIOUS
  <2>1. Plainly(p.body, sel)
    BY <1>2, <1>3
  <2>2. /\ Inert(B, TRUE) <=> Taken(B, sel) = <<>>
        /\ Blanks(x, s, e, new) /\ Inert(Taken(B, sel), FALSE) <=> Taken(B, sel) = <<>>
    <3>1. p \in ParagraphsIn(E)
      BY <1>3
    <3>2. x \in ParagraphsIn(E)
      BY <1>3
    <3>3. ~Refused(p, s, e)
      BY <1>6
    <3>4. B = TrackedReplace(p, s, e, new, by, next).p.body
      BY <1>6, <1>7
    <3>5. BlankedAlike(p, x, s, e, new, B, sel)
      BY ONLY <1>5, <2>1, <3>1, <3>2, <3>3, <3>4, s \in Nat, e \in Nat, s <= e, Blanks(p, s, e, new),
              next \in Nat, \A id \in Nat : id >= next => id \in sel, BlankAlike
    <3> QED BY <3>5 DEF BlankedAlike
  <2> QED BY <1>8, <2>2
<1>12. Blanks(x, s, e, new) => Blanks(p, s, e, new)
  BY <1>3, <1>5, <1>6, BlanksBoth
<1>13. Blanks(p, s, e, new) => Len(c) > 1
  BY <1>2, <1>3
<1>14. PICK zc, zd : zc = PlainReplace(c, k, s, e, new) /\ zd = [d EXCEPT ![j] = r.p]
  OBVIOUS
<1>15. zc = IF Blanks(x, s, e, new) /\ Inert(R, FALSE) /\ Len(c) > 1 THEN RemoveAt(c, k)
            ELSE [c EXCEPT ![k].body = R]
  BY <1>3, <1>7, <1>14, PlainReplaceIs
<1>16. /\ r.p.id = p.id
       /\ Blanks(p, s, e, new) /\ Inert(B, TRUE) => \E y \in r.p.mark : y.kind = "del"
       /\ ~(Blanks(p, s, e, new) /\ Inert(B, TRUE)) => r.p.mark = p.mark
  <2>1. p \in ParagraphsIn(E)
    BY <1>3
  <2>2. r = TrackedReplace(p, s, e, new, by, next)
    BY <1>6
  <2>3. MarkedAs(r.p, p, Blanks(p, s, e, new) /\ Inert(r.p.body, TRUE))
    BY ONLY <2>1, <2>2, MarkAfter
  <2>4. MarkedAs(r.p, p, Blanks(p, s, e, new) /\ Inert(B, TRUE))
    BY <1>7, <2>3
  <2> QED BY <2>4 DEF MarkedAs
<1>17. IsChanged(zd, d, j, r.p)
  <2>1. DOMAIN zd = DOMAIN d /\ zd[j] = r.p /\ \A i \in 1..n : i # j => zd[i] = d[i]
    BY <1>1, <1>2, <1>14
  <2>2. Len(zd) = n
    BY <1>1, <1>14, <2>1
  <2> QED BY <1>1, <1>3, <1>16, <2>1, <2>2 DEF IsChanged
<1>18. CASE Blanks(p, s, e, new) /\ Inert(B, TRUE)
  <2>1. R = <<>>
    BY <1>11, <1>18
  <2>2. zc = RemoveAt(c, k)
    BY <1>11, <1>13, <1>15, <1>18, <2>1
  <2>3. IsRemoved(zc, c, k)
    <3>1. PICK T : T = ParagraphsIn(E) /\ c \in Seq(T)
      BY DEF Documents, ParagraphsIn
    <3> QED BY <2>2, <3>1, OneRemoved
  <2>4. Extra(r.p, sel)
    BY <1>7, <1>8, <1>16, <1>18, <2>1 DEF Extra
  <2>5. \E h : Twins(h, zc, zd, sel)
    BY <1>1, <1>2, <1>17, <2>3, <2>4, TwinRemoved
  <2> QED BY <1>2, <1>14, <2>5
<1>19. CASE ~(Blanks(p, s, e, new) /\ Inert(B, TRUE))
  <2>1. zc = [c EXCEPT ![k].body = R]
    BY <1>11, <1>12, <1>15, <1>19
  <2>2. PICK y : y = [x EXCEPT !.body = R]
    OBVIOUS
  <2>3. y.id = x.id /\ y.mark = x.mark /\ y.body = R
    BY <1>3, <2>2 DEF ParagraphsIn
  <2>4. IsChanged(zc, c, k, y)
    <3>1. zc = [c EXCEPT ![k] = y]
      BY <1>3, <2>1, <2>2
    <3>2. DOMAIN zc = DOMAIN c /\ zc[k] = y /\ \A i \in 1..m : i # k => zc[i] = c[i]
      BY <1>1, <3>1
    <3>3. Len(zc) = m
      BY <1>1, <3>1, <3>2
    <3> QED BY <1>1, <1>3, <2>3, <3>2, <3>3 DEF IsChanged
  <2>5. TwinOf(y, r.p, sel)
    BY <1>4, <1>7, <1>8, <1>16, <1>19, <2>3 DEF TwinOf
  <2>6. Twins(g, zc, zd, sel)
    BY <1>1, <1>2, <1>17, <2>4, <2>5, TwinChanged
  <2> QED BY <1>2, <1>14, <2>6
<1> QED BY <1>18, <1>19

(* The text of a new paragraph, accepted.                                  *)
LEMMA NewBodyTaken ==
  ASSUME NEW new \in Seq(Tokens), NEW by, NEW id, NEW sel, id \in sel
  PROVE  Taken(Items(new, <<Element("ins", by, id)>>), sel) = Items(new, <<>>)
<1>1. PICK x, y, n : /\ x = Items(new, <<Element("ins", by, id)>>) /\ y = Items(new, <<>>)
                     /\ n = Len(new) /\ n \in Nat
  BY LenProperties
<1>2. DOMAIN new = 1..n /\ new \in [1..n -> Tokens]
  BY <1>1, LenProperties
<1>3. CASE n = 0
  <2>1. new = <<>>
    BY <1>1, <1>3, EmptySeq
  <2>2. x = <<>> /\ y = <<>>
    BY <1>1, <2>1 DEF Items
  <2> QED BY <1>1, <2>2, NothingResolved DEF Taken
<1>4. CASE n # 0
  <2>1. PICK el, F : el = Element("ins", by, id) /\ F = {el}
    OBVIOUS
  <2>2. PICK none : none = <<>> /\ none \in Seq(F)
    BY EmptySeq
  <2>3. PICK item : item = Item(new[1], none) /\ new[1] \in Tokens
    BY <1>2, <1>4, <1>1
  <2>4. item \in ItemsIn(F) /\ Seen(item) /\ item.in = none
    <3>1. item = [tok |-> new[1], in |-> none]
      BY <2>3 DEF Item
    <3>2. item.tok = new[1] /\ item.in = none
      BY <3>1
    <3>3. item \in ItemsIn(F)
      <4>1. new[1] \in Toks
        BY <2>3 DEF Toks
      <4> QED BY <2>2, <3>1, <4>1 DEF ItemsIn
    <3>4. DOMAIN none = {}
      BY <2>2
    <3>5. ~Within(item, {"del"})
      BY <3>2, <3>4 DEF Within
    <3> QED BY <2>3, <3>2, <3>3, <3>5 DEF Seen
  <2>5. /\ BecomeNew(Items(new, Append(item.in, Element("ins", by, id))),
                     Items(new, Unwrapped(item, "ins", sel).in), sel)
        /\ \E G : F \subseteq G /\ Items(new, Append(item.in, Element("ins", by, id))) \in Bodies(G)
    BY <2>4, NewTextTaken
  <2>6. Append(item.in, Element("ins", by, id)) = <<Element("ins", by, id)>>
    BY <2>2, <2>4
  <2>7. Unwrapped(item, "ins", sel).in = <<>>
    <3>1. Unwrapped(item, "ins", sel).in = Picked(item.in, Around(item, "ins", sel))
      BY <2>4, UnwrappedIs
    <3>2. Around(item, "ins", sel) = DOMAIN item.in
      BY <2>2, <2>4 DEF Around
    <3>3. Picked(item.in, DOMAIN item.in) = item.in
      BY <2>2, <2>4, PickedAll
    <3> QED BY <2>2, <2>4, <3>1, <3>2, <3>3
  <2>8. BecomeNew(x, y, sel) /\ \E G : x \in Bodies(G)
    BY <1>1, <2>5, <2>6, <2>7
  <2>9. PICK G : x \in Bodies(G)
    BY <2>8
  <2>10. y \in Bodies(G)
    BY <1>1, EmptySeq, ItemsBody
  <2>11. PICK T : y \in Seq(T)
    BY <2>10 DEF Bodies
  <2>12. Len(x) = n /\ Len(y) = n
    <3>1. \A z, k : z = Items(new, k) => DOMAIN z = 1..n
      BY <1>2 DEF Items
    <3>2. DOMAIN x = 1..n /\ DOMAIN y = 1..n
      BY <1>1, <3>1
    <3> QED BY <1>1, <2>9, <2>11, <3>2, LenProperties DEF Bodies
  <2>13. PICK q : q = [k \in 1..n |-> k]
    OBVIOUS
  <2>14. Takes(y, q, x, sel)
    <3>1. \A k \in 1..n : ~Gone(x[k], "del", "ins", sel) /\ Unwrapped(x[k], "ins", sel) = y[k]
      BY <2>8, <2>12 DEF BecomeNew
    <3>2. \A k \in 1..n : q[k] = k
      BY <2>13
    <3>3. \A k \in 1..n : y[k] = Unwrapped(x[q[k]], "ins", sel)
      BY <3>1, <3>2
    <3>4. \A j \in 1..n : Gone(x[j], "del", "ins", sel) <=> ~\E k \in 1..n : q[k] = j
      BY <3>1, <3>2
    <3> QED BY <1>1, <2>12, <2>13, <3>2, <3>3, <3>4 DEF Takes
  <2> QED BY <1>1, <2>9, <2>11, <2>14, TakenOnly
<1> QED BY <1>1, <1>3, <1>4

LEMMA InsertedBoth ==
  ASSUME NEW E, NEW d \in Documents(E), NEW j \in DOMAIN d, NEW pos \in {"BEFORE", "AFTER"}, NEW p
  PROVE  \E a \in 0..Len(d) : /\ a + 1 = IF pos = "AFTER" THEN j + 1 ELSE j
                              /\ IsInserted(InsertedAt(d, j, pos, p), d, a, p)
<1>1. PICK n : n = Len(d) /\ n \in Nat /\ j \in 1..n
  BY ParagraphOf
<1>2. PICK a : a = IF pos = "AFTER" THEN j ELSE j - 1
  OBVIOUS
<1>3. a \in 0..n /\ a + 1 = IF pos = "AFTER" THEN j + 1 ELSE j
  BY <1>1, <1>2
<1>4. PICK T : d \in Seq(T)
  BY DEF Documents
<1>5. PICK U : p \in U /\ d \in Seq(U)
  <2>1. p \in T \cup {p} /\ d \in Seq(T \cup {p})
    BY <1>4, SeqMonotonic
  <2> QED BY <2>1
<1>6. IsInserted(InsertedAt(d, j, pos, p), d, a, p)
  BY <1>1, <1>3, <1>5, OneInserted
<1> QED BY <1>1, <1>3, <1>6

(* A new paragraph, with and without tracking.                             *)
LEMMA InsertedTwins ==
  ASSUME NEW E, NEW d \in Documents(E), NEW c \in Documents(E), NEW sel, NEW g, Twins(g, c, d, sel),
         NEW k \in 1..Len(c), NEW pos \in {"BEFORE", "AFTER"}, NEW pid,
         \A j \in 1..Len(d) : d[j].id # pid, \A i \in 1..Len(c) : c[i].id # pid,
         NEW new \in Seq(Tokens), NEW by, NEW next, next \in sel, next + 1 \in sel
  PROVE  \E h : Twins(h, PlainInsert(c, k, pos, pid, new),
                         TrackedInsert(d, g[k], pos, pid, new, by, next), sel)
<1>1. PICK n \in Nat, m \in Nat : n = Len(d) /\ m = Len(c) /\ DOMAIN d = 1..n /\ DOMAIN c = 1..m
  BY LenProperties DEF Documents
<1>2. PICK j : j = g[k] /\ j \in 1..n
  BY <1>1 DEF Twins
<1>3. PICK pc, pd : /\ pc = [id |-> pid, mark |-> {}, body |-> Items(new, <<>>)]
                    /\ pd = [id |-> pid, mark |-> {Element("ins", by, next)},
                             body |-> Items(new, <<Element("ins", by, next + 1)>>)]
  OBVIOUS
<1>4. PICK zc, zd : zc = PlainInsert(c, k, pos, pid, new) /\ zd = TrackedInsert(d, j, pos, pid, new, by, next)
  OBVIOUS
<1>5. zc = InsertedAt(c, k, pos, pc) /\ zd = InsertedAt(d, j, pos, pd)
  BY <1>3, <1>4 DEF PlainInsert, TrackedInsert
<1>6. PICK a \in 0..n : a + 1 = (IF pos = "AFTER" THEN j + 1 ELSE j) /\ IsInserted(zd, d, a, pd)
  BY <1>1, <1>2, <1>5, InsertedBoth
<1>7. PICK b \in 0..m : b + 1 = (IF pos = "AFTER" THEN k + 1 ELSE k) /\ IsInserted(zc, c, b, pc)
  BY <1>1, <1>5, InsertedBoth
<1>8. TwinOf(pc, pd, sel)
  <2>1. pd.mark = {Element("ins", by, next)} /\ pd.body = Items(new, <<Element("ins", by, next + 1)>>)
    BY <1>3
  <2>2. pc.mark = {} /\ pc.body = Items(new, <<>>)
    BY <1>3
  <2>3. \A r \in pd.mark : r.kind # "del" /\ r.id \in sel
    BY <2>1 DEF Element
  <2>4. MarkLeft(pd.mark, sel) = {}
    BY <2>3 DEF MarkLeft
  <2>5. Taken(pd.body, sel) = pc.body
    BY <2>1, <2>2, NewBodyTaken
  <2> QED BY <2>2, <2>3, <2>4, <2>5 DEF TwinOf
<1>9. ASSUME NEW i \in 1..m PROVE i <= b <=> g[i] <= a
  <2>1. g \in [1..m -> 1..n] /\ \A u, v \in 1..m : u < v => g[u] < g[v]
    BY <1>1 DEF Twins, Increases
  <2>2. g[i] \in 1..n
    BY <2>1
  <2>3. CASE pos = "AFTER"
    <3>1. a = j /\ b = k
      BY <1>1, <1>2, <1>6, <1>7, <2>3
    <3>2. i <= k => g[i] <= j
      BY <1>1, <1>2, <2>1, <2>2
    <3>3. k < i => j < g[i]
      BY <1>1, <1>2, <2>1, <2>2
    <3> QED BY <1>1, <1>2, <2>2, <3>1, <3>2, <3>3
  <2>4. CASE pos # "AFTER"
    <3>1. a = j - 1 /\ b = k - 1
      BY <1>1, <1>2, <1>6, <1>7, <2>4
    <3>2. i < k => g[i] < j
      BY <1>1, <1>2, <2>1, <2>2
    <3>3. k <= i => j <= g[i]
      BY <1>1, <1>2, <2>1, <2>2
    <3> QED BY <1>1, <1>2, <2>2, <3>1, <3>2, <3>3
  <2> QED BY <2>3, <2>4
<1>10. pc.id = pid /\ pd.id = pid
  BY <1>3
<1>11. (\A i \in 1..Len(d) : d[i].id # pc.id) /\ (\A i \in 1..Len(c) : c[i].id # pd.id)
  BY <1>10
<1>12. \E h : Twins(h, zc, zd, sel)
  BY <1>1, <1>6, <1>7, <1>8, <1>9, <1>11, TwinInserted
<1> QED BY <1>2, <1>4, <1>12

(***************************************************************************)
(* Accepting the other revisions of both                                   *)
(***************************************************************************)

(* Nothing in the paragraph is selected.                                   *)
Untouched(p, sel) ==
  /\ \A r \in p.mark : r.id \notin sel
  /\ MarkLeft(p.mark, sel) = p.mark
  /\ Taken(p.body, sel) = p.body

LEMMA ParagraphUntouched ==
  ASSUME NEW E, NEW d \in Documents(E), NEW sel, \A r \in Revisions(d) : r.id \notin sel, NEW j \in DOMAIN d
  PROVE  Untouched(d[j], sel)
<1>1. d[j] \in ParagraphsIn(E) /\ d[j].body \in Bodies(E)
  BY ParagraphOf DEF ParagraphsIn
<1>2. \A r \in d[j].mark : r.id \notin sel
  BY RevisionsAre
<1>3. MarkLeft(d[j].mark, sel) = d[j].mark
  BY <1>2 DEF MarkLeft
<1>4. \A i \in DOMAIN d[j].body : AgreeOn(Range(d[j].body[i].in), sel, {})
  BY RevisionsAre DEF AgreeOn
<1>5. Kinds("del", "ins")
  BY DEF Kinds
<1>6. ResolvedBody(d[j].body, "del", "ins", sel) = ResolvedBody(d[j].body, "del", "ins", {})
  BY <1>1, <1>4, <1>5, BodiesAgree
<1>7. ResolvedBody(d[j].body, "del", "ins", {}) = d[j].body
  BY <1>1, ResolvedNone
<1> QED BY <1>2, <1>3, <1>6, <1>7 DEF Untouched, Taken

(* Every document is its own twin, as long as nothing of it is selected.   *)
LEMMA TwinItself ==
  ASSUME NEW E, NEW d \in Documents(E), DistinctIds(d), NEW sel, \A r \in Revisions(d) : r.id \notin sel
  PROVE  \E g : Twins(g, d, d, sel)
<1>1. PICK n \in Nat : n = Len(d) /\ DOMAIN d = 1..n
  BY LenProperties DEF Documents
<1>2. PICK g : g = [k \in 1..n |-> k]
  OBVIOUS
<1>3. \A k \in 1..n : g[k] = k
  BY <1>2
<1>4. \A k \in 1..n : TwinOf(d[k], d[g[k]], sel)
  <2> SUFFICES ASSUME NEW k \in 1..n PROVE TwinOf(d[k], d[k], sel)
    BY <1>3
  <2>1. Untouched(d[k], sel)
    BY <1>1, ParagraphUntouched
  <2> QED BY <2>1 DEF Untouched, TwinOf
<1>5. Increases(g, n)
  BY <1>3 DEF Increases
<1>6. \A j \in 1..n, k \in 1..n : d[j].id = d[k].id => g[k] = j
  BY <1>1, <1>3 DEF DistinctIds
<1>7. \A j \in 1..n : \E k \in 1..n : g[k] = j
  BY <1>3
<1>8. g \in [1..n -> 1..n]
  BY <1>2
<1> QED BY <1>1, <1>4, <1>5, <1>6, <1>7, <1>8 DEF Twins

(* When the selected revisions are accepted, the extra paragraphs whose    *)
(* deleted mark is selected are gone, and the twins stay twins.            *)
LEMMA TwinsAccepted ==
  ASSUME NEW E, NEW d \in Documents(E), DistinctIds(d), NEW c \in Documents(E), c # <<>>,
         NEW sel, NEW g, Twins(g, c, d, sel), NEW T, \A r \in Revisions(Accept(d, sel)) : r.id \notin T
  PROVE  \E h : Twins(h, c, Accept(d, sel), T)
<1>1. PICK n \in Nat, m \in Nat : n = Len(d) /\ m = Len(c) /\ DOMAIN d = 1..n /\ DOMAIN c = 1..m
  BY LenProperties DEF Documents
<1>2. 1 \in 1..m
  BY <1>1, EmptySeq DEF Documents
<1>3. /\ g \in [1..m -> 1..n]
      /\ \A i, j \in 1..m : i < j => g[i] < g[j]
      /\ \A i \in 1..m : TwinOf(c[i], d[g[i]], sel)
      /\ \A j \in 1..n : (\E i \in 1..m : g[i] = j) \/ Extra(d[j], sel)
      /\ \A j \in 1..n, i \in 1..m : d[j].id = c[i].id => g[i] = j
  BY <1>1 DEF Twins, Increases
<1>4. PICK z, joins : z = EachResolved(d, "del", "ins", sel) /\ joins = JoinIds(d, "del", sel)
  OBVIOUS
<1>5. /\ z \in Documents(E) /\ Len(z) = n /\ DOMAIN z = 1..n
      /\ \A j \in 1..n : z[j] = Resolved(d[j], "del", "ins", sel) /\ z[j].id = d[j].id
  BY <1>1, <1>4, EachResolvedIs
<1>6. \A j \in 1..n : /\ z[j] = [id |-> d[j].id, mark |-> MarkLeft(d[j].mark, sel), body |-> Taken(d[j].body, sel)]
                      /\ z[j].id \in joins <=> JoiningIn(d[j], "del", sel)
  <2> SUFFICES ASSUME NEW j \in 1..n
               PROVE  /\ z[j] = [id |-> d[j].id, mark |-> MarkLeft(d[j].mark, sel), body |-> Taken(d[j].body, sel)]
                      /\ z[j].id \in joins <=> JoiningIn(d[j], "del", sel)
    OBVIOUS
  <2>1. d[j] \in ParagraphsIn(E)
    BY <1>1, ParagraphOf
  <2>2. Resolved(d[j], "del", "ins", sel)
          = [id |-> d[j].id, mark |-> MarkLeft(d[j].mark, sel), body |-> ResolvedBody(d[j].body, "del", "ins", sel)]
    BY <2>1, ResolvedIs
  <2>3. d[j].id \in JoinIds(d, "del", sel) <=> JoiningIn(d[j], "del", sel)
    BY <1>1, JoinIdsAre
  <2> QED BY <1>4, <1>5, <2>2, <2>3 DEF Taken
<1>20. \A j \in 1..n : z[j].id = d[j].id /\ z[j].mark = MarkLeft(d[j].mark, sel) /\ z[j].body = Taken(d[j].body, sel)
  <2> SUFFICES ASSUME NEW j \in 1..n
               PROVE z[j].id = d[j].id /\ z[j].mark = MarkLeft(d[j].mark, sel) /\ z[j].body = Taken(d[j].body, sel)
    OBVIOUS
  <2>1. z[j] = [id |-> d[j].id, mark |-> MarkLeft(d[j].mark, sel), body |-> Taken(d[j].body, sel)]
    BY <1>6
  <2> QED BY <2>1
<1>21. \A j \in 1..n : IsParagraph(z[j])
  <2> SUFFICES ASSUME NEW j \in 1..n PROVE IsParagraph(z[j])
    OBVIOUS
  <2>1. z[j] = [id |-> d[j].id, mark |-> MarkLeft(d[j].mark, sel), body |-> Taken(d[j].body, sel)]
    BY <1>6
  <2> QED BY <2>1 DEF IsParagraph
<1>7. PICK places : places = {j \in 1..n : z[j].id \notin joins}
  OBVIOUS
<1>8. PICK P : P = ParagraphsIn(E) /\ z \in Seq(P)
  BY <1>5 DEF Documents, ParagraphsIn
<1>9. PICK e, f, q : /\ Picks(e, f, q, z, places) /\ e \in Seq(P) /\ Len(e) = f /\ DOMAIN e = 1..f
                     /\ \A k \in 1..f : q[k] \in 1..n
  <2>1. places \in SUBSET (DOMAIN z)
    BY <1>5, <1>7
  <2>2. \E f, q : /\ Picks(Picked(z, places), f, q, z, places)
                  /\ Picked(z, places) \in Seq(P) /\ Len(Picked(z, places)) = f
                  /\ DOMAIN Picked(z, places) = 1..f
                  /\ \A k \in 1..f : q[k] \in 1..Len(z)
    BY <1>8, <2>1, PickedHas
  <2>3. PICK e : e = Picked(z, places)
    OBVIOUS
  <2> QED BY <1>5, <2>2, <2>3
<1>10. /\ f \in Nat /\ q \in [1..f -> 1..n]
       /\ \A k \in 1..f : q[k] \in places
       /\ \A i \in places : \E k \in 1..f : q[k] = i
       /\ \A k, l \in 1..f : k < l => q[k] < q[l]
       /\ \A k \in 1..f : e[k] = z[q[k]]
  BY <1>9 DEF Picks, Lists
<1>11. \A i \in 1..m : g[i] \in places
  BY <1>3, <1>6, <1>7 DEF TwinOf, JoiningIn
<1>12. Accept(d, sel) = e
  <2>1. e \in Documents(E)
    BY <1>8, <1>9 DEF Documents, ParagraphsIn
  <2>2. q \in [1..Len(e) -> 1..n] /\ Increases(q, Len(e))
    BY <1>9, <1>10 DEF Increases
  <2>3. \A i \in 1..Len(e) : z[q[i]] = e[i] /\ e[i].id \notin joins
    BY <1>7, <1>9, <1>10
  <2>4. ASSUME NEW j \in 1..n PROVE (\E i \in 1..Len(e) : q[i] = j) \/ Vanishes(z[j], joins)
    <3>1. CASE j \in places
      BY <1>9, <1>10, <3>1
    <3>2. CASE j \notin places
      <4>1. z[j].id \in joins
        BY <1>7, <3>2
      <4>2. Extra(d[j], sel)
        BY <1>3, <1>11, <3>2
      <4>3. z[j].body = <<>>
        BY <1>20, <4>2 DEF Extra
      <4>4. IsParagraph(z[j])
        BY <1>21
      <4> QED BY <4>1, <4>3, <4>4 DEF Vanishes
    <3> QED BY <3>1, <3>2
  <2>5. e # <<>>
    <3>1. \E k \in 1..f : q[k] = g[1]
      BY <1>2, <1>10, <1>11
    <3> QED BY <1>9, <3>1
  <2>6. MergesTo(z, joins, n, e)
    BY <1>5, <2>1, <2>2, <2>3, <2>4, <2>5, EmptyOnesJoin
  <2>7. Merged(z, joins) = e
    BY <2>6 DEF MergesTo
  <2> QED BY <1>4, <2>7, ResolveIs DEF Accept
<1>13. ASSUME NEW k \in 1..f PROVE Untouched(e[k], T) /\ e[k].body = Taken(d[q[k]].body, sel)
                                   /\ e[k].mark = MarkLeft(d[q[k]].mark, sel) /\ e[k].id = d[q[k]].id
  <2>1. PICK x : x = Accept(d, sel) /\ x = e /\ x \in Documents(E)
    BY <1>8, <1>9, <1>12 DEF Documents, ParagraphsIn
  <2>2. Untouched(x[k], T)
    BY <1>9, <2>1, ParagraphUntouched
  <2>3. q[k] \in 1..n /\ e[k] = z[q[k]]
    BY <1>10
  <2>4. /\ z[q[k]].id = d[q[k]].id /\ z[q[k]].mark = MarkLeft(d[q[k]].mark, sel)
        /\ z[q[k]].body = Taken(d[q[k]].body, sel)
    BY <1>20, <2>3
  <2>5. Untouched(e[k], T)
    BY <2>1, <2>2
  <2> QED BY <2>3, <2>4, <2>5
<1>14. PICK h : h = [i \in 1..m |-> CHOOSE k \in 1..f : q[k] = g[i]]
  OBVIOUS
<1>15. \A i \in 1..m : h[i] \in 1..f /\ q[h[i]] = g[i]
  BY <1>10, <1>11, <1>14
<1>16. \A k, l \in 1..f : q[k] = q[l] => k = l
  <2> SUFFICES ASSUME NEW k \in 1..f, NEW l \in 1..f, q[k] = q[l] PROVE k = l
    OBVIOUS
  <2>1. q[k] \in 1..n /\ q[l] \in 1..n
    BY <1>10
  <2>2. ~(k < l) /\ ~(l < k)
    BY <1>10, <2>1
  <2> QED BY <1>10, <2>2
<1>17. Twins(h, c, e, T)
  <2>1. h \in [1..m -> 1..f]
    BY <1>14, <1>15
  <2>2. ASSUME NEW i \in 1..m, NEW j \in 1..m, i < j PROVE h[i] < h[j]
    <3>1. h[i] \in 1..f /\ h[j] \in 1..f /\ q[h[i]] = g[i] /\ q[h[j]] = g[j]
      BY <1>15
    <3>2. g[i] < g[j] /\ g[i] \in 1..n /\ g[j] \in 1..n
      BY <1>3, <2>2
    <3>3. PICK u, v : u = h[i] /\ v = h[j] /\ u \in 1..f /\ v \in 1..f /\ q[u] = g[i] /\ q[v] = g[j]
      BY <3>1
    <3>4. ~(v < u)
      <4>1. v < u => q[v] < q[u]
        BY <1>10, <3>3
      <4> QED BY <3>2, <3>3, <4>1
    <3>5. u # v
      BY <3>2, <3>3
    <3> QED BY <1>10, <3>3, <3>4, <3>5
  <2>3. ASSUME NEW i \in 1..m PROVE TwinOf(c[i], e[h[i]], T)
    <3>1. h[i] \in 1..f /\ q[h[i]] = g[i] /\ TwinOf(c[i], d[g[i]], sel)
      BY <1>3, <1>15
    <3>2. /\ Untouched(e[h[i]], T) /\ e[h[i]].body = Taken(d[g[i]].body, sel)
          /\ e[h[i]].mark = MarkLeft(d[g[i]].mark, sel)
      BY <1>13, <3>1
    <3> QED BY <3>1, <3>2 DEF TwinOf, Untouched
  <2>4. ASSUME NEW k \in 1..f PROVE (\E i \in 1..m : h[i] = k) \/ Extra(e[k], T)
    <3>1. PICK j \in 1..n : j = q[k]
      BY <1>10
    <3>2. CASE \E i \in 1..m : g[i] = j
      BY <1>15, <1>16, <3>1, <3>2
    <3>3. CASE ~\E i \in 1..m : g[i] = j
      <4>1. Extra(d[j], sel)
        BY <1>3, <3>3
      <4>2. ~JoiningIn(d[j], "del", sel)
        BY <1>6, <1>7, <1>10, <3>1
      <4>3. PICK r \in d[j].mark : r.kind = "del" /\ r.id \notin sel
        BY <4>1, <4>2 DEF Extra, JoiningIn
      <4>4. r \in e[k].mark
        BY <1>13, <3>1, <4>3 DEF MarkLeft
      <4>5. Taken(e[k].body, T) = <<>>
        BY <1>13, <3>1, <4>1 DEF Extra, Untouched
      <4> QED BY <4>3, <4>4, <4>5 DEF Extra
    <3> QED BY <3>2, <3>3
  <2>5. ASSUME NEW k \in 1..f, NEW i \in 1..m, e[k].id = c[i].id PROVE h[i] = k
    <3>1. PICK j \in 1..n : j = q[k]
      BY <1>10
    <3>2. g[i] = j
      <4>1. d[j].id = c[i].id
        BY <1>13, <2>5, <3>1
      <4> QED BY <1>3, <4>1
    <3> QED BY <1>15, <1>16, <3>1, <3>2
  <2> QED BY <1>1, <1>9, <2>1, <2>2, <2>3, <2>4, <2>5 DEF Twins, Increases
<1> QED BY <1>12, <1>17

(***************************************************************************)
(* Twins are joined alike                                                  *)
(***************************************************************************)

(* Two documents that are merged: the same bodies and the same joins at    *)
(* the places g leads to, and nothing but joins elsewhere.                 *)
MergeTwins(g, c, d, jc, jd) ==
  /\ g \in [1..Len(c) -> 1..Len(d)] /\ Increases(g, Len(c))
  /\ \A k \in 1..Len(c) : d[g[k]].body = c[k].body /\ (d[g[k]].id \in jd <=> c[k].id \in jc)
  /\ \A j \in 1..Len(d) : (\E k \in 1..Len(c) : g[k] = j) \/ (d[j].id \in jd /\ d[j].body = <<>>)

(* What the merges have done: the same bodies, from corresponding places.  *)
DonePair(p, q, g, c, d) ==
  /\ q.body = p.body
  /\ \E k \in 1..Len(c) : p.id = c[k].id /\ q.id = d[g[k]].id

DoneTwins(x, y, g, c, d) ==
  /\ Len(x) = Len(y)
  /\ \A i \in 1..Len(x) : DonePair(x[i], y[i], g, c, d)

LEMMA DoneBoth ==
  ASSUME NEW E, NEW x \in Documents(E), NEW y \in Documents(E), NEW g, NEW c, NEW d, DoneTwins(x, y, g, c, d),
         NEW p \in ParagraphsIn(E), NEW q \in ParagraphsIn(E), DonePair(p, q, g, c, d)
  PROVE  DoneTwins(Append(x, p), Append(y, q), g, c, d)
<1>1. PICK xx, yy : xx = Append(x, p) /\ yy = Append(y, q)
  OBVIOUS
<1>2. PICK l \in Nat : l = Len(x)
  BY LenProperties DEF Documents
<1>6. l = Len(y)
  BY <1>2 DEF DoneTwins
<1>3. Len(xx) = l + 1 /\ xx[l + 1] = p /\ \A i \in 1..l : xx[i] = x[i]
  BY <1>1, <1>2, Appended
<1>4. Len(yy) = l + 1 /\ yy[l + 1] = q /\ \A i \in 1..l : yy[i] = y[i]
  BY <1>1, <1>2, <1>6, Appended
<1>5. ASSUME NEW i \in 1..(l + 1) PROVE DonePair(xx[i], yy[i], g, c, d)
  <2>1. CASE i = l + 1
    BY <1>3, <1>4, <2>1
  <2>2. CASE i # l + 1
    <3>1. i \in 1..l
      BY <2>2
    <3>2. xx[i] = x[i] /\ yy[i] = y[i] /\ DonePair(x[i], y[i], g, c, d)
      BY <1>2, <1>3, <1>4, <3>1 DEF DoneTwins
    <3> QED BY <3>2
  <2> QED BY <2>1, <2>2
<1> QED BY <1>1, <1>3, <1>4, <1>5 DEF DoneTwins

(* The merges run alike.                                                   *)
StageTwins(s, t, g, c, d) == DoneTwins(s.done, t.done, g, c, d) /\ s.carry = t.carry

LEMMA MergesAlike ==
  ASSUME NEW E, NEW c \in Documents(E), NEW d \in Documents(E), NEW g, NEW jc, NEW jd,
         MergeTwins(g, c, d, jc, jd)
  PROVE  StageTwins(End(c, jc), End(d, jd), g, c, d)
<1>1. PICK n \in Nat, m \in Nat : n = Len(d) /\ m = Len(c) /\ DOMAIN d = 1..n /\ DOMAIN c = 1..m
  BY LenProperties DEF Documents
<1>2. /\ g \in [1..m -> 1..n] /\ Increases(g, m)
      /\ \A k \in 1..m : d[g[k]].body = c[k].body /\ (d[g[k]].id \in jd <=> c[k].id \in jc)
      /\ \A j \in 1..n : (\E k \in 1..m : g[k] = j) \/ (d[j].id \in jd /\ d[j].body = <<>>)
  BY <1>1 DEF MergeTwins
<1>3. PICK U, V : U = MergedUpTo(c, jc) /\ V = MergedUpTo(d, jd)
  OBVIOUS
<1>4. (\A k \in 0..m : U[k] \in Stages(E)) /\ (\A j \in 0..n : V[j] \in Stages(E))
  BY <1>1, <1>3, MergeRuns
<1>5. PICK f : IsCount(f, g, n, m)
  BY <1>2, Counted
<1>6. /\ f \in [0..n -> 0..m] /\ f[0] = 0 /\ f[n] = m
      /\ \A j \in 1..n :
           \/ f[j] = f[j - 1] /\ ~\E i \in 1..m : g[i] = j
           \/ f[j] = f[j - 1] + 1 /\ g[f[j]] = j
  BY <1>5 DEF IsCount
<1> DEFINE G == {j \in 0..n : StageTwins(U[f[j]], V[j], g, c, d)}
<1>7. 0 \in G
  <2>1. U[0] = Started /\ V[0] = Started
    BY <1>3, MergeRuns
  <2>2. Len(Started.done) = 0
    BY DEF Started
  <2>3. \A i \in 1..Len(Started.done) : FALSE
    BY <2>2
  <2>4. StageTwins(Started, Started, g, c, d)
    BY <2>3 DEF StageTwins, DoneTwins
  <2> QED BY <1>6, <2>1, <2>4
<1>8. ASSUME NEW j \in 1..n, j - 1 \in G PROVE j \in G
  <2>1. j - 1 \in 0..n /\ j \in 0..n
    OBVIOUS
  <2>2. PICK s, t, p : /\ s = V[j - 1] /\ t = V[j] /\ p = d[j] /\ s \in Stages(E) /\ t \in Stages(E)
                       /\ p \in ParagraphsIn(E)
    BY <1>1, <1>4, <2>1, ParagraphOf
  <2>3. PICK q : q \in ParagraphsIn(E) /\ Advances(s, t, p, q, jd)
    BY <1>1, <1>3, <2>2, MergeRuns
  <2>4. PICK a : a = f[j - 1] /\ a \in 0..m
    BY <1>6, <2>1
  <2>5. PICK x : x = U[a] /\ x \in Stages(E) /\ StageTwins(x, s, g, c, d)
    BY <1>4, <1>8, <2>2, <2>4
  <2>6. s.carry \in Bodies(E) /\ x.carry = s.carry /\ DoneTwins(x.done, s.done, g, c, d)
        /\ x.done \in Documents(E) /\ s.done \in Documents(E)
    BY <2>2, <2>5 DEF Stages, StageTwins
  <2>7. q.id = p.id /\ q.body = s.carry \o p.body
    <3>1. Behind(s.carry, p) = [id |-> p.id, mark |-> p.mark, body |-> s.carry \o p.body]
      BY <2>2, <2>6, BehindIs
    <3>2. q = Behind(s.carry, p)
      BY <2>3 DEF Advances
    <3>3. q = [id |-> p.id, mark |-> p.mark, body |-> s.carry \o p.body]
      BY <3>1, <3>2
    <3> QED BY ONLY <3>3
  <2>8. CASE f[j] = f[j - 1] /\ ~\E i \in 1..m : g[i] = j
    <3>1. p.id \in jd /\ p.body = <<>>
      BY <1>2, <2>2, <2>8
    <3>2. t.done = s.done /\ t.carry = q.body
      BY <2>3, <3>1 DEF Advances
    <3>3. s.carry \o <<>> = s.carry
      BY <2>6, ConcatEmptySeq DEF Bodies
    <3>4. StageTwins(x, t, g, c, d)
      BY <2>6, <2>7, <3>1, <3>2, <3>3 DEF StageTwins
    <3>5. StageTwins(U[f[j]], V[j], g, c, d)
      BY <2>2, <2>4, <2>5, <2>8, <3>4
    <3> QED BY <2>1, <3>5
  <2>9. CASE f[j] = f[j - 1] + 1 /\ g[f[j]] = j
    <3>1. PICK k : k = f[j] /\ k \in 0..m /\ k = a + 1 /\ g[k] = j
      BY <1>6, <2>1, <2>4, <2>9
    <3>2. k \in 1..m /\ k - 1 = a
      BY <2>4, <3>1
    <3>3. PICK y, r : y = U[k] /\ r = c[k] /\ y \in Stages(E) /\ r \in ParagraphsIn(E)
      BY <1>1, <1>4, <3>1, <3>2, ParagraphOf
    <3>4. PICK w : w \in ParagraphsIn(E) /\ Advances(x, y, r, w, jc)
      BY <1>1, <1>3, <2>5, <3>2, <3>3, MergeRuns
    <3>5. p.body = r.body /\ (p.id \in jd <=> r.id \in jc)
      BY <1>2, <2>2, <3>1, <3>2, <3>3
    <3>6. w.id = r.id /\ w.body = x.carry \o r.body
      <4>1. Behind(x.carry, r) = [id |-> r.id, mark |-> r.mark, body |-> x.carry \o r.body]
        BY <2>6, <3>3, BehindIs
      <4>2. w = Behind(x.carry, r)
        BY <3>4 DEF Advances
      <4>3. w = [id |-> r.id, mark |-> r.mark, body |-> x.carry \o r.body]
        BY <4>1, <4>2
      <4> QED BY ONLY <4>3
    <3>7. w.body = q.body
      BY <2>6, <2>7, <3>5, <3>6
    <3>8. StageTwins(y, t, g, c, d)
      <4>1. CASE p.id \in jd
        <5>1. t.done = s.done /\ t.carry = q.body
          BY <2>3, <4>1 DEF Advances
        <5>2. y.done = x.done /\ y.carry = w.body
          BY <3>4, <3>5, <4>1 DEF Advances
        <5> QED BY <2>6, <3>7, <5>1, <5>2 DEF StageTwins
      <4>2. CASE p.id \notin jd
        <5>1. t.done = Append(s.done, q) /\ t.carry = <<>>
          BY <2>3, <4>2 DEF Advances
        <5>2. y.done = Append(x.done, w) /\ y.carry = <<>>
          BY <3>4, <3>5, <4>2 DEF Advances
        <5>3. DonePair(w, q, g, c, d)
          BY <1>1, <2>2, <2>7, <3>1, <3>2, <3>3, <3>6, <3>7 DEF DonePair
        <5>4. DoneTwins(Append(x.done, w), Append(s.done, q), g, c, d)
          BY <2>3, <2>6, <3>4, <5>3, DoneBoth
        <5> QED BY <5>1, <5>2, <5>4 DEF StageTwins
      <4> QED BY <4>1, <4>2
    <3>9. StageTwins(U[f[j]], V[j], g, c, d)
      BY <2>2, <3>1, <3>3, <3>8
    <3> QED BY <2>1, <3>9
  <2> QED BY <1>6, <2>8, <2>9
<1>9. n \in G
  <2>1. \A j \in 0..n : j \in G
    <3> HIDE DEF G
    <3> QED BY <1>7, <1>8, InductionUpTo
  <2>2. n \in 0..n
    OBVIOUS
  <2> HIDE DEF G
  <2> QED BY <2>1, <2>2
<1>10. U[m] = End(c, jc) /\ V[n] = End(d, jd)
  BY <1>1, <1>3 DEF End
<1> QED BY <1>6, <1>9, <1>10

(* The last paragraphs join or stay alike.                                 *)
LEMMA LastsAlike ==
  ASSUME NEW E, NEW c \in Documents(E), c # <<>>, NEW d \in Documents(E), NEW g, NEW jc, NEW jd,
         MergeTwins(g, c, d, jc, jd), c[Len(c)].id \in jc
  PROVE  d # <<>> /\ d[Len(d)].id \in jd
<1>1. PICK n \in Nat, m \in Nat : n = Len(d) /\ m = Len(c)
  BY LenProperties DEF Documents
<1>2. m \in 1..m
  <2>1. m # 0
    BY <1>1, EmptySeq DEF Documents
  <2> QED BY <2>1
<1>3. /\ g \in [1..m -> 1..n] /\ \A i, k \in 1..m : i < k => g[i] < g[k]
      /\ \A k \in 1..m : d[g[k]].id \in jd <=> c[k].id \in jc
      /\ \A j \in 1..n : (\E k \in 1..m : g[k] = j) \/ d[j].id \in jd
  BY <1>1 DEF MergeTwins, Increases
<1>4. g[m] \in 1..n /\ n \in 1..n
  <2>1. g[m] \in 1..n
    BY <1>2, <1>3
  <2> QED BY <2>1
<1>5. d # <<>>
  BY <1>1, <1>4, EmptySeq DEF Documents
<1>6. ASSUME NEW k \in 1..m, g[k] = n PROVE d[n].id \in jd
  <2>1. k = m
    <3>1. k < m => g[k] < g[m]
      BY <1>2, <1>3
    <3> QED BY <1>2, <1>4, <1>6, <3>1
  <2> QED BY <1>1, <1>3, <1>6, <2>1
<1> QED BY <1>1, <1>3, <1>4, <1>5, <1>6

(* What is behind the last paragraph that stays has the last one's id.     *)
LEMMA EndJoins ==
  ASSUME NEW E, NEW doc \in Documents(E), doc # <<>>, NEW joins, doc[Len(doc)].id \in joins
  PROVE  \E q \in ParagraphsIn(E) : /\ End(doc, joins).last = <<q>> /\ q.body = End(doc, joins).carry
                                    /\ q.id = doc[Len(doc)].id
<1>1. PICK n : n = Len(doc) /\ n \in 1..n /\ n - 1 \in 0..n
  <2>1. Len(doc) \in Nat \ {0}
    BY EmptySeq DEF Documents
  <2> QED BY <2>1
<1>2. PICK u : u = MergedUpTo(doc, joins)
  OBVIOUS
<1>3. PICK s, p : s = u[n - 1] /\ p = doc[n] /\ s \in Stages(E) /\ p \in ParagraphsIn(E)
  <2>1. u[n - 1] \in Stages(E)
    BY <1>1, <1>2, MergeRuns
  <2>2. n \in DOMAIN doc
    BY <1>1, LenProperties DEF Documents
  <2> QED BY <2>1, <2>2, ParagraphOf
<1>4. PICK q \in ParagraphsIn(E) : Advances(s, u[n], p, q, joins)
  BY <1>1, <1>2, <1>3, MergeRuns
<1>5. q.id = p.id
  <2>1. s.carry \in Bodies(E)
    BY <1>3 DEF Stages
  <2>2. Behind(s.carry, p) = [id |-> p.id, mark |-> p.mark, body |-> s.carry \o p.body]
    BY <1>3, <2>1, BehindIs
  <2>3. q = [id |-> p.id, mark |-> p.mark, body |-> s.carry \o p.body]
    BY <1>4, <2>2 DEF Advances
  <2> QED BY ONLY <2>3
<1>6. u[n] = End(doc, joins)
  BY <1>1, <1>2 DEF End
<1> QED BY <1>1, <1>3, <1>4, <1>5, <1>6 DEF Advances

(* The merged documents: the same texts, from corresponding places, but    *)
(* for the last one.                                                       *)
LastPair(p, q, c, d) == q.body = p.body /\ p.id = c[Len(c)].id /\ q.id = d[Len(d)].id

JoinedTwins(x, y, g, c, d) ==
  /\ Len(x) = Len(y)
  /\ \A i \in 1..Len(x) : DonePair(x[i], y[i], g, c, d) \/ (i = Len(x) /\ LastPair(x[i], y[i], c, d))

LEMMA Lengthened ==
  ASSUME NEW T, NEW x \in Seq(T), NEW p
  PROVE  /\ Len(x \o <<p>>) = Len(x) + 1 /\ (x \o <<p>>)[Len(x) + 1] = p
         /\ \A i \in 1..Len(x) : (x \o <<p>>)[i] = x[i]
<1>1. PICK U : U = T \cup {p}
  OBVIOUS
<1>2. x \in Seq(U) /\ p \in U
  BY <1>1, SeqMonotonic
<1>3. x \o <<p>> = Append(x, p)
  BY <1>2, AppendIsConcat
<1> QED BY <1>2, <1>3, AppendProperties

LEMMA OutAlike ==
  ASSUME NEW E, NEW c \in Documents(E), c # <<>>, NEW d \in Documents(E), NEW g, NEW jc, NEW jd,
         MergeTwins(g, c, d, jc, jd)
  PROVE  JoinedTwins(Merged(c, jc), Merged(d, jd), g, c, d)
<1>1. PICK u, v : u = End(c, jc) /\ v = End(d, jd)
  OBVIOUS
<1>2. StageTwins(u, v, g, c, d)
  BY <1>1, MergesAlike
<1>3. DoneTwins(u.done, v.done, g, c, d) /\ u.carry = v.carry
  BY <1>2 DEF StageTwins
<1>4. Merged(c, jc) = OutOf(u) /\ Merged(d, jd) = OutOf(v)
  BY <1>1, MergedOut
<1>5. u \in Stages(E) /\ (c[Len(c)].id \notin jc => u.last = <<>> /\ u.carry = <<>>)
  BY <1>1, EndIs
<1>6. d # <<>>
  <2>1. PICK n \in Nat, m \in Nat : n = Len(d) /\ m = Len(c)
    BY LenProperties DEF Documents
  <2>2. 1 \in 1..m
    BY <2>1, EmptySeq DEF Documents
  <2>3. g \in [1..m -> 1..n]
    BY <2>1 DEF MergeTwins
  <2>4. g[1] \in 1..n
    BY <2>2, <2>3
  <2>5. n # 0
    BY <2>4
  <2> QED BY <2>1, <2>5
<1>7. v \in Stages(E)
  BY <1>1, <1>6, EndIs
<1>8. PICK x, y : x = u.done /\ y = v.done /\ x \in Documents(E) /\ y \in Documents(E)
  BY <1>5, <1>7 DEF Stages
<1>9. PICK l \in Nat : l = Len(x)
  BY <1>8, LenProperties DEF Documents
<1>10. l = Len(y) /\ \A i \in 1..l : DonePair(x[i], y[i], g, c, d)
  BY <1>3, <1>8, <1>9 DEF DoneTwins
<1>11. x = <<>> <=> y = <<>>
  BY <1>8, <1>9, <1>10, EmptySeq DEF Documents
<1>12. CASE c[Len(c)].id \in jc /\ (HasContent(u.carry) \/ x = <<>>)
  <2>1. PICK p : u.last = <<p>> /\ p.body = u.carry /\ p.id = c[Len(c)].id
    BY <1>1, <1>12, EndJoins
  <2>2. d[Len(d)].id \in jd
    BY <1>12, LastsAlike
  <2>3. PICK q : v.last = <<q>> /\ q.body = v.carry /\ q.id = d[Len(d)].id
    BY <1>1, <1>6, <2>2, EndJoins
  <2>4. OutOf(u) = x \o <<p>> /\ OutOf(v) = y \o <<q>>
    <3>1. u.last # <<>> /\ v.last # <<>>
      BY <2>1, <2>3
    <3> QED BY <1>3, <1>8, <1>11, <1>12, <2>1, <2>3, <3>1 DEF OutOf
  <2>5. PICK xx, yy : xx = x \o <<p>> /\ yy = y \o <<q>>
    OBVIOUS
  <2>6. Len(xx) = l + 1 /\ xx[l + 1] = p /\ \A i \in 1..l : xx[i] = x[i]
    BY <1>8, <1>9, <2>5, Lengthened DEF Documents
  <2>7. Len(yy) = l + 1 /\ yy[l + 1] = q /\ \A i \in 1..l : yy[i] = y[i]
    BY <1>8, <1>10, <2>5, Lengthened DEF Documents
  <2>8. LastPair(p, q, c, d)
    BY <1>3, <2>1, <2>3 DEF LastPair
  <2>9. ASSUME NEW i \in 1..(l + 1)
        PROVE  DonePair(xx[i], yy[i], g, c, d) \/ (i = l + 1 /\ LastPair(xx[i], yy[i], c, d))
    <3>1. CASE i = l + 1
      BY <2>6, <2>7, <2>8, <3>1
    <3>2. CASE i # l + 1
      <4>1. i \in 1..l
        BY <3>2
      <4>2. xx[i] = x[i] /\ yy[i] = y[i]
        BY <2>6, <2>7, <4>1
      <4> QED BY <1>10, <4>1, <4>2
    <3> QED BY <3>1, <3>2
  <2>10. JoinedTwins(xx, yy, g, c, d)
    BY <2>6, <2>7, <2>9 DEF JoinedTwins
  <2> QED BY <1>4, <2>4, <2>5, <2>10
<1>13. CASE ~(c[Len(c)].id \in jc /\ (HasContent(u.carry) \/ x = <<>>))
  <2>1. ~HasContent(u.carry) /\ x # <<>>
    <3>1. CASE c[Len(c)].id \in jc
      BY <1>13, <3>1
    <3>2. CASE c[Len(c)].id \notin jc
      <4>1. u.last = <<>> /\ u.carry = <<>>
        BY <1>5, <3>2
      <4>2. ~HasContent(u.carry)
        BY <4>1 DEF HasContent
      <4>3. Merged(c, jc) # <<>> /\ Merged(c, jc) = x
        <5>1. Merged(c, jc) = x
          BY <1>4, <1>8, <4>1 DEF OutOf
        <5>2. PICK end : end = MergedUpTo(c, jc)[Len(c)]
          OBVIOUS
        <5>3. c # <<>> => Merged(c, jc) # <<>>
          BY <5>2, MergedIs
        <5> QED BY <5>1, <5>3
      <4> QED BY <4>2, <4>3
    <3> QED BY <3>1, <3>2
  <2>2. OutOf(u) = x /\ OutOf(v) = y
    BY <1>3, <1>8, <1>11, <2>1 DEF OutOf
  <2>3. JoinedTwins(x, y, g, c, d)
    BY <1>9, <1>10 DEF JoinedTwins
  <2> QED BY <1>4, <2>2, <2>3
<1> QED BY <1>12, <1>13

(* Merged twins have the same texts, and an id of both is the id of twins. *)
LEMMA JoinedIds ==
  ASSUME NEW x, NEW y, NEW g, NEW c, NEW d, JoinedTwins(x, y, g, c, d),
         DistinctIds(x), DistinctIds(y), DOMAIN x = 1..Len(x), DOMAIN y = 1..Len(y),
         Len(c) \in Nat \ {0}, Len(d) \in Nat \ {0}, Len(x) \in Nat,
         g \in [1..Len(c) -> 1..Len(d)], Increases(g, Len(c)),
         \A j \in 1..Len(d), k \in 1..Len(c) : d[j].id = c[k].id => g[k] = j,
         NEW i \in 1..Len(x), NEW j \in 1..Len(y), y[j].id = x[i].id
  PROVE  i = j
<1>1. PICK l \in Nat, n \in Nat, m \in Nat : /\ l = Len(x) /\ l = Len(y) /\ n = Len(d) /\ m = Len(c)
                                             /\ n \in 1..n /\ m \in 1..m
  <2>1. Len(x) = Len(y)
    BY DEF JoinedTwins
  <2>2. PICK n \in Nat, m \in Nat : n = Len(d) /\ m = Len(c) /\ n # 0 /\ m # 0
    OBVIOUS
  <2>3. n \in 1..n /\ m \in 1..m
    BY <2>2
  <2> QED BY <2>1, <2>2, <2>3
<1>2. i \in 1..l /\ j \in 1..l
  BY <1>1
<1>3. \A k \in 1..l : DonePair(x[k], y[k], g, c, d) \/ (k = l /\ LastPair(x[k], y[k], c, d))
  BY <1>1 DEF JoinedTwins
<1>4. \A a \in 1..n, k \in 1..m : d[a].id = c[k].id => g[k] = a
  BY <1>1
<1>5. g \in [1..m -> 1..n] /\ \A a, k \in 1..m : a < k => g[a] < g[k]
  BY <1>1 DEF Increases
<1>6. CASE DonePair(x[i], y[i], g, c, d)
  <2>1. PICK b \in 1..m : x[i].id = c[b].id /\ y[i].id = d[g[b]].id
    BY <1>1, <1>6 DEF DonePair
  <2>2. PICK a \in 1..n : y[j].id = d[a].id
    <3>1. CASE DonePair(x[j], y[j], g, c, d)
      <4>1. PICK k \in 1..m : y[j].id = d[g[k]].id
        BY <1>1, <3>1 DEF DonePair
      <4>2. g[k] \in 1..n
        BY <1>5, <4>1
      <4> QED BY <4>1, <4>2
    <3>2. CASE LastPair(x[j], y[j], c, d)
      BY <1>1, <3>2 DEF LastPair
    <3> QED BY <1>2, <1>3, <3>1, <3>2
  <2>3. g[b] = a
    BY <1>4, <2>1, <2>2
  <2>4. y[i].id = y[j].id
    BY <2>1, <2>2, <2>3
  <2> QED BY <1>1, <1>2, <2>4 DEF DistinctIds
<1>7. CASE i = l /\ LastPair(x[i], y[i], c, d)
  <2>1. x[i].id = c[m].id
    BY <1>1, <1>7 DEF LastPair
  <2>2. CASE DonePair(x[j], y[j], g, c, d)
    <3>1. PICK a \in 1..m : x[j].id = c[a].id /\ y[j].id = d[g[a]].id
      BY <1>1, <2>2 DEF DonePair
    <3>2. g[a] \in 1..n /\ g[m] \in 1..n
      BY <1>1, <1>5, <3>1
    <3>3. g[m] = g[a]
      BY <1>1, <1>4, <2>1, <3>1, <3>2
    <3>4. a = m
      <4>1. a < m => g[a] < g[m]
        BY <1>1, <1>5
      <4> QED BY <1>1, <3>2, <3>3, <4>1
    <3>5. x[j].id = x[i].id
      BY <2>1, <3>1, <3>4
    <3> QED BY <1>1, <1>2, <3>5 DEF DistinctIds
  <2>3. CASE j = l
    BY <1>7, <2>3
  <2> QED BY <1>2, <1>3, <2>2, <2>3
<1> QED BY <1>2, <1>3, <1>6, <1>7

(***************************************************************************)
(* Accepting everything                                                    *)
(***************************************************************************)

AllOf(d) == Ids(Revisions(d))

(* What is left of a body when all the revisions of its document are       *)
(* accepted, some of them before.                                          *)
LEMMA AcceptedInTwo ==
  ASSUME NEW E, \A e \in E : e.kind \in {"ins", "del", "link"}, NEW d \in Documents(E),
         NEW j \in DOMAIN d, NEW sel,
         NEW c \in Documents(E), NEW k \in DOMAIN c, c[k].body = Taken(d[j].body, sel)
  PROVE  Taken(d[j].body, AllOf(d)) = Taken(c[k].body, AllOf(c))
<1>12. PICK all, ids : all = Ids(Revisions(d)) /\ all = AllOf(d) /\ ids = Ids(Revisions(c)) /\ ids = AllOf(c)
  BY DEF AllOf
<1>1. PICK body, rest, left : body = d[j].body /\ rest = all \ sel /\ left = c[k].body
  OBVIOUS
<1>2. body \in Bodies(E) /\ left \in Bodies(E)
  <2>1. d[j] \in ParagraphsIn(E) /\ c[k] \in ParagraphsIn(E)
    BY ParagraphOf
  <2> QED BY <1>1, <2>1 DEF ParagraphsIn
<1>3. Kinds("del", "ins")
  BY DEF Kinds
<1>4. \A i \in DOMAIN body : \A r \in Range(body[i].in) : r.kind # "link" => r \in Revisions(d) /\ r.id \in all
  BY <1>1, <1>12, RevisionsAre DEF Ids
<1>5. \A i \in DOMAIN left : \A r \in Range(left[i].in) : r.kind # "link" => r.id \in ids
  BY <1>1, <1>12, RevisionsAre DEF Ids
<1>6. ResolvedBody(body, "del", "ins", all) = ResolvedBody(body, "del", "ins", sel \cup rest)
  <2>1. \A i \in DOMAIN body : AgreeOn(Range(body[i].in), all, sel \cup rest)
    BY <1>1, <1>4 DEF AgreeOn
  <2> QED BY <1>2, <1>3, <2>1, BodiesAgree
<1>7. ResolvedBody(body, "del", "ins", sel \cup rest) = ResolvedBody(left, "del", "ins", rest)
  <2>1. sel \cap rest = {}
    BY <1>1
  <2>2. left = ResolvedBody(body, "del", "ins", sel)
    BY <1>1 DEF Taken
  <2> QED BY <1>2, <2>1, <2>2, BodyAtOnce
<1>8. PICK F : F = {e \in E : e.kind = "link" \/ e \in Revisions(d)}
  OBVIOUS
<1>9. left \in Bodies(LeftOf(F, sel))
  <2>1. \A e \in E : e.kind = "link" \/ e \in Revisions(d) => e \in F
    BY <1>8
  <2>2. d \in Documents(F)
    BY <2>1, HoldsItsRevisions
  <2>3. d[j] \in ParagraphsIn(F)
    BY <2>2, ParagraphOf
  <2>4. body \in Bodies(F)
    BY <1>1, <2>3 DEF ParagraphsIn
  <2>5. \A e \in F : e.kind \in {"ins", "del", "link"}
    BY <1>8
  <2>6. ResolvedBody(body, "del", "ins", sel) \in Bodies(LeftOf(F, sel))
    BY <1>3, <2>4, <2>5, ResolvedBodyLeaves
  <2> QED BY <1>1, <2>6 DEF Taken
<1>10. ASSUME NEW i \in DOMAIN left, NEW r \in Range(left[i].in), r.kind # "link" PROVE r.id \in rest
  <2>1. PICK l : l = left /\ l \in Seq(ItemsIn(LeftOf(F, sel)))
    BY <1>9 DEF Bodies, ItemsIn, Toks
  <2>2. l[i] \in ItemsIn(LeftOf(F, sel))
    BY <1>10, <2>1, LenProperties, ElementOfSeq
  <2>3. l[i].in \in Seq(LeftOf(F, sel))
    BY <2>2 DEF ItemsIn
  <2>4. r \in LeftOf(F, sel)
    BY <1>10, <2>1, <2>3, LenProperties, ElementOfSeq DEF Range
  <2>5. r.id \notin sel /\ r \in Revisions(d)
    BY <1>8, <1>10, <2>4 DEF LeftOf
  <2> QED BY <1>1, <1>12, <2>5 DEF Ids
<1>11. ResolvedBody(left, "del", "ins", rest) = ResolvedBody(left, "del", "ins", ids)
  <2>1. \A i \in DOMAIN left : AgreeOn(Range(left[i].in), rest, ids)
    BY <1>5, <1>10 DEF AgreeOn
  <2> QED BY <1>2, <1>3, <2>1, BodiesAgree
<1> QED BY <1>1, <1>6, <1>7, <1>11, <1>12 DEF Taken

AcceptedIn(d) == EachResolved(d, "del", "ins", AllOf(d))
JoiningAll(d) == JoinIds(d, "del", AllOf(d))

LEMMA AcceptAllIs == \A d : AcceptAll(d) = Merged(AcceptedIn(d), JoiningAll(d))
BY ResolveIs DEF AcceptAll, Accept, AcceptedIn, JoiningAll, AllOf

LEMMA AcceptedInIs ==
  ASSUME NEW E, NEW d \in Documents(E), DistinctIds(d)
  PROVE  /\ AcceptedIn(d) \in Documents(E) /\ Len(AcceptedIn(d)) = Len(d)
         /\ \A j \in DOMAIN d : /\ AcceptedIn(d)[j].body = Taken(d[j].body, AllOf(d))
                                /\ AcceptedIn(d)[j].id = d[j].id
                                /\ d[j].id \in JoiningAll(d) <=> \E r \in d[j].mark : r.kind = "del"
<1>1. PICK z, all : z = EachResolved(d, "del", "ins", all) /\ z = AcceptedIn(d) /\ all = AllOf(d)
  BY DEF AcceptedIn
<1>2. /\ z \in Documents(E) /\ Len(z) = Len(d)
      /\ \A j \in DOMAIN d : z[j] = Resolved(d[j], "del", "ins", all) /\ z[j].id = d[j].id
  BY <1>1, EachResolvedIs
<1>3. ASSUME NEW j \in DOMAIN d
      PROVE  /\ z[j].body = Taken(d[j].body, all)
             /\ d[j].id \in JoiningAll(d) <=> \E r \in d[j].mark : r.kind = "del"
  <2>1. d[j] \in ParagraphsIn(E)
    BY ParagraphOf
  <2>2. z[j] = [id |-> d[j].id, mark |-> MarkLeft(d[j].mark, all), body |-> ResolvedBody(d[j].body, "del", "ins", all)]
    BY <1>2, <2>1, ResolvedIs
  <2>3. z[j].body = Taken(d[j].body, all)
    BY ONLY <2>2 DEF Taken
  <2>4. d[j].id \in JoinIds(d, "del", all) <=> JoiningIn(d[j], "del", all)
    BY JoinIdsAre
  <2>5. \A r \in d[j].mark : r.id \in all
    BY <1>1, RevisionsAre DEF AllOf, Ids
  <2> QED BY <1>1, <2>3, <2>4, <2>5 DEF JoiningAll, JoiningIn
<1> QED BY <1>1, <1>2, <1>3

(* Twins, all accepted, merge alike.                                       *)
LEMMA TwinsMerge ==
  ASSUME NEW E, \A e \in E : e.kind \in {"ins", "del", "link"},
         NEW d \in Documents(E), DistinctIds(d), NEW c \in Documents(E), DistinctIds(c),
         NEW sel, NEW g, Twins(g, c, d, sel)
  PROVE  MergeTwins(g, AcceptedIn(c), AcceptedIn(d), JoiningAll(c), JoiningAll(d))
<1>1. PICK n \in Nat, m \in Nat : n = Len(d) /\ m = Len(c) /\ DOMAIN d = 1..n /\ DOMAIN c = 1..m
  BY LenProperties DEF Documents
<1>2. /\ g \in [1..m -> 1..n] /\ Increases(g, m)
      /\ \A i \in 1..m : TwinOf(c[i], d[g[i]], sel)
      /\ \A j \in 1..n : (\E i \in 1..m : g[i] = j) \/ Extra(d[j], sel)
  BY <1>1 DEF Twins
<1>3. PICK x, y, jc, jd : x = AcceptedIn(c) /\ y = AcceptedIn(d) /\ jc = JoiningAll(c) /\ jd = JoiningAll(d)
  OBVIOUS
<1>4. /\ Len(x) = m
      /\ \A k \in 1..m : /\ x[k].body = Taken(c[k].body, AllOf(c)) /\ x[k].id = c[k].id
                         /\ c[k].id \in jc <=> \E r \in c[k].mark : r.kind = "del"
  BY <1>1, <1>3, AcceptedInIs
<1>5. /\ Len(y) = n
      /\ \A j \in 1..n : /\ y[j].body = Taken(d[j].body, AllOf(d)) /\ y[j].id = d[j].id
                         /\ d[j].id \in jd <=> \E r \in d[j].mark : r.kind = "del"
  BY <1>1, <1>3, AcceptedInIs
<1>6. ASSUME NEW k \in 1..m PROVE y[g[k]].body = x[k].body /\ (y[g[k]].id \in jd <=> x[k].id \in jc)
  <2>1. PICK j \in 1..n : j = g[k]
    BY <1>2
  <2>2. TwinOf(c[k], d[j], sel)
    BY <1>2, <2>1
  <2>3. Taken(d[j].body, AllOf(d)) = Taken(c[k].body, AllOf(c))
    <3>1. c[k].body = Taken(d[j].body, sel)
      BY <2>2 DEF TwinOf
    <3>2. j \in DOMAIN d /\ k \in DOMAIN c
      BY <1>1
    <3> QED BY <3>1, <3>2, AcceptedInTwo
  <2>4. (\E r \in d[j].mark : r.kind = "del") <=> \E r \in c[k].mark : r.kind = "del"
    BY <2>2 DEF TwinOf, MarkLeft
  <2> QED BY <1>4, <1>5, <2>1, <2>3, <2>4
<1>7. ASSUME NEW j \in 1..n, Extra(d[j], sel) PROVE y[j].id \in jd /\ y[j].body = <<>>
  <2>1. y[j].id \in jd
    BY <1>5, <1>7 DEF Extra
  <2>2. PICK body, rest, all : body = d[j].body /\ all = AllOf(d) /\ rest = all \ sel
    OBVIOUS
  <2>3. body \in Bodies(E)
    <3>1. d[j] \in ParagraphsIn(E)
      BY <1>1, ParagraphOf
    <3> QED BY <2>2, <3>1 DEF ParagraphsIn
  <2>4. ResolvedBody(body, "del", "ins", all) = ResolvedBody(body, "del", "ins", sel \cup rest)
    <3>1. \A i \in DOMAIN body : \A r \in Range(body[i].in) : r.kind # "link" => r.id \in all
      BY <1>1, <2>2, RevisionsAre DEF Ids, AllOf
    <3>2. \A i \in DOMAIN body : AgreeOn(Range(body[i].in), all, sel \cup rest)
      BY <2>2, <3>1 DEF AgreeOn
    <3>3. Kinds("del", "ins")
      BY DEF Kinds
    <3> QED BY <2>3, <3>2, <3>3, BodiesAgree
  <2>5. ResolvedBody(ResolvedBody(body, "del", "ins", sel), "del", "ins", rest)
        = ResolvedBody(body, "del", "ins", sel \cup rest)
    <3>1. sel \cap rest = {}
      BY <2>2
    <3> QED BY <2>3, <3>1, BodyAtOnce
  <2>6. ResolvedBody(body, "del", "ins", sel) = <<>>
    BY <1>7, <2>2 DEF Extra, Taken
  <2>7. ResolvedBody(<<>>, "del", "ins", rest) = <<>>
    BY NothingResolved
  <2>8. Taken(d[j].body, AllOf(d)) = <<>>
    BY <2>2, <2>4, <2>5, <2>6, <2>7 DEF Taken
  <2> QED BY <1>5, <2>1, <2>8
<1>8. MergeTwins(g, x, y, jc, jd)
  BY <1>2, <1>4, <1>5, <1>6, <1>7 DEF MergeTwins
<1> QED BY <1>3, <1>8

(* Twins, all accepted, have the same texts and are twins.                 *)
SameBodies(x, y) == Len(x) = Len(y) /\ \A i \in 1..Len(x) : y[i].body = x[i].body

LEMMA AcceptedAlike ==
  ASSUME NEW E, \A e \in E : e.kind \in {"ins", "del", "link"},
         NEW d \in Documents(E), DistinctIds(d), NEW c \in Documents(E), DistinctIds(c), c # <<>>,
         NEW sel, NEW g, Twins(g, c, d, sel), NEW T
  PROVE  /\ SameBodies(AcceptAll(c), AcceptAll(d))
         /\ \E h : Twins(h, AcceptAll(c), AcceptAll(d), T)
<1>1. PICK n \in Nat, m \in Nat : n = Len(d) /\ m = Len(c) /\ DOMAIN d = 1..n /\ DOMAIN c = 1..m
  BY LenProperties DEF Documents
<1>2. 1 \in 1..m
  BY <1>1, EmptySeq DEF Documents
<1>3. PICK zc, zd, jc, jd : zc = AcceptedIn(c) /\ zd = AcceptedIn(d) /\ jc = JoiningAll(c) /\ jd = JoiningAll(d)
  OBVIOUS
<1>4. /\ zc \in Documents(E) /\ Len(zc) = m
      /\ \A k \in 1..m : zc[k].id = c[k].id
  BY <1>1, <1>3, AcceptedInIs
<1>5. /\ zd \in Documents(E) /\ Len(zd) = n
      /\ \A j \in 1..n : zd[j].id = d[j].id
  BY <1>1, <1>3, AcceptedInIs
<1>6. MergeTwins(g, zc, zd, jc, jd)
  <2>1. MergeTwins(g, AcceptedIn(c), AcceptedIn(d), JoiningAll(c), JoiningAll(d))
    BY TwinsMerge
  <2> QED BY <1>3, <2>1
<1>7. zc # <<>>
  BY <1>2, <1>4, EmptySeq
<1>8. PICK x, y : x = AcceptAll(c) /\ y = AcceptAll(d) /\ x = Merged(zc, jc) /\ y = Merged(zd, jd)
  BY <1>3, AcceptAllIs
<1>9. JoinedTwins(x, y, g, zc, zd)
  BY <1>4, <1>5, <1>6, <1>7, <1>8, OutAlike
<1>10. Kinds("del", "ins")
  BY DEF Kinds
<1>11. /\ x \in Documents(E) /\ DistinctIds(x) /\ \A r \in Revisions(x) : FALSE
       /\ y \in Documents(E) /\ DistinctIds(y) /\ \A r \in Revisions(y) : FALSE
  <2>1. ASSUME NEW b \in Documents(E), DistinctIds(b)
        PROVE  /\ AcceptAll(b) \in Documents(E) /\ DistinctIds(AcceptAll(b))
               /\ \A r \in Revisions(AcceptAll(b)) : FALSE
    <3>1. PICK a : a = Resolve(b, "del", "ins", Ids(Revisions(b))) /\ a = AcceptAll(b)
      BY DEF AcceptAll, Accept
    <3>2. a \in Documents(LeftOf(E, Ids(Revisions(b)))) /\ DistinctIds(a)
      BY <1>10, <2>1, <3>1, ResolveLeaves
    <3>3. LeftOf(E, Ids(Revisions(b))) \subseteq E
      BY DEF LeftOf
    <3>4. a \in Documents(E)
      BY <3>2, <3>3, DocumentsGrow
    <3>5. \A r \in Revisions(Resolve(b, "del", "ins", Ids(Revisions(b)))) :
             r \in Revisions(b) /\ r.id \notin Ids(Revisions(b))
      BY <1>10, RevisionsLeft
    <3>6. \A r \in Revisions(a) : FALSE
      BY <3>1, <3>5 DEF Ids
    <3> QED BY <3>1, <3>2, <3>4, <3>6
  <2> QED BY <1>8, <2>1
<1>12. PICK l \in Nat : l = Len(x) /\ l = Len(y) /\ DOMAIN x = 1..l /\ DOMAIN y = 1..l
  BY <1>9, <1>11, LenProperties DEF Documents, JoinedTwins
<1>13. \A i \in 1..l : y[i].body = x[i].body
  BY <1>9, <1>12 DEF JoinedTwins, DonePair, LastPair
<1>14. ASSUME NEW i \in 1..l, NEW j \in 1..l, y[j].id = x[i].id PROVE i = j
  <2>1. g \in [1..m -> 1..n] /\ Increases(g, m) /\ \A a \in 1..n, k \in 1..m : d[a].id = c[k].id => g[k] = a
    BY <1>1 DEF Twins
  <2>2. m # 0 /\ n # 0
    <3>1. g[1] \in 1..n
      BY <1>2, <2>1
    <3> QED BY <1>2, <3>1
  <2>3. Len(zc) \in Nat \ {0} /\ Len(zd) \in Nat \ {0} /\ Len(x) \in Nat
    BY <1>4, <1>5, <1>12, <2>2
  <2>4. g \in [1..Len(zc) -> 1..Len(zd)] /\ Increases(g, Len(zc))
    BY <1>4, <1>5, <2>1
  <2>5. \A a \in 1..Len(zd), k \in 1..Len(zc) : zd[a].id = zc[k].id => g[k] = a
    BY <1>4, <1>5, <2>1
  <2>6. DOMAIN x = 1..Len(x) /\ DOMAIN y = 1..Len(y) /\ i \in 1..Len(x) /\ j \in 1..Len(y)
    BY <1>12
  <2> QED BY <1>9, <1>11, <1>14, <2>3, <2>4, <2>5, <2>6, JoinedIds
<1>15. PICK h : h = [i \in 1..l |-> i]
  OBVIOUS
<1>16. \A i \in 1..l : h[i] = i
  BY <1>15
<1>17. ASSUME NEW i \in 1..l PROVE TwinOf(x[i], y[h[i]], T)
  <2>1. Untouched(y[i], T)
    BY <1>11, <1>12, ParagraphUntouched
  <2>2. x[i].mark = {} /\ y[i].mark = {}
    BY <1>11, <1>12, RevisionsAre
  <2>3. x[i].mark = MarkLeft(y[i].mark, T)
    BY <2>1, <2>2 DEF Untouched
  <2>4. x[i].body = Taken(y[i].body, T)
    BY <1>13, <2>1 DEF Untouched
  <2> QED BY <1>16, <2>2, <2>3, <2>4 DEF TwinOf
<1>18. Twins(h, x, y, T)
  <2>1. h \in [1..l -> 1..l] /\ Increases(h, l)
    BY <1>15, <1>16 DEF Increases
  <2>2. \A j \in 1..l : \E k \in 1..l : h[k] = j
    BY <1>16
  <2>3. \A j \in 1..l, k \in 1..l : y[j].id = x[k].id => h[k] = j
    BY <1>14, <1>16
  <2> QED BY <1>12, <1>17, <2>1, <2>2, <2>3 DEF Twins
<1> QED BY <1>8, <1>12, <1>13, <1>18 DEF SameBodies

=============================================================================
