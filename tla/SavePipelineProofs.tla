------------------------- MODULE SavePipelineProofs -------------------------
(***************************************************************************)
(* Proofs about saving: that a session on which at most one save runs at a *)
(* time never writes nor caches an artefact that lacks an answered edit,   *)
(* however many tools edit, annotate, preview and extract meanwhile; that  *)
(* who queues last on the shared zip is served the document.xml it asked   *)
(* for; and that everybody is, previews with bookmarks and artefacts       *)
(* without, as long as those who wait in line ask for the same.            *)
(***************************************************************************)
EXTENDS SavePipeline, SequenceTheorems, TLAPS

(***************************************************************************)
(* The serialization chain                                                 *)
(***************************************************************************)

(* A queue of distinct calls that a further call joins. *)
LEMMA Joins ==
  ASSUME NEW S, NEW q \in Seq(S), IsInjective(q), NEW c \in S, c \notin Range(q)
  PROVE  /\ Append(q, c) \in Seq(S) /\ Append(q, c) # <<>>
         /\ IsInjective(Append(q, c))
         /\ Range(Append(q, c)) = Range(q) \cup {c}
         /\ Head(Append(q, c)) = IF q = <<>> THEN c ELSE Head(q)
<1>1. /\ Append(q, c) \in Seq(S) /\ Len(Append(q, c)) = Len(q) + 1
      /\ \A i \in 1..Len(q) : Append(q, c)[i] = q[i]
      /\ Append(q, c)[Len(q) + 1] = c
  OBVIOUS
<1>2. DOMAIN q = 1..Len(q) /\ DOMAIN Append(q, c) = 1..(Len(q) + 1) /\ Len(q) \in Nat
  BY <1>1
<1>3. \A i \in 1..Len(q) : q[i] # c
  BY <1>2 DEF Range
<1>4. IsInjective(Append(q, c))
  <2> SUFFICES ASSUME NEW i \in 1..(Len(q) + 1), NEW j \in 1..(Len(q) + 1),
                      Append(q, c)[i] = Append(q, c)[j]
               PROVE  i = j
    BY <1>2 DEF IsInjective
  <2>1. CASE i \in 1..Len(q) /\ j \in 1..Len(q)
    BY <2>1, <1>1, <1>2 DEF IsInjective
  <2>2. CASE i = Len(q) + 1 \/ j = Len(q) + 1
    BY <2>2, <1>1, <1>2, <1>3
  <2> QED BY <2>1, <2>2, <1>2
<1>5. Range(Append(q, c)) = Range(q) \cup {c}
  <2>1. Range(Append(q, c)) \subseteq Range(q) \cup {c}
    BY <1>1, <1>2 DEF Range
  <2>2. Range(q) \subseteq Range(Append(q, c))
    BY <1>1, <1>2 DEF Range
  <2>3. c \in Range(Append(q, c))
    BY <1>1, <1>2 DEF Range
  <2> QED BY <2>1, <2>2, <2>3
<1>6. Append(q, c) # <<>> /\ Head(Append(q, c)) = IF q = <<>> THEN c ELSE Head(q)
  BY <1>1, <1>2
<1> QED BY <1>1, <1>4, <1>5, <1>6

(* A queue of distinct calls whose head is served. *)
LEMMA Leaves ==
  ASSUME NEW S, NEW q \in Seq(S), IsInjective(q), q # <<>>
  PROVE  /\ Head(q) \in Range(q)
         /\ Tail(q) \in Seq(S)
         /\ IsInjective(Tail(q))
         /\ Range(Tail(q)) = Range(q) \ {Head(q)}
<1>1. /\ Len(q) \in Nat \ {0} /\ DOMAIN q = 1..Len(q) /\ Head(q) = q[1]
      /\ Tail(q) \in Seq(S) /\ Len(Tail(q)) = Len(q) - 1
      /\ DOMAIN Tail(q) = 1..(Len(q) - 1)
      /\ \A i \in 1..(Len(q) - 1) : Tail(q)[i] = q[i + 1]
  BY EmptySeq, HeadTailProperties, LenProperties
<1>2. IsInjective(Tail(q))
  <2> SUFFICES ASSUME NEW i \in 1..(Len(q) - 1), NEW j \in 1..(Len(q) - 1),
                      Tail(q)[i] = Tail(q)[j]
               PROVE  i = j
    BY <1>1 DEF IsInjective
  <2>1. q[i + 1] = q[j + 1] /\ i + 1 \in DOMAIN q /\ j + 1 \in DOMAIN q
    BY <1>1
  <2>2. i + 1 = j + 1
    BY <2>1 DEF IsInjective
  <2> QED BY <2>2
<1>3. Head(q) \in Range(q)
  BY <1>1 DEF Range
<1>4. Range(Tail(q)) \subseteq Range(q) \ {Head(q)}
  <2> SUFFICES ASSUME NEW i \in 1..(Len(q) - 1)
               PROVE  Tail(q)[i] \in Range(q) /\ Tail(q)[i] # q[1]
    BY <1>1 DEF Range
  <2>1. Tail(q)[i] = q[i + 1] /\ i + 1 \in DOMAIN q /\ 1 \in DOMAIN q /\ i + 1 # 1
    BY <1>1
  <2> QED BY <2>1 DEF Range, IsInjective
<1>5. Range(q) \ {Head(q)} \subseteq Range(Tail(q))
  <2> SUFFICES ASSUME NEW i \in 1..Len(q), q[i] # q[1]
               PROVE  q[i] \in Range(Tail(q))
    BY <1>1 DEF Range
  <2>1. i - 1 \in 1..(Len(q) - 1) /\ Tail(q)[i - 1] = q[i]
    BY <1>1
  <2> QED BY <2>1, <1>1 DEF Range
<1> QED BY <1>1, <1>2, <1>3, <1>4, <1>5

(***************************************************************************)
(* Type correctness                                                        *)
(***************************************************************************)

(* The zip and where everybody waits. *)
ZipTypes ==
  /\ part \in Contents /\ snap \in Contents
  /\ chain \in Seq(Callers)
  /\ IsInjective(chain)
  /\ Range(chain) = {c \in Callers : pc[c] \in InChain}
  /\ pc \in [Callers -> Stages]
  /\ sent \in [Callers -> [dom : Edits, cleaning : BOOLEAN]]

(* The rest of the state, apart from what relates it to pc. *)
OtherTypes ==
  /\ author \in BOOLEAN
  /\ dom \in Edits /\ rev \in Edits /\ acked \in Edits
  /\ saveCache \in [Edits -> [Formats -> Entries \cup {None}]]
  /\ extraction \in [revision : Edits, dom : Edits] \cup {None}
  /\ asked \in [Callers -> Edits]
  /\ job \in [Savers -> [format : Formats, key : Edits, art : Entries \cup {None}]]
  /\ got \in [Editors \cup Extractors -> Contents \cup {None}]
  /\ own \in [Editors -> Edits]

(* Who waits where, and with what. *)
StagesOK ==
  /\ \A s \in Savers : pc[s] \in SaverStages /\ ArtefactReady(s)
  /\ \A e \in Editors : pc[e] \in EditorStages
  /\ \A x \in Extractors : pc[x] \in ExtractorStages /\ (pc[x] = "extracting" => got[x] \in Contents)

(* The type invariant in parts: the zip and its chain, the data, the stages. *)
LEMMA TypeParts == TypeOK <=> ZipTypes /\ OtherTypes /\ StagesOK
BY DEF TypeOK, ZipTypes, OtherTypes, StagesOK

(* toBuffer queues its caller, who did not wait on the zip before. *)
LEMMA ToBufferTypes ==
  ASSUME ZipTypes, dom \in Edits, NEW c \in Callers, NEW cleaning \in BOOLEAN,
         NEW stage \in InChain, pc[c] \notin InChain,
         Await(c, stage), ToBuffer(c, cleaning, chain, snap)
  PROVE  ZipTypes'
<1>1. c \notin Range(chain)
  BY DEF ZipTypes
<1>2. /\ chain' \in Seq(Callers) /\ IsInjective(chain')
      /\ Range(chain') = Range(chain) \cup {c}
  BY <1>1, Joins DEF ToBuffer, ZipTypes
<1>3. /\ pc' \in [Callers -> Stages]
      /\ {d \in Callers : pc'[d] \in InChain} = {d \in Callers : pc[d] \in InChain} \cup {c}
  BY DEF Await, ZipTypes, Stages, InChain, SaverStages, EditorStages
<1>4. part' \in Contents /\ snap' \in Contents
  BY DEF ToBuffer, ZipTypes, Contents
<1>5. sent' \in [Callers -> [dom : Edits, cleaning : BOOLEAN]]
  BY DEF ToBuffer, ZipTypes
<1> QED BY <1>2, <1>3, <1>4, <1>5 DEF ZipTypes

(* What the head of the chain writes back is a document.xml. *)
LEMMA RestoredType ==
  ASSUME ZipTypes, NEW c \in Callers
  PROVE  Restored(c) \in Contents
BY DEF ZipTypes, Restored, Contents

(* The head of the chain returns and waits elsewhere. *)
LEMMA ReturnTypes ==
  ASSUME ZipTypes, NEW c \in Callers, NEW stage \in Stages \ InChain,
         Await(c, stage), Returns(c), Return(c), 0 \in Edits
  PROVE  ZipTypes'
<1>1. /\ chain' \in Seq(Callers) /\ IsInjective(chain')
      /\ Range(chain') = Range(chain) \ {c} /\ c \in Range(chain)
  BY Leaves DEF Returns, Return, ZipTypes
<1>2. /\ pc' \in [Callers -> Stages]
      /\ {d \in Callers : pc'[d] \in InChain} = {d \in Callers : pc[d] \in InChain} \ {c}
  BY DEF Await, ZipTypes
<1>3. part' \in Contents /\ snap' \in Contents
  BY RestoredType DEF Return
<1>4. sent' \in [Callers -> [dom : Edits, cleaning : BOOLEAN]]
  BY DEF Return, ZipTypes, NotSent
<1> QED BY <1>1, <1>2, <1>3, <1>4 DEF ZipTypes

(* The head returns and queues again in the same turn. *)
LEMMA RequeueTypes ==
  ASSUME ZipTypes, dom \in Edits, NEW c \in Callers, NEW cleaning \in BOOLEAN,
         NEW stage \in InChain, Await(c, stage), Returns(c),
         ToBuffer(c, cleaning, Tail(chain), Restored(c))
  PROVE  ZipTypes'
<1>1. /\ Tail(chain) \in Seq(Callers) /\ IsInjective(Tail(chain))
      /\ Range(Tail(chain)) = Range(chain) \ {c} /\ c \in Range(chain)
  BY Leaves DEF Returns, ZipTypes
<1>2. /\ chain' \in Seq(Callers) /\ IsInjective(chain')
      /\ Range(chain') = Range(chain)
  <2>1. c \notin Range(Tail(chain)) /\ chain' = Append(Tail(chain), c)
    BY <1>1 DEF ToBuffer
  <2>a. c \notin Range(Tail(chain)) /\ Tail(chain) \in Seq(Callers) /\ IsInjective(Tail(chain))
    BY <1>1, <2>1
  <2>b. /\ Append(Tail(chain), c) \in Seq(Callers) /\ IsInjective(Append(Tail(chain), c))
        /\ Range(Append(Tail(chain), c)) = Range(Tail(chain)) \cup {c}
    <3> HIDE DEF IsInjective, Range
    <3> DEFINE q == Tail(chain)
    <3>1. q \in Seq(Callers) /\ IsInjective(q) /\ c \in Callers /\ c \notin Range(q)
      BY <2>a
    <3> HIDE DEF q
    <3>2. /\ Append(q, c) \in Seq(Callers) /\ IsInjective(Append(q, c))
          /\ Range(Append(q, c)) = Range(q) \cup {c}
      BY <3>1, Joins
    <3> QED BY <3>2 DEF q
  <2>2. /\ chain' \in Seq(Callers) /\ IsInjective(chain')
        /\ Range(chain') = Range(Tail(chain)) \cup {c}
    BY <2>1, <2>b
  <2>3. Range(Tail(chain)) \cup {c} = Range(chain)
    BY <1>1
  <2> QED BY <2>2, <2>3
<1>3. /\ pc' \in [Callers -> Stages]
      /\ {d \in Callers : pc'[d] \in InChain} = {d \in Callers : pc[d] \in InChain}
  BY <1>1 DEF Await, ZipTypes, Stages, InChain, SaverStages, EditorStages
<1>4. part' \in Contents /\ snap' \in Contents
  BY RestoredType DEF ToBuffer, Contents
<1>5. sent' \in [Callers -> [dom : Edits, cleaning : BOOLEAN]]
  BY DEF ToBuffer, ZipTypes
<1> QED BY <1>2, <1>3, <1>4, <1>5 DEF ZipTypes

(* The handler goes from one await to another, none of them on the zip. *)
LEMMA AsideTypes ==
  ASSUME ZipTypes, NEW c \in Callers, NEW stage \in Stages \ InChain,
         pc[c] \notin InChain, Await(c, stage), UNCHANGED zip
  PROVE  ZipTypes'
<1>1. /\ pc' \in [Callers -> Stages]
      /\ {d \in Callers : pc'[d] \in InChain} = {d \in Callers : pc[d] \in InChain}
  BY DEF Await, ZipTypes
<1> QED BY <1>1 DEF ZipTypes, zip

(* The bounds and what they bound. *)
LEMMA EditNumbers == 0 \in Edits /\ \A n \in Edits : n \in Nat /\ (n < MaxEdits => n + 1 \in Edits)
BY PipelineAssumption DEF Edits

(* A session that was just opened is well-typed.                          *)
LEMMA InitTypes == Init => TypeOK
<1> SUFFICES ASSUME Init PROVE TypeOK
  OBVIOUS
<1>1. ZipTypes
  BY EditNumbers DEF Init, ZipTypes, Contents, NotSent, IsInjective, Range, InChain, Stages, SaverStages
<1>2. OtherTypes
  BY EditNumbers DEF Init, OtherTypes, NoEntries, NoJob, Formats
<1>3. StagesOK
  BY DEF Init, StagesOK, SaverStages, EditorStages, ExtractorStages, ArtefactReady, Callers
<1> QED BY <1>1, <1>2, <1>3, TypeParts

(* Caching an artefact under a revision keeps the data well-typed.        *)
LEMMA StoreTypes ==
  ASSUME OtherTypes, NEW s \in Savers, NEW art \in Entries \cup {None}, Store(s, art)
  PROVE  /\ saveCache' \in [Edits -> [Formats -> Entries \cup {None}]]
         /\ UNCHANGED <<author, rev, acked, extraction>>
<1>1. job[s].key \in Edits /\ job[s].format \in Formats
  BY DEF OtherTypes
<1>2. [saveCache[job[s].key] EXCEPT ![job[s].format] = art] \in [Formats -> Entries \cup {None}]
  BY <1>1 DEF OtherTypes
<1> QED BY <1>1, <1>2 DEF Store, OtherTypes

(* A save keeps the types. *)
LEMMA SaveKeepsTypes ==
  ASSUME TypeOK, NEW s \in Savers, Save(s)
  PROVE  TypeOK'
<1>0. ZipTypes /\ OtherTypes /\ StagesOK /\ s \in Callers /\ dom \in Edits
  BY TypeParts DEF OtherTypes, Callers
<1> USE EditNumbers
<1> SUFFICES ZipTypes' /\ OtherTypes' /\ StagesOK'
  BY TypeParts DEF TypeOK, ZipTypes, OtherTypes, StagesOK, ArtefactReady
<1>a. pc[s] \in SaverStages /\ ArtefactReady(s) /\ pc \in [Callers -> Stages]
  BY <1>0 DEF StagesOK, ZipTypes
<1>b. ASSUME NEW stage \in SaverStages, Await(s, stage), UNCHANGED got,
             stage \in {"accepted", "redline", "stats", "writing"} => job'[s].art \in Entries,
             \A t \in Savers \ {s} : job'[t] = job[t]
      PROVE  StagesOK'
  BY <1>0, <1>b, PipelineAssumption DEF StagesOK, ZipTypes, Await, ArtefactReady, Callers
<1>1. ASSUME NEW f \in Formats, BeginSave(s, f) PROVE ZipTypes' /\ OtherTypes' /\ StagesOK'
  <2>1. ZipTypes'
    BY <1>0, <1>1, AsideTypes, ToBufferTypes DEF BeginSave, Stages, SaverStages, InChain
  <2>2. OtherTypes'
    BY <1>0, <1>1 DEF BeginSave, OtherTypes, session
  <2>4. /\ job'[s].art = saveCache[rev][f] /\ saveCache[rev][f] \in Entries \cup {None}
        /\ \A t \in Savers \ {s} : job'[t] = job[t]
    BY <1>0, <1>1 DEF BeginSave, OtherTypes
  <2>3. StagesOK'
    BY <1>1, <1>b, <2>4 DEF BeginSave, SaverStages
  <2> QED BY <2>1, <2>2, <2>3
<1>2. ASSUME Validated(s) PROVE ZipTypes' /\ OtherTypes' /\ StagesOK'
  <2>1. ZipTypes'
    BY <1>0, <1>2, AsideTypes, ToBufferTypes DEF Validated, Stages, SaverStages, InChain
  <2>2. OtherTypes'
    BY <1>0, <1>2 DEF Validated, OtherTypes, session
  <2>3. StagesOK'
    BY <1>0, <1>2, <1>b DEF Validated, SaverStages, OtherTypes
  <2> QED BY <2>1, <2>2, <2>3
<1>3. ASSUME AcceptSerialized(s) PROVE ZipTypes' /\ OtherTypes' /\ StagesOK'
  <2>1. ZipTypes'
    BY <1>0, <1>3, ReturnTypes DEF AcceptSerialized, Stages, SaverStages, InChain
  <2>2. OtherTypes'
    BY <1>0, <1>3 DEF AcceptSerialized, OtherTypes, ZipTypes, session, Entries, Contents
  <2>3. StagesOK'
    BY <1>0, <1>3, <1>b DEF AcceptSerialized, SaverStages, OtherTypes, ZipTypes, Entries, Contents
  <2> QED BY <2>1, <2>2, <2>3
<1>4. ASSUME Accepted(s) PROVE ZipTypes' /\ OtherTypes' /\ StagesOK'
  <2>1. ZipTypes'
    BY <1>0, <1>4, AsideTypes, ToBufferTypes DEF Accepted, Stages, SaverStages, InChain
  <2>2. OtherTypes'
    <3>1. job[s].art \in Entries \cup {None}
      BY <1>0 DEF OtherTypes
    <3> QED BY <1>0, <1>4, <3>1, StoreTypes DEF Accepted, OtherTypes, session
  <2>3. StagesOK'
    BY <1>0, <1>4, <1>a, <1>b DEF Accepted, SaverStages, OtherTypes, ArtefactReady
  <2> QED BY <2>1, <2>2, <2>3
<1>5. ASSUME CleanSerialized(s) PROVE ZipTypes' /\ OtherTypes' /\ StagesOK'
  <2>1. ZipTypes'
    BY <1>0, <1>5, ReturnTypes, RequeueTypes DEF CleanSerialized, Stages, SaverStages, InChain
  <2>2. OtherTypes'
    <3>1. [clean |-> snap, redline |-> None] \in Entries
      BY <1>0 DEF ZipTypes, Entries
    <3> QED BY <1>0, <1>5, <3>1, StoreTypes DEF CleanSerialized, OtherTypes, session
  <2>3. StagesOK'
    BY <1>0, <1>5, <1>b DEF CleanSerialized, SaverStages, OtherTypes, ZipTypes, Entries
  <2> QED BY <2>1, <2>2, <2>3
<1>6. ASSUME RedlineSerialized(s) PROVE ZipTypes' /\ OtherTypes' /\ StagesOK'
  <2>0. job[s].art \in Entries
    BY <1>6, <1>a DEF RedlineSerialized, ArtefactReady
  <2>1. ZipTypes'
    BY <1>0, <1>6, ReturnTypes DEF RedlineSerialized, Stages, SaverStages, InChain
  <2>4. job'[s].art \in Entries /\ job' \in [Savers -> [format : Formats, key : Edits, art : Entries \cup {None}]]
    <3>1. [job[s].art EXCEPT !.redline = snap] \in Entries
      BY <1>0, <2>0 DEF ZipTypes, Entries
    <3>2. job' = [job EXCEPT ![s] = [job[s] EXCEPT !.art = [job[s].art EXCEPT !.redline = snap]]]
      BY <1>6 DEF RedlineSerialized
    <3> QED BY <1>0, <3>1, <3>2 DEF OtherTypes
  <2>2. OtherTypes'
    BY <1>0, <1>6, <2>4 DEF RedlineSerialized, OtherTypes, session
  <2>3. StagesOK'
    BY <1>0, <1>6, <1>b, <2>4 DEF RedlineSerialized, SaverStages, OtherTypes
  <2> QED BY <2>1, <2>2, <2>3
<1>7. ASSUME StatsCollected(s) PROVE ZipTypes' /\ OtherTypes' /\ StagesOK'
  <2>1. ZipTypes'
    BY <1>0, <1>7, AsideTypes DEF StatsCollected, Stages, SaverStages, InChain
  <2>2. OtherTypes'
    <3>1. job[s].art \in Entries \cup {None}
      BY <1>0 DEF OtherTypes
    <3> QED BY <1>0, <1>7, <3>1, StoreTypes DEF StatsCollected, OtherTypes
  <2>3. StagesOK'
    BY <1>0, <1>7, <1>a, <1>b DEF StatsCollected, SaverStages, ArtefactReady
  <2> QED BY <2>1, <2>2, <2>3
<1>8. ASSUME Written(s) PROVE ZipTypes' /\ OtherTypes' /\ StagesOK'
  <2>1. ZipTypes'
    BY <1>0, <1>8, AsideTypes, ToBufferTypes DEF Written, AnswerSave, Stages, SaverStages, InChain
  <2>2. OtherTypes'
    <3>1. CASE UNCHANGED <<asked, job>>
      BY <1>0, <1>8, <3>1 DEF Written, OtherTypes, session
    <3>2. CASE AnswerSave(s)
      BY <1>0, <1>8, <3>2 DEF Written, AnswerSave, NoJob, Formats, OtherTypes, session
    <3> QED BY <1>8, <3>1, <3>2 DEF Written
  <2>3. StagesOK'
    BY <1>0, <1>8, <1>b DEF Written, AnswerSave, SaverStages, OtherTypes
  <2> QED BY <2>1, <2>2, <2>3
<1>9. ASSUME Summarized(s) PROVE ZipTypes' /\ OtherTypes' /\ StagesOK'
  <2>1. ZipTypes'
    BY <1>0, <1>9, ReturnTypes DEF Summarized, AnswerSave, Stages, SaverStages, InChain
  <2>2. OtherTypes'
    BY <1>0, <1>9 DEF Summarized, AnswerSave, NoJob, Formats, OtherTypes, session
  <2>3. StagesOK'
    BY <1>0, <1>9, <1>b DEF Summarized, AnswerSave, SaverStages, OtherTypes
  <2> QED BY <2>1, <2>2, <2>3
<1>10. ASSUME FailSave(s) PROVE ZipTypes' /\ OtherTypes' /\ StagesOK'
  <2>1. ZipTypes'
    BY <1>0, <1>10, AsideTypes DEF FailSave, AnswerSave, Stages, SaverStages, InChain
  <2>2. OtherTypes'
    BY <1>0, <1>10 DEF FailSave, AnswerSave, NoJob, Formats, OtherTypes, session
  <2>3. StagesOK'
    BY <1>0, <1>10, <1>b DEF FailSave, AnswerSave, SaverStages, OtherTypes
  <2> QED BY <2>1, <2>2, <2>3
<1> QED BY <1>1, <1>2, <1>3, <1>4, <1>5, <1>6, <1>7, <1>8, <1>9, <1>10 DEF Save

(* A revision bump that drops the cached artefacts keeps them well-typed. *)
LEMMA MarkEditedTypes ==
  ASSUME OtherTypes, NEW n \in Edits, MarkEdited(n)
  PROVE  /\ author' \in BOOLEAN
         /\ rev' \in Edits /\ acked' \in Edits /\ extraction' = None
         /\ saveCache' \in [Edits -> [Formats -> Entries \cup {None}]]
BY EditNumbers DEF OtherTypes, MarkEdited, NoEntries

(* An edit keeps the types. *)
LEMMA EditKeepsTypes ==
  ASSUME TypeOK, NEW e \in Editors, Edit(e)
  PROVE  TypeOK'
<1>0. ZipTypes /\ OtherTypes /\ StagesOK /\ e \in Callers /\ dom \in Edits
  BY TypeParts DEF OtherTypes, Callers
<1> USE EditNumbers
<1> SUFFICES ZipTypes' /\ OtherTypes' /\ StagesOK'
  BY TypeParts DEF TypeOK, ZipTypes, OtherTypes, StagesOK, ArtefactReady
<1>a. pc[e] \in EditorStages
  BY <1>0 DEF StagesOK
<1>b. ASSUME NEW stage \in EditorStages, Await(e, stage), UNCHANGED job,
             \A x \in Extractors : got'[x] = got[x]
      PROVE  StagesOK'
  <2>1. \A c \in Callers \ {e} : pc'[c] = pc[c]
    BY <1>0, <1>b DEF Await, ZipTypes
  <2>2. pc'[e] = stage
    BY <1>0, <1>b DEF Await, ZipTypes
  <2>3. \A s \in Savers : s \in Callers \ {e}
    BY PipelineAssumption DEF Callers
  <2>4. \A x \in Extractors : x \in Callers \ {e}
    BY PipelineAssumption DEF Callers
  <2>5. \A s \in Savers : (pc[s] \in SaverStages /\ ArtefactReady(s))'
    BY <1>0, <1>b, <2>1, <2>3 DEF StagesOK, ArtefactReady
  <2>6. \A d \in Editors : pc'[d] \in EditorStages
    BY <1>0, <1>b, <2>1, <2>2 DEF StagesOK, Callers
  <2>7. \A x \in Extractors : (pc[x] \in ExtractorStages /\ (pc[x] = "extracting" => got[x] \in Contents))'
    BY <1>0, <1>b, <2>1, <2>4 DEF StagesOK
  <2> QED BY <2>5, <2>6, <2>7 DEF StagesOK
<1>c. \A x \in Extractors : x # e
  BY PipelineAssumption
<1>1. ASSUME BeginPreview(e) PROVE ZipTypes' /\ OtherTypes' /\ StagesOK'
  <2>1. ZipTypes'
    BY <1>0, <1>1, ToBufferTypes DEF BeginPreview, InChain
  <2>2. OtherTypes'
    BY <1>0, <1>1 DEF BeginPreview, OtherTypes, session
  <2>3. StagesOK'
    BY <1>1, <1>b DEF BeginPreview, EditorStages
  <2> QED BY <2>1, <2>2, <2>3
<1>2. ASSUME PreviewSerialized(e) PROVE ZipTypes' /\ OtherTypes' /\ StagesOK'
  <2>1. ZipTypes'
    BY <1>0, <1>2, ReturnTypes DEF PreviewSerialized, InChain, Stages, EditorStages
  <2>2. OtherTypes'
    BY <1>0, <1>2 DEF PreviewSerialized, OtherTypes, ZipTypes, session
  <2>3. StagesOK'
    BY <1>0, <1>2, <1>b, <1>c DEF PreviewSerialized, EditorStages, OtherTypes
  <2> QED BY <2>1, <2>2, <2>3
<1>3. ASSUME ApplyEdit(e) PROVE ZipTypes' /\ OtherTypes' /\ StagesOK'
  <2>0. pc[e] \notin InChain /\ dom + 1 \in Edits
    BY <1>0, <1>3 DEF ApplyEdit, ReadyToEdit, InChain
  <2>1. ZipTypes'
    BY <1>0, <1>3, <2>0, AsideTypes DEF ApplyEdit, Answer, InChain, Stages, EditorStages
  <2>2. OtherTypes'
    BY <1>0, <1>3, <2>0, MarkEditedTypes DEF ApplyEdit, Answer, OtherTypes
  <2>3. StagesOK'
    BY <1>0, <1>3, <1>b, <1>c DEF ApplyEdit, Answer, EditorStages, OtherTypes
  <2> QED BY <2>1, <2>2, <2>3
<1>4. ASSUME InsertMarkers(e) PROVE ZipTypes' /\ OtherTypes' /\ StagesOK'
  <2>0. pc[e] \notin InChain /\ dom + 1 \in Edits
    BY <1>0, <1>4 DEF InsertMarkers, ReadyToEdit, InChain
  <2>1. ZipTypes'
    BY <1>0, <1>4, <2>0, AsideTypes DEF InsertMarkers, InChain, Stages, EditorStages
  <2>2. OtherTypes'
    BY <1>0, <1>4, <2>0 DEF InsertMarkers, OtherTypes, session
  <2>3. StagesOK'
    BY <1>0, <1>4, <1>b DEF InsertMarkers, EditorStages
  <2> QED BY <2>1, <2>2, <2>3
<1>5. ASSUME CommentWritten(e) PROVE ZipTypes' /\ OtherTypes' /\ StagesOK'
  <2>0. pc[e] \notin InChain /\ own[e] \in Edits
    BY <1>0, <1>5 DEF CommentWritten, InChain, OtherTypes
  <2>1. ZipTypes'
    BY <1>0, <1>5, <2>0, AsideTypes DEF CommentWritten, Answer, InChain, Stages, EditorStages
  <2>2. OtherTypes'
    BY <1>0, <1>5, <2>0, MarkEditedTypes DEF CommentWritten, Answer, OtherTypes
  <2>3. StagesOK'
    BY <1>0, <1>5, <1>b, <1>c DEF CommentWritten, Answer, EditorStages, OtherTypes
  <2> QED BY <2>1, <2>2, <2>3
<1>6. ASSUME FailEdit(e) PROVE ZipTypes' /\ OtherTypes' /\ StagesOK'
  <2>1. ZipTypes'
    BY <1>0, <1>6, AsideTypes DEF FailEdit, Answer, InChain, Stages, EditorStages
  <2>2. OtherTypes'
    BY <1>0, <1>6 DEF FailEdit, Answer, OtherTypes, session
  <2>3. StagesOK'
    BY <1>0, <1>6, <1>b, <1>c DEF FailEdit, Answer, EditorStages, OtherTypes
  <2> QED BY <2>1, <2>2, <2>3
<1> QED BY <1>1, <1>2, <1>3, <1>4, <1>5, <1>6 DEF Edit

(* An extraction keeps the types. *)
LEMMA ExtractKeepsTypes ==
  ASSUME TypeOK, NEW x \in Extractors, Extract(x)
  PROVE  TypeOK'
<1>0. ZipTypes /\ OtherTypes /\ StagesOK /\ x \in Callers /\ dom \in Edits
  BY TypeParts DEF OtherTypes, Callers
<1> USE EditNumbers
<1> SUFFICES ZipTypes' /\ OtherTypes' /\ StagesOK'
  BY TypeParts DEF TypeOK, ZipTypes, OtherTypes, StagesOK, ArtefactReady
<1>b. ASSUME NEW stage \in ExtractorStages, Await(x, stage), UNCHANGED job,
             stage = "extracting" => got'[x] \in Contents,
             \A y \in Extractors \ {x} : got'[y] = got[y]
      PROVE  StagesOK'
  <2>1. (\A c \in Callers \ {x} : pc'[c] = pc[c]) /\ pc'[x] = stage
    BY <1>0, <1>b DEF Await, ZipTypes
  <2>2. \A c \in Savers \cup Editors : c \in Callers \ {x}
    BY PipelineAssumption DEF Callers
  <2>3. \A s \in Savers : (pc[s] \in SaverStages /\ ArtefactReady(s))'
    BY <1>0, <1>b, <2>1, <2>2 DEF StagesOK, ArtefactReady
  <2>4. \A d \in Editors : pc'[d] \in EditorStages
    BY <1>0, <1>b, <2>1, <2>2 DEF StagesOK
  <2>5. \A y \in Extractors : (pc[y] \in ExtractorStages /\ (pc[y] = "extracting" => got[y] \in Contents))'
    BY <1>0, <1>b, <2>1 DEF StagesOK, Callers
  <2> QED BY <2>3, <2>4, <2>5 DEF StagesOK
<1>1. ASSUME BeginExtract(x) PROVE ZipTypes' /\ OtherTypes' /\ StagesOK'
  <2>0. [dom |-> dom, marks |-> TRUE] \in Contents
    BY <1>0 DEF Contents
  <2>1. ZipTypes'
    BY <1>0, <1>1, AsideTypes DEF BeginExtract, InChain, Stages, ExtractorStages
  <2>2. OtherTypes'
    BY <1>0, <1>1, <2>0 DEF BeginExtract, OtherTypes
  <2>3. StagesOK'
    BY <1>0, <1>1, <1>b, <2>0 DEF BeginExtract, ExtractorStages, OtherTypes
  <2> QED BY <2>1, <2>2, <2>3
<1>2. ASSUME Extracted(x) PROVE ZipTypes' /\ OtherTypes' /\ StagesOK'
  <2>0. got[x].dom \in Edits
    BY <1>0, <1>2 DEF Extracted, StagesOK, Contents
  <2>1. ZipTypes'
    BY <1>0, <1>2, AsideTypes DEF Extracted, Answer, InChain, Stages, ExtractorStages
  <2>2. OtherTypes'
    BY <1>0, <1>2, <2>0 DEF Extracted, Answer, OtherTypes
  <2>3. StagesOK'
    BY <1>0, <1>2, <1>b DEF Extracted, Answer, ExtractorStages, OtherTypes
  <2> QED BY <2>1, <2>2, <2>3
<1> QED BY <1>1, <1>2 DEF Extract

(* Every step keeps the types. *)
LEMMA StepKeepsTypes ==
  ASSUME TypeOK, [Next]_vars
  PROVE  TypeOK'
<1>1. CASE UNCHANGED vars
  BY <1>1 DEF TypeOK, ArtefactReady, vars, session, zip
<1>2. CASE Next
  BY <1>2, SaveKeepsTypes, EditKeepsTypes, ExtractKeepsTypes DEF Next
<1> QED BY <1>1, <1>2

(* The serialization chain of a session holds exactly the calls that await *)
(* their archive, each once, and no handler uses an artefact, preview or   *)
(* clone it has not got, whatever the numbers of handlers and edits.       *)
THEOREM PipelineTypeCorrect == Spec => []TypeOK
<1>1. TypeOK /\ [Next]_vars => TypeOK'
  BY StepKeepsTypes
<1> QED BY InitTypes, <1>1, PTL DEF Spec

(***************************************************************************)
(* No answered edit is lost while one save runs at a time                  *)
(***************************************************************************)

(* At most one handler saves.  With two, the second call's document.xml    *)
(* may be replaced by the older one of the first.                          *)
OneSaver == \A s, t \in Savers : s = t

(* The zip never holds edits that were not made, and nobody but a saver    *)
(* writes document.xml back.                                               *)
Bounded ==
  /\ acked <= dom /\ part.dom <= dom /\ snap.dom <= dom
  /\ \A e \in Editors : own[e] <= dom /\ ~sent[e].cleaning

(* The artefacts of an entry hold the edits up to n, and none that was not *)
(* made; the redline is not older than the clean artefact.                 *)
Whole(entry, f, n) ==
  /\ n <= entry.clean.dom /\ entry.clean.dom <= dom
  /\ f # "clean" => entry.redline \in Contents /\ entry.clean.dom <= entry.redline.dom

(* While the saver waits on the zip, what it wrote there, or something     *)
(* newer, is there still, and is copied when its turn comes.               *)
StillThere(s) ==
  pc[s] \in InChain =>
    /\ asked[s] <= sent[s].dom /\ sent[s].dom <= dom
    /\ sent[s].dom <= part.dom
    /\ Head(chain) = s => sent[s].dom <= snap.dom

(* As long as the revision is that of the cache key, no edit was answered  *)
(* since.                                                                  *)
KeyHolds(s) ==
  /\ asked[s] <= dom
  /\ pc[s] # "idle" => job[s].key <= rev /\ (job[s].key = rev => asked[s] = acked)

(* What the saver has produced or found. *)
Produced(s) ==
  LET art == job[s].art IN
  /\ pc[s] = "validating" /\ art # None => Whole(art, job[s].format, asked[s])
  /\ pc[s] \in {"accepted", "redline"} => asked[s] <= art.clean.dom /\ art.clean.dom <= dom
  /\ pc[s] \in {"redline", "stats"} => job[s].format # "clean"
  /\ pc[s] = "redline" => art.clean.dom <= sent[s].dom
  /\ pc[s] \in {"stats", "writing"} => Whole(art, job[s].format, asked[s])

(* Nothing is cached for revisions to come, and what is cached for the     *)
(* current one is whole.                                                   *)
CacheWhole ==
  \A f \in Formats :
    /\ \A k \in Edits : k > rev => saveCache[k][f] = None
    /\ saveCache[rev][f] # None => Whole(saveCache[rev][f], f, acked)

Fresh == Bounded /\ CacheWhole /\ \A s \in Savers : StillThere(s) /\ KeyHolds(s) /\ Produced(s)

(* What is compared is a number. *)
LEMMA Numbers ==
  ASSUME TypeOK
  PROVE  /\ dom \in Nat /\ rev \in Nat /\ acked \in Nat
         /\ part.dom \in Nat /\ snap.dom \in Nat
         /\ \A c \in Callers : asked[c] \in Nat /\ sent[c].dom \in Nat
         /\ \A s \in Savers : s \in Callers /\ job[s].key \in Nat
         /\ \A e \in Editors : e \in Callers /\ own[e] \in Nat
         /\ \A content \in Contents : content.dom \in Nat
         /\ \A entry \in Entries : entry.clean.dom \in Nat
BY EditNumbers DEF TypeOK, Contents, Entries, Callers

(* Nothing has been edited, written or cached when a session is opened.   *)
LEMMA InitFresh == Init => Fresh
<1> SUFFICES ASSUME Init PROVE Fresh
  OBVIOUS
<1>1. Bounded
  BY DEF Init, Bounded, NotSent, Callers
<1>2. CacheWhole
  BY EditNumbers DEF Init, CacheWhole, NoEntries
<1>3. \A s \in Savers : StillThere(s) /\ KeyHolds(s) /\ Produced(s)
  BY DEF Init, StillThere, KeyHolds, Produced, InChain, Callers
<1> QED BY <1>1, <1>2, <1>3 DEF Fresh

(* A whole entry stays whole when further edits are made. *)
LEMMA WholeGrows ==
  ASSUME TypeOK, dom' \in Nat, dom <= dom', NEW entry \in Entries, NEW f, NEW n, Whole(entry, f, n)
  PROVE  /\ n <= entry.clean.dom /\ entry.clean.dom <= dom'
         /\ f # "clean" => entry.redline \in Contents /\ entry.clean.dom <= entry.redline.dom
BY Numbers DEF Whole

(* An edit of another handler loses nothing of what a saver relies on. *)
LEMMA OthersKeepSaver ==
  ASSUME TypeOK, TypeOK', Fresh, NEW s \in Savers,
         pc'[s] = pc[s], asked'[s] = asked[s], job'[s] = job[s], sent'[s] = sent[s],
         dom <= dom',
         \/ rev' = rev /\ acked' = acked
         \/ rev' = rev + 1,
         pc[s] \in InChain => /\ sent[s].dom <= part'.dom
                            /\ (Head(chain') = s => sent[s].dom <= snap'.dom)
  PROVE  (StillThere(s) /\ KeyHolds(s) /\ Produced(s))'
<1>0. StillThere(s) /\ KeyHolds(s) /\ Produced(s) /\ ArtefactReady(s)
  BY DEF Fresh, TypeOK
<1>a. /\ dom \in Nat /\ dom' \in Nat /\ asked[s] \in Nat /\ sent[s].dom \in Nat
      /\ rev \in Nat /\ job[s].key \in Nat /\ job[s].art \in Entries \cup {None}
  <2>1. dom \in Nat /\ asked[s] \in Nat /\ sent[s].dom \in Nat /\ rev \in Nat /\ job[s].key \in Nat
    BY Numbers
  <2>2. dom' \in Nat
    BY EditNumbers DEF TypeOK
  <2>3. job[s].art \in Entries \cup {None}
    BY DEF TypeOK
  <2> QED BY <2>1, <2>2, <2>3
<1>1. StillThere(s)'
  <2>1. CASE pc[s] \in InChain
    <3>1. /\ asked'[s] <= sent'[s].dom /\ sent'[s].dom <= dom'
      BY <1>0, <1>a, <2>1 DEF StillThere
    <3>2. sent'[s].dom <= part'.dom /\ (Head(chain') = s => sent'[s].dom <= snap'.dom)
      BY <2>1
    <3> QED BY <3>1, <3>2 DEF StillThere
  <2>2. CASE pc[s] \notin InChain
    BY <2>2 DEF StillThere
  <2> QED BY <2>1, <2>2
<1>2. KeyHolds(s)'
  BY <1>0, <1>a DEF KeyHolds
<1>3. ASSUME Whole(job[s].art, job[s].format, asked[s]), job[s].art \in Entries
      PROVE  Whole(job[s].art, job[s].format, asked[s])'
  BY <1>3, <1>a, WholeGrows DEF Whole
<1>4. job[s].art \in Entries => job[s].art.clean.dom \in Nat
  BY Numbers
<1>5. Produced(s)'
  BY <1>0, <1>a, <1>3, <1>4 DEF Produced, ArtefactReady
<1> QED BY <1>1, <1>2, <1>5

(* Somebody else queues: what the saver wrote is overwritten by something  *)
(* newer, and the head of the chain, with its copy, stays.                 *)
LEMMA QueuedBehind ==
  ASSUME TypeOK, Fresh, NEW s \in Savers, NEW c \in Callers \ {s},
         ToBuffer(c, FALSE, chain, snap), pc[s] \in InChain, pc[c] \notin InChain
  PROVE  /\ sent'[s] = sent[s]
         /\ sent[s].dom <= part'.dom
         /\ (Head(chain') = s => sent[s].dom <= snap'.dom)
<1>0. StillThere(s)
  BY DEF Fresh
<1>1. s \in Range(chain) /\ c \notin Range(chain) /\ chain \in Seq(Callers) /\ IsInjective(chain)
  BY Numbers DEF TypeOK
<1>2. chain # <<>>
  BY <1>1 DEF Range
<1>3. Head(chain') = Head(chain) /\ snap' = snap
  BY <1>1, <1>2, Joins DEF ToBuffer
<1>4. part'.dom = dom /\ sent'[s] = sent[s]
  BY Numbers DEF ToBuffer, TypeOK
<1> QED BY <1>0, <1>3, <1>4 DEF StillThere

(* Somebody else returns who wrote nothing to restore: the next in turn    *)
(* copies what is there.                                                   *)
LEMMA ServedBefore ==
  ASSUME TypeOK, Fresh, NEW s \in Savers, NEW c \in Callers \ {s}, ~sent[c].cleaning,
         Return(c), pc[s] \in InChain
  PROVE  /\ sent'[s] = sent[s]
         /\ sent[s].dom <= part'.dom
         /\ (Head(chain') = s => sent[s].dom <= snap'.dom)
<1>1. StillThere(s)
  BY DEF Fresh
<1>2. part' = part /\ snap' = part /\ sent'[s] = sent[s]
  BY Numbers DEF Return, Restored, TypeOK
<1> QED BY <1>1, <1>2 DEF StillThere

(* Edits and previews keep what savers rely on. *)
LEMMA EditKeepsFresh ==
  ASSUME TypeOK, TypeOK', Fresh, NEW e \in Editors, Edit(e)
  PROVE  Fresh'
<1> USE Numbers
<1>0. Bounded /\ CacheWhole /\ e \in Callers /\ ~sent[e].cleaning
  BY DEF Fresh, Bounded
<1>a. \A s \in Savers : s # e /\ s \in Callers
  BY PipelineAssumption
<1>b. ASSUME UNCHANGED <<rev, acked, saveCache>>, dom <= dom', dom' \in Nat
      PROVE  CacheWhole'
  <2> SUFFICES ASSUME NEW f \in Formats, saveCache[rev][f] # None
               PROVE  Whole(saveCache[rev][f], f, acked)'
    BY <1>0, <1>b DEF CacheWhole
  <2>1. saveCache[rev][f] \in Entries /\ Whole(saveCache[rev][f], f, acked)
    BY <1>0 DEF CacheWhole, TypeOK
  <2> QED BY <1>b, <2>1, WholeGrows DEF Whole
<1>c. ASSUME saveCache' = NoEntries, rev' \in Edits PROVE CacheWhole'
  BY <1>c DEF CacheWhole, NoEntries
<1>d. dom' \in Nat /\ rev' \in Edits
  BY EditNumbers DEF TypeOK
<1>e. ASSUME NEW stage \in EditorStages, Await(e, stage), UNCHANGED job,
             \A c \in Callers \ {e} : asked'[c] = asked[c]
      PROVE  \A s \in Savers : pc'[s] = pc[s] /\ asked'[s] = asked[s] /\ job'[s] = job[s]
  BY <1>e, <1>a DEF Await, TypeOK
<1>f. ASSUME UNCHANGED zip, NEW s \in Savers, pc[s] \in InChain
      PROVE  /\ sent'[s] = sent[s] /\ sent[s].dom <= part'.dom
             /\ (Head(chain') = s => sent[s].dom <= snap'.dom)
  BY <1>f DEF Fresh, StillThere, zip
<1>1. CASE BeginPreview(e)
  <2>1. UNCHANGED <<dom, rev, acked, saveCache, own, job>> /\ Await(e, "preview") /\ pc[e] \notin InChain
    BY <1>1 DEF BeginPreview, session, InChain
  <2>2. Bounded'
    BY <1>0, <1>1, <2>1 DEF BeginPreview, ToBuffer, Bounded, TypeOK
  <2>3. \A s \in Savers : pc'[s] = pc[s] /\ asked'[s] = asked[s] /\ job'[s] = job[s]
    BY <1>1, <1>e, <2>1 DEF BeginPreview, EditorStages, TypeOK
  <2>4. \A s \in Savers : sent'[s] = sent[s]
    BY <1>1, <1>a DEF BeginPreview, ToBuffer, TypeOK
  <2>5. \A s \in Savers : (StillThere(s) /\ KeyHolds(s) /\ Produced(s))'
    <3> SUFFICES ASSUME NEW s \in Savers PROVE (StillThere(s) /\ KeyHolds(s) /\ Produced(s))'
      OBVIOUS
    <3>1. pc[s] \in InChain => /\ sent[s].dom <= part'.dom
                              /\ (Head(chain') = s => sent[s].dom <= snap'.dom)
      BY <1>1, <1>0, <1>a, <2>1, QueuedBehind DEF BeginPreview
    <3> QED BY <2>1, <2>3, <2>4, <3>1, OthersKeepSaver
  <2> QED BY <1>b, <2>1, <2>2, <2>5 DEF Fresh
<1>2. CASE PreviewSerialized(e)
  <2>1. UNCHANGED <<dom, rev, acked, saveCache, own, job, asked>> /\ Await(e, "previewed") /\ Return(e)
    BY <1>2 DEF PreviewSerialized, session
  <2>2. Bounded'
    BY <1>0, <2>1 DEF Return, Restored, Bounded, NotSent, TypeOK
  <2>3. \A s \in Savers : pc'[s] = pc[s] /\ asked'[s] = asked[s] /\ job'[s] = job[s]
    BY <1>e, <2>1 DEF EditorStages
  <2>4. \A s \in Savers : sent'[s] = sent[s]
    BY <2>1, <1>a DEF Return, TypeOK
  <2>5. \A s \in Savers : (StillThere(s) /\ KeyHolds(s) /\ Produced(s))'
    BY <1>0, <1>a, <2>1, <2>3, <2>4, ServedBefore, OthersKeepSaver
  <2> QED BY <1>b, <2>1, <2>2, <2>5 DEF Fresh
<1>3. CASE ApplyEdit(e)
  <2>1. /\ dom' = dom + 1 /\ rev' = rev + 1 /\ saveCache' = NoEntries /\ Await(e, "idle")
        /\ acked' \in {acked, dom + 1} /\ UNCHANGED <<zip, own, job>>
    BY <1>3 DEF ApplyEdit, MarkEdited, Answer
  <2>2. Bounded'
    BY <1>0, <2>1 DEF Bounded, zip
  <2>3. \A s \in Savers : pc'[s] = pc[s] /\ asked'[s] = asked[s] /\ job'[s] = job[s] /\ sent'[s] = sent[s]
    BY <1>3, <1>e, <2>1 DEF ApplyEdit, Answer, EditorStages, TypeOK, zip
  <2>5. \A s \in Savers : (StillThere(s) /\ KeyHolds(s) /\ Produced(s))'
    BY <1>f, <2>1, <2>3, OthersKeepSaver
  <2> QED BY <1>c, <1>d, <2>1, <2>2, <2>5 DEF Fresh
<1>4. CASE InsertMarkers(e)
  <2>1. /\ dom' = dom + 1 /\ UNCHANGED <<rev, acked, saveCache>> /\ Await(e, "annotating")
        /\ own' = [own EXCEPT ![e] = dom + 1] /\ UNCHANGED <<zip, job, asked>>
    BY <1>4 DEF InsertMarkers, session
  <2>2. Bounded'
    BY <1>0, <2>1 DEF Bounded, zip, TypeOK
  <2>3. \A s \in Savers : pc'[s] = pc[s] /\ asked'[s] = asked[s] /\ job'[s] = job[s] /\ sent'[s] = sent[s]
    BY <1>e, <2>1 DEF EditorStages, zip
  <2>5. \A s \in Savers : (StillThere(s) /\ KeyHolds(s) /\ Produced(s))'
    BY <1>f, <2>1, <2>3, OthersKeepSaver
  <2> QED BY <1>b, <1>d, <2>1, <2>2, <2>5 DEF Fresh
<1>5. CASE CommentWritten(e)
  <2>1. /\ UNCHANGED dom /\ rev' = rev + 1 /\ saveCache' = NoEntries /\ Await(e, "idle")
        /\ acked' \in {acked, own[e]} /\ own' = [own EXCEPT ![e] = 0] /\ UNCHANGED <<zip, job>>
    BY <1>5 DEF CommentWritten, MarkEdited, Answer
  <2>2. Bounded'
    BY <1>0, <2>1 DEF Bounded, zip, TypeOK
  <2>3. \A s \in Savers : pc'[s] = pc[s] /\ asked'[s] = asked[s] /\ job'[s] = job[s] /\ sent'[s] = sent[s]
    BY <1>5, <1>e, <2>1 DEF CommentWritten, Answer, EditorStages, TypeOK, zip
  <2>5. \A s \in Savers : (StillThere(s) /\ KeyHolds(s) /\ Produced(s))'
    BY <1>f, <2>1, <2>3, OthersKeepSaver
  <2> QED BY <1>c, <1>d, <2>1, <2>2, <2>5 DEF Fresh
<1>6. CASE FailEdit(e)
  <2>1. /\ UNCHANGED <<dom, rev, acked, saveCache, zip, job>> /\ Await(e, "idle")
        /\ own' = [own EXCEPT ![e] = 0]
    BY <1>6 DEF FailEdit, Answer, session
  <2>2. Bounded'
    BY <1>0, <2>1 DEF Bounded, zip, TypeOK
  <2>3. \A s \in Savers : pc'[s] = pc[s] /\ asked'[s] = asked[s] /\ job'[s] = job[s] /\ sent'[s] = sent[s]
    BY <1>6, <1>e, <2>1 DEF FailEdit, Answer, EditorStages, TypeOK, zip
  <2>5. \A s \in Savers : (StillThere(s) /\ KeyHolds(s) /\ Produced(s))'
    BY <1>f, <2>1, <2>3, OthersKeepSaver
  <2> QED BY <1>b, <2>1, <2>2, <2>5 DEF Fresh
<1> QED BY <1>1, <1>2, <1>3, <1>4, <1>5, <1>6 DEF Edit

(* Extractions touch neither the zip nor the save cache. *)
LEMMA ExtractKeepsFresh ==
  ASSUME TypeOK, TypeOK', Fresh, NEW x \in Extractors, Extract(x)
  PROVE  Fresh'
<1> USE Numbers
<1>1. /\ UNCHANGED <<dom, rev, acked, saveCache, zip, job, own>>
      /\ \A c \in Callers \ {x} : pc'[c] = pc[c] /\ asked'[c] = asked[c]
  BY DEF Extract, BeginExtract, Extracted, Answer, Await, TypeOK
<1>2. Bounded' /\ CacheWhole'
  BY <1>1 DEF Fresh, Bounded, CacheWhole, Whole, zip
<1>3. \A s \in Savers : pc'[s] = pc[s] /\ asked'[s] = asked[s] /\ job'[s] = job[s] /\ sent'[s] = sent[s]
  BY <1>1, PipelineAssumption DEF Callers, zip
<1>4. \A s \in Savers : pc[s] \in InChain =>
        sent[s].dom <= part'.dom /\ (Head(chain') = s => sent[s].dom <= snap'.dom)
  BY <1>1 DEF Fresh, StillThere, zip
<1>5. \A s \in Savers : (StillThere(s) /\ KeyHolds(s) /\ Produced(s))'
  BY <1>1, <1>3, <1>4, OthersKeepSaver
<1> QED BY <1>2, <1>5 DEF Fresh

(***************************************************************************)
(* The saver's own steps.                                                  *)
(***************************************************************************)

(* What the saver queues it finds there: nobody has overwritten it yet,    *)
(* and if nobody is before it, it has been copied.                         *)
LEMMA OwnWrite ==
  ASSUME TypeOK, NEW s \in Savers, NEW cleaning \in BOOLEAN, NEW queue \in Seq(Callers), NEW head,
         ToBuffer(s, cleaning, queue, head), s \notin Range(queue), asked'[s] <= dom, UNCHANGED dom
  PROVE  StillThere(s)'
<1> USE Numbers
<1>1. sent'[s].dom = dom /\ part'.dom = dom
  BY DEF ToBuffer, TypeOK
<1>2. Head(chain') = s => snap'.dom = dom
  <2>1. CASE queue = <<>>
    BY <2>1 DEF ToBuffer
  <2>2. CASE queue # <<>>
    <3>1. Head(chain') = Head(queue)
      BY <2>2 DEF ToBuffer
    <3>2. Head(queue) \in Range(queue)
      BY <2>2 DEF Range
    <3> QED BY <3>1, <3>2
  <2> QED BY <2>1, <2>2
<1> QED BY <1>1, <1>2 DEF StillThere

(* The buffer the saver gets holds what it asked for. *)
LEMMA Served ==
  ASSUME TypeOK, Fresh, NEW s \in Savers, pc[s] \in InChain, Returns(s)
  PROVE  /\ asked[s] <= sent[s].dom /\ sent[s].dom <= snap.dom /\ snap.dom <= dom
         /\ Restored(s).dom <= dom
         /\ s \notin Range(Tail(chain)) /\ Tail(chain) \in Seq(Callers)
<1>1. StillThere(s) /\ Bounded
  BY DEF Fresh
<1>2. s \notin Range(Tail(chain)) /\ Tail(chain) \in Seq(Callers)
  BY Leaves DEF TypeOK, Returns
<1>3. Restored(s).dom <= dom
  BY <1>1 DEF Restored, StillThere, Bounded
<1> QED BY <1>1, <1>2, <1>3 DEF StillThere, Bounded, Returns

(* The zip and the numbers stay in bounds when a saver queues or returns. *)
LEMMA SaverKeepsBounds ==
  ASSUME TypeOK, Bounded, NEW s \in Savers, UNCHANGED <<dom, acked, own>>,
         \/ UNCHANGED zip
         \/ Return(s) /\ Restored(s).dom <= dom
         \/ \E cleaning \in BOOLEAN : ToBuffer(s, cleaning, chain, snap)
         \/ \E cleaning \in BOOLEAN :
              ToBuffer(s, cleaning, Tail(chain), Restored(s)) /\ Restored(s).dom <= dom
  PROVE  Bounded'
<1> USE Numbers
<1>1. s \in Callers /\ \A e \in Editors : e # s /\ e \in Callers
  BY PipelineAssumption
<1>2. CASE UNCHANGED zip
  BY <1>2 DEF Bounded, zip
<1>3. CASE Return(s) /\ Restored(s).dom <= dom
  BY <1>1, <1>3 DEF Return, Bounded, TypeOK
<1>4. ASSUME NEW cleaning \in BOOLEAN, NEW queue, NEW head, head.dom <= dom,
             ToBuffer(s, cleaning, queue, head)
      PROVE  Bounded'
  <2>1. dom <= dom
    BY DEF TypeOK
  <2>2. part'.dom = dom /\ (snap'.dom = dom \/ snap' = head)
    BY <1>4 DEF ToBuffer
  <2>3. \A e \in Editors : sent'[e] = sent[e]
    BY <1>1, <1>4 DEF ToBuffer, TypeOK
  <2> QED BY <1>4, <2>1, <2>2, <2>3 DEF Bounded
<1>5. snap.dom <= dom
  BY DEF Bounded
<1> QED BY <1>2, <1>3, <1>4, <1>5

(* A whole artefact stored while its key holds keeps the cache whole. *)
LEMMA StoreKeepsCache ==
  ASSUME TypeOK, CacheWhole, NEW s \in Savers, KeyHolds(s), pc[s] # "idle",
         NEW art \in Entries, Store(s, art), Whole(art, job[s].format, asked[s]), UNCHANGED dom
  PROVE  CacheWhole'
<1> USE Numbers
<1>1. /\ rev \in Edits /\ job[s].key \in Edits /\ job[s].format \in Formats
      /\ saveCache \in [Edits -> [Formats -> Entries \cup {None}]]
  BY DEF TypeOK
<1>2. rev' = rev /\ acked' = acked
  BY DEF Store
<1>3. \A k \in Edits, f \in Formats :
        saveCache'[k][f] = IF k = job[s].key /\ f = job[s].format THEN art ELSE saveCache[k][f]
  BY <1>1 DEF Store
<1>4. job[s].key <= rev /\ (job[s].key = rev => asked[s] = acked)
  BY DEF KeyHolds
<1>5. ASSUME NEW f \in Formats, NEW k \in Edits, k > rev PROVE saveCache'[k][f] = None
  BY <1>1, <1>3, <1>4, <1>5 DEF CacheWhole
<1>6. ASSUME NEW f \in Formats, saveCache'[rev][f] # None PROVE Whole(saveCache[rev][f], f, acked)'
  <2>1. CASE rev = job[s].key /\ f = job[s].format
    BY <1>1, <1>2, <1>3, <1>4, <2>1 DEF Whole
  <2>2. CASE ~(rev = job[s].key /\ f = job[s].format)
    BY <1>1, <1>2, <1>3, <1>6, <2>2 DEF CacheWhole, Whole
  <2> QED BY <2>1, <2>2
<1> QED BY <1>2, <1>5, <1>6 DEF CacheWhole

(* A save keeps what it relies on, being the only one. *)
LEMMA SaveKeepsFresh ==
  ASSUME OneSaver, TypeOK, TypeOK', Fresh, NEW s \in Savers, Save(s)
  PROVE  Fresh'
<1> USE Numbers
<1>0. /\ Bounded /\ CacheWhole /\ StillThere(s) /\ KeyHolds(s) /\ Produced(s)
      /\ ArtefactReady(s) /\ s \in Callers
  BY DEF Fresh, TypeOK
<1>a. \A t \in Savers : t = s
  BY DEF OneSaver
<1>b. job[s].art \in Entries \cup {None} /\ s \in DOMAIN job /\ s \in DOMAIN pc /\ s \in DOMAIN asked
  BY <1>0 DEF TypeOK
<1> SUFFICES Bounded' /\ CacheWhole' /\ (StillThere(s) /\ KeyHolds(s) /\ Produced(s))'
  BY <1>a DEF Fresh
<1>c. UNCHANGED <<dom, rev, acked, saveCache>> => CacheWhole'
  BY <1>0 DEF CacheWhole, Whole
<1>d. ASSUME NEW stage, Await(s, stage) PROVE pc'[s] = stage
  BY <1>b, <1>d DEF Await
<1>e. ASSUME AnswerSave(s), UNCHANGED dom PROVE (StillThere(s) /\ KeyHolds(s) /\ Produced(s))'
  <2>1. pc'[s] = "idle" /\ asked'[s] = 0
    BY <1>b, <1>e DEF AnswerSave, Await
  <2> QED BY <1>e, <2>1 DEF StillThere, KeyHolds, Produced, InChain
<1>1. ASSUME NEW f \in Formats, BeginSave(s, f)
      PROVE  Bounded' /\ CacheWhole' /\ (StillThere(s) /\ KeyHolds(s) /\ Produced(s))'
  <2>1. UNCHANGED <<dom, rev, acked, saveCache, own>> /\ pc[s] = "idle"
    BY <1>1 DEF BeginSave, session
  <2>2. asked'[s] = acked /\ job'[s] = [format |-> f, key |-> rev, art |-> saveCache[rev][f]]
    BY <1>1, <1>b DEF BeginSave
  <2>3. pc'[s] \in {"validating", "writing", "clean"}
    BY <1>1, <1>d DEF BeginSave
  <2>4. KeyHolds(s)'
    BY <1>0, <2>1, <2>2 DEF KeyHolds, Bounded
  <2>5. Bounded'
    BY <1>0, <1>1, <2>1, SaverKeepsBounds DEF BeginSave
  <2>6. StillThere(s)'
    <3>1. CASE pc'[s] = "clean"
      <4>1. ToBuffer(s, TRUE, chain, snap)
        BY <1>1, <1>d, <3>1 DEF BeginSave
      <4>2. chain \in Seq(Callers) /\ s \notin Range(chain)
        BY <2>1 DEF TypeOK, InChain
      <4> QED BY <1>0, <2>1, <2>2, <4>1, <4>2, OwnWrite DEF Bounded
    <3>2. CASE pc'[s] # "clean"
      BY <2>3, <3>2 DEF StillThere, InChain
    <3> QED BY <3>1, <3>2
  <2>7. Produced(s)'
    <3>1. pc'[s] = "writing" => saveCache[rev][f] # None
      BY <1>1, <1>d DEF BeginSave
    <3>2. saveCache[rev][f] # None => Whole(saveCache[rev][f], f, acked)
      BY <1>0 DEF CacheWhole
    <3> QED BY <2>1, <2>2, <2>3, <3>1, <3>2 DEF Produced, Whole
  <2> QED BY <1>c, <2>1, <2>4, <2>5, <2>6, <2>7
<1>2. ASSUME Validated(s)
      PROVE  Bounded' /\ CacheWhole' /\ (StillThere(s) /\ KeyHolds(s) /\ Produced(s))'
  <2>1. UNCHANGED <<dom, rev, acked, saveCache, own, asked, job>> /\ pc[s] = "validating"
    BY <1>2 DEF Validated, session
  <2>3. pc'[s] \in {"writing", "accepting"}
    BY <1>2, <1>d DEF Validated
  <2>4. KeyHolds(s)'
    BY <1>0, <2>1 DEF KeyHolds
  <2>5. Bounded'
    BY <1>0, <1>2, <2>1, SaverKeepsBounds DEF Validated
  <2>6. StillThere(s)'
    <3>1. CASE pc'[s] = "accepting"
      <4>1. ToBuffer(s, FALSE, chain, snap)
        BY <1>2, <1>d, <3>1 DEF Validated
      <4>2. chain \in Seq(Callers) /\ s \notin Range(chain)
        BY <2>1 DEF TypeOK, InChain
      <4> QED BY <1>0, <2>1, <4>1, <4>2, OwnWrite DEF KeyHolds
    <3>2. CASE pc'[s] # "accepting"
      BY <2>3, <3>2 DEF StillThere, InChain
    <3> QED BY <3>1, <3>2
  <2>7. Produced(s)'
    <3>1. pc'[s] = "writing" => job[s].art # None
      BY <1>2, <1>d DEF Validated
    <3> QED BY <1>0, <2>1, <2>3, <3>1 DEF Produced, Whole
  <2> QED BY <1>c, <2>1, <2>4, <2>5, <2>6, <2>7
<1>3. ASSUME AcceptSerialized(s)
      PROVE  Bounded' /\ CacheWhole' /\ (StillThere(s) /\ KeyHolds(s) /\ Produced(s))'
  <2>1. /\ UNCHANGED <<dom, rev, acked, saveCache, own, asked>> /\ pc[s] = "accepting"
        /\ Returns(s) /\ Return(s) /\ pc'[s] = "accepted"
    BY <1>3, <1>d DEF AcceptSerialized, session
  <2> DEFINE art == [clean |-> [dom |-> snap.dom, marks |-> FALSE], redline |-> None]
  <2>a. job' = [job EXCEPT ![s] = [job[s] EXCEPT !.art = art]]
    BY <1>3 DEF AcceptSerialized
  <2>b. job[s] \in [format : Formats, key : Edits, art : Entries \cup {None}]
    BY <1>b DEF TypeOK
  <2>c. job'[s] = [job[s] EXCEPT !.art = art]
    BY <1>b, <2>a DEF TypeOK
  <2>d. art.clean.dom = snap.dom
    OBVIOUS
  <2> HIDE DEF art
  <2>e. job'[s].art = art /\ job'[s].key = job[s].key /\ job'[s].format = job[s].format
    BY <2>b, <2>c
  <2>2. /\ job'[s].art.clean.dom = snap.dom
        /\ job'[s].key = job[s].key /\ job'[s].format = job[s].format
    BY <2>d, <2>e
  <2>3. asked[s] <= sent[s].dom /\ sent[s].dom <= snap.dom /\ snap.dom <= dom /\ Restored(s).dom <= dom
    BY <2>1, Served DEF InChain
  <2>5. Bounded'
    BY <1>0, <2>1, <2>3, SaverKeepsBounds
  <2>6. StillThere(s)' /\ KeyHolds(s)'
    BY <1>0, <2>1, <2>2 DEF StillThere, KeyHolds, InChain
  <2>7. Produced(s)'
    BY <2>1, <2>2, <2>3 DEF Produced
  <2> QED BY <1>c, <2>1, <2>5, <2>6, <2>7
<1>4. ASSUME Accepted(s)
      PROVE  Bounded' /\ CacheWhole' /\ (StillThere(s) /\ KeyHolds(s) /\ Produced(s))'
  <2>1. UNCHANGED <<dom, rev, acked, own, asked, job>> /\ pc[s] = "accepted"
    BY <1>4 DEF Accepted, Store, session
  <2>2. asked[s] <= job[s].art.clean.dom /\ job[s].art.clean.dom <= dom /\ job[s].art \in Entries
    BY <1>0, <2>1 DEF Produced, ArtefactReady
  <2>4. KeyHolds(s)'
    BY <1>0, <2>1 DEF KeyHolds
  <2>5. Bounded'
    BY <1>0, <1>4, <2>1, SaverKeepsBounds DEF Accepted
  <2>8. CASE job[s].format = "clean"
    <3>1. Store(s, job[s].art) /\ pc'[s] = "writing"
      BY <1>4, <1>d, <2>8 DEF Accepted
    <3>2. Whole(job[s].art, job[s].format, asked[s])
      BY <2>2, <2>8 DEF Whole
    <3>3. CacheWhole'
      BY <1>0, <2>1, <2>2, <3>1, <3>2, StoreKeepsCache
    <3>4. StillThere(s)' /\ Produced(s)'
      BY <2>1, <3>1, <3>2 DEF StillThere, Produced, InChain, Whole
    <3> QED BY <2>4, <2>5, <3>3, <3>4
  <2>9. CASE job[s].format # "clean"
    <3>1. ToBuffer(s, TRUE, chain, snap) /\ UNCHANGED saveCache /\ pc'[s] = "redline"
      BY <1>4, <1>d, <2>9 DEF Accepted, session
    <3>2. chain \in Seq(Callers) /\ s \notin Range(chain)
      BY <2>1 DEF TypeOK, InChain
    <3>3. StillThere(s)'
      BY <1>0, <2>1, <3>1, <3>2, OwnWrite DEF KeyHolds
    <3>4. sent'[s].dom = dom
      BY <1>0, <3>1 DEF ToBuffer, TypeOK
    <3>5. Produced(s)'
      BY <2>1, <2>2, <2>9, <3>1, <3>4 DEF Produced
    <3> QED BY <1>c, <2>1, <2>4, <2>5, <3>1, <3>3, <3>5
  <2> QED BY <2>8, <2>9
<1>5. ASSUME CleanSerialized(s)
      PROVE  Bounded' /\ CacheWhole' /\ (StillThere(s) /\ KeyHolds(s) /\ Produced(s))'
  <2> DEFINE art == [clean |-> snap, redline |-> None]
  <2>1. /\ UNCHANGED <<dom, rev, acked, own, asked>> /\ pc[s] = "clean" /\ Returns(s)
        /\ job' = [job EXCEPT ![s] = [job[s] EXCEPT !.art = art]]
    BY <1>5 DEF CleanSerialized, Store, session
  <2>a. job[s] \in [format : Formats, key : Edits, art : Entries \cup {None}]
    BY <1>b DEF TypeOK
  <2> HIDE DEF art
  <2>b. job'[s] = [job[s] EXCEPT !.art = art]
    BY <1>b, <2>1 DEF TypeOK
  <2>2. /\ job'[s].art = art /\ job'[s].key = job[s].key /\ job'[s].format = job[s].format
    BY <2>a, <2>b
  <2> USE DEF art
  <2>3. /\ asked[s] <= sent[s].dom /\ sent[s].dom <= snap.dom /\ snap.dom <= dom /\ Restored(s).dom <= dom
        /\ s \notin Range(Tail(chain)) /\ Tail(chain) \in Seq(Callers)
    BY <2>1, Served DEF InChain
  <2>4. KeyHolds(s)'
    BY <1>0, <2>1, <2>2 DEF KeyHolds
  <2>5. Bounded'
    BY <1>0, <1>5, <2>1, <2>3, SaverKeepsBounds DEF CleanSerialized
  <2>6. art \in Entries /\ asked[s] <= art.clean.dom /\ art.clean.dom <= dom
    BY <2>3 DEF Entries, TypeOK
  <2>8. CASE job[s].format = "clean"
    <3>1. Store(s, art) /\ pc'[s] = "writing"
      BY <1>5, <1>d, <2>8 DEF CleanSerialized
    <3>2. Whole(art, job[s].format, asked[s])
      BY <2>6, <2>8 DEF Whole
    <3> HIDE DEF art
    <3>3. CacheWhole'
      BY <1>0, <2>1, <2>6, <3>1, <3>2, StoreKeepsCache
    <3>4. StillThere(s)' /\ Produced(s)'
      BY <2>1, <2>2, <3>1, <3>2 DEF StillThere, Produced, InChain, Whole
    <3> QED BY <2>4, <2>5, <3>3, <3>4
  <2>9. CASE job[s].format # "clean"
    <3>1. ToBuffer(s, TRUE, Tail(chain), Restored(s)) /\ UNCHANGED saveCache /\ pc'[s] = "redline"
      BY <1>5, <1>d, <2>9 DEF CleanSerialized, session
    <3>3. StillThere(s)'
      BY <1>0, <2>1, <2>3, <3>1, OwnWrite DEF KeyHolds
    <3>4. sent'[s].dom = dom
      BY <1>0, <3>1 DEF ToBuffer, TypeOK
    <3> HIDE DEF art
    <3>5. Produced(s)'
      BY <2>1, <2>2, <2>6, <2>9, <3>1, <3>4 DEF Produced
    <3> QED BY <1>c, <2>1, <2>4, <2>5, <3>1, <3>3, <3>5
  <2> QED BY <2>8, <2>9
<1>6. ASSUME RedlineSerialized(s)
      PROVE  Bounded' /\ CacheWhole' /\ (StillThere(s) /\ KeyHolds(s) /\ Produced(s))'
  <2>1. /\ UNCHANGED <<dom, rev, acked, saveCache, own, asked>> /\ pc[s] = "redline"
        /\ Returns(s) /\ Return(s) /\ pc'[s] = "stats" /\ job[s].art \in Entries
    BY <1>0, <1>6, <1>d DEF RedlineSerialized, session, ArtefactReady
  <2>2. job' = [job EXCEPT ![s] = [job[s] EXCEPT !.art = [job[s].art EXCEPT !.redline = snap]]]
    BY <1>6 DEF RedlineSerialized
  <2>3. job'[s].art = [job[s].art EXCEPT !.redline = snap] /\ job'[s].key = job[s].key /\ job'[s].format = job[s].format
    BY <1>b, <2>2 DEF TypeOK
  <2>4. job'[s].art.redline = snap /\ job'[s].art.clean = job[s].art.clean
    BY <2>1, <2>3 DEF Entries
  <2>5. asked[s] <= sent[s].dom /\ sent[s].dom <= snap.dom /\ snap.dom <= dom /\ Restored(s).dom <= dom
    BY <2>1, Served DEF InChain
  <2>6. Bounded'
    BY <1>0, <2>1, <2>5, SaverKeepsBounds
  <2>7. StillThere(s)' /\ KeyHolds(s)'
    BY <1>0, <2>1, <2>3 DEF StillThere, KeyHolds, InChain
  <2>8. /\ asked[s] <= job[s].art.clean.dom /\ job[s].art.clean.dom <= sent[s].dom
        /\ job[s].art.clean.dom <= dom /\ job[s].format # "clean" /\ snap \in Contents
    BY <1>0, <2>1 DEF Produced, TypeOK
  <2>9. Whole(job[s].art, job[s].format, asked[s])'
    BY <2>1, <2>3, <2>4, <2>5, <2>8 DEF Whole
  <2>10. Produced(s)'
    BY <2>1, <2>3, <2>8, <2>9 DEF Produced
  <2> QED BY <1>c, <2>1, <2>6, <2>7, <2>10
<1>7. ASSUME StatsCollected(s)
      PROVE  Bounded' /\ CacheWhole' /\ (StillThere(s) /\ KeyHolds(s) /\ Produced(s))'
  <2>1. /\ UNCHANGED <<dom, rev, acked, own, asked, job, zip>> /\ pc[s] = "stats"
        /\ Store(s, job[s].art) /\ pc'[s] = "writing"
    BY <1>7, <1>d DEF StatsCollected, Store
  <2>2. Whole(job[s].art, job[s].format, asked[s]) /\ job[s].art \in Entries
    BY <1>0, <2>1 DEF Produced, ArtefactReady
  <2>3. CacheWhole'
    BY <1>0, <2>1, <2>2, StoreKeepsCache
  <2>4. Bounded' /\ KeyHolds(s)'
    BY <1>0, <2>1 DEF Bounded, KeyHolds, zip
  <2>5. StillThere(s)' /\ Produced(s)'
    BY <2>1, <2>2 DEF StillThere, Produced, InChain, Whole
  <2> QED BY <2>3, <2>4, <2>5
<1>8. ASSUME Written(s)
      PROVE  Bounded' /\ CacheWhole' /\ (StillThere(s) /\ KeyHolds(s) /\ Produced(s))'
  <2>1. UNCHANGED <<dom, rev, acked, saveCache, own>> /\ pc[s] = "writing"
    BY <1>8 DEF Written, session
  <2>2. CASE job[s].format = "clean"
    <3>1. ToBuffer(s, FALSE, chain, snap) /\ UNCHANGED <<asked, job>> /\ pc'[s] = "summary"
      BY <1>8, <1>d, <2>2 DEF Written, AnswerSave
    <3>2. chain \in Seq(Callers) /\ s \notin Range(chain)
      BY <2>1 DEF TypeOK, InChain
    <3>3. StillThere(s)'
      BY <1>0, <2>1, <3>1, <3>2, OwnWrite DEF KeyHolds
    <3>4. Bounded'
      BY <1>0, <2>1, <3>1, SaverKeepsBounds
    <3>5. KeyHolds(s)' /\ Produced(s)'
      BY <1>0, <2>1, <3>1 DEF KeyHolds, Produced
    <3> QED BY <1>c, <2>1, <3>3, <3>4, <3>5
  <2>3. CASE job[s].format # "clean"
    <3>1. AnswerSave(s) /\ UNCHANGED zip
      BY <1>8, <2>3 DEF Written
    <3>2. Bounded'
      BY <1>0, <2>1, <3>1, SaverKeepsBounds
    <3> QED BY <1>c, <1>e, <2>1, <3>1, <3>2
  <2> QED BY <2>2, <2>3
<1>9. ASSUME Summarized(s)
      PROVE  Bounded' /\ CacheWhole' /\ (StillThere(s) /\ KeyHolds(s) /\ Produced(s))'
  <2>1. /\ UNCHANGED <<dom, rev, acked, saveCache, own>> /\ pc[s] = "summary"
        /\ Returns(s) /\ Return(s) /\ AnswerSave(s)
    BY <1>9 DEF Summarized, session
  <2>2. Restored(s).dom <= dom
    BY <2>1, Served DEF InChain
  <2>3. Bounded'
    BY <1>0, <2>1, <2>2, SaverKeepsBounds
  <2> QED BY <1>c, <1>e, <2>1, <2>3
<1>10. ASSUME FailSave(s)
       PROVE  Bounded' /\ CacheWhole' /\ (StillThere(s) /\ KeyHolds(s) /\ Produced(s))'
  <2>1. UNCHANGED <<dom, rev, acked, saveCache, own, zip>> /\ AnswerSave(s)
    BY <1>10 DEF FailSave, session
  <2>2. Bounded'
    BY <1>0, <2>1, SaverKeepsBounds
  <2> QED BY <1>c, <1>e, <2>1, <2>2
<1> QED BY <1>1, <1>2, <1>3, <1>4, <1>5, <1>6, <1>7, <1>8, <1>9, <1>10 DEF Save

(* The invariant is inductive while one save runs at a time. *)
LEMMA StepKeepsFresh ==
  ASSUME OneSaver, TypeOK, TypeOK', Fresh, [Next]_vars
  PROVE  Fresh'
<1>1. CASE UNCHANGED vars
  BY <1>1 DEF Fresh, Bounded, CacheWhole, Whole, StillThere, KeyHolds, Produced, vars, session, zip
<1>2. CASE Next
  BY <1>2, SaveKeepsFresh, EditKeepsFresh, ExtractKeepsFresh DEF Next
<1> QED BY <1>1, <1>2

(* While one save runs at a time, whatever it has written to the shared zip  *)
(* is still there or already copied for it when it is served, and every cached *)
(* or unsaved artefact holds the edits that were answered before the save.     *)
THEOREM FreshHolds == OneSaver => (Spec => []Fresh)
<1> SUFFICES ASSUME OneSaver PROVE Spec => []Fresh
  OBVIOUS
<1>1. TypeOK /\ TypeOK' /\ Fresh /\ [Next]_vars => Fresh'
  BY StepKeepsFresh
<1> QED BY InitFresh, PipelineTypeCorrect, <1>1, PTL DEF Spec

(* No answered edit is missing from what a save writes: for any number of  *)
(* editing, annotating and extracting handlers, with and without an author.*)
THEOREM SavesAreFreshHolds == OneSaver => (Spec => []SavesAreFresh)
<1> SUFFICES ASSUME OneSaver PROVE Spec => []SavesAreFresh
  OBVIOUS
<1>1. TypeOK /\ Fresh => SavesAreFresh
  <2> SUFFICES ASSUME TypeOK, Fresh, NEW s \in Savers, NEW a \in Artefacts(s)
               PROVE  a.dom >= asked[s]
    BY DEF SavesAreFresh
  <2>1. pc[s] = "writing" /\ Whole(job[s].art, job[s].format, asked[s]) /\ job[s].art \in Entries
    BY DEF Fresh, Produced, Artefacts, TypeOK, ArtefactReady
  <2>2. CASE a = job[s].art.clean
    BY <2>1, <2>2, Numbers DEF Whole
  <2>3. CASE a = job[s].art.redline /\ job[s].format # "clean"
    BY <2>1, <2>3, Numbers DEF Whole
  <2> QED BY <2>1, <2>2, <2>3 DEF Artefacts
<1> QED BY PipelineTypeCorrect, FreshHolds, <1>1, PTL

(* What is cached under the current revision holds every answered edit.    *)
THEOREM CacheIsCurrentHolds == OneSaver => (Spec => []CacheIsCurrent)
<1> SUFFICES ASSUME OneSaver PROVE Spec => []CacheIsCurrent
  OBVIOUS
<1>1. TypeOK /\ Fresh => CacheIsCurrent
  <2> SUFFICES ASSUME TypeOK, Fresh, NEW f \in Formats, saveCache[rev][f] # None
               PROVE  /\ saveCache[rev][f].clean.dom >= acked
                      /\ f # "clean" => saveCache[rev][f].redline.dom >= acked
    BY DEF CacheIsCurrent
  <2>1. Whole(saveCache[rev][f], f, acked) /\ saveCache[rev][f] \in Entries
    BY DEF Fresh, CacheWhole, TypeOK
  <2> QED BY <2>1, Numbers DEF Whole
<1> QED BY PipelineTypeCorrect, FreshHolds, <1>1, PTL

(* A redline is never older than the clean artefact of its save. *)
THEOREM RedlineNotOlderHolds == OneSaver => (Spec => []RedlineNotOlder)
<1> SUFFICES ASSUME OneSaver PROVE Spec => []RedlineNotOlder
  OBVIOUS
<1>1. TypeOK /\ Fresh => RedlineNotOlder
  <2> SUFFICES ASSUME TypeOK, Fresh, NEW s \in Savers, pc[s] = "writing", job[s].format # "clean"
               PROVE  job[s].art.redline.dom >= job[s].art.clean.dom
    BY DEF RedlineNotOlder
  <2>1. Whole(job[s].art, job[s].format, asked[s]) /\ job[s].art \in Entries
    BY DEF Fresh, Produced, TypeOK, ArtefactReady
  <2> QED BY <2>1, Numbers DEF Whole
<1> QED BY PipelineTypeCorrect, FreshHolds, <1>1, PTL

(***************************************************************************)
(* The internal bookmarks                                                  *)
(***************************************************************************)

(* Only a save writes a cleaned document.xml. *)
SaversClean == \A c \in Callers \ Savers : ~sent[c].cleaning

(* What a step does to the shared zip: nothing, a call joins the line, its *)
(* head returns, or a save returns and joins again in the same turn.       *)
ZipStep ==
  \/ UNCHANGED zip
  \/ \E c \in Callers, cleaning \in BOOLEAN :
       /\ pc[c] \notin InChain /\ (cleaning => c \in Savers)
       /\ ToBuffer(c, cleaning, chain, snap)
  \/ \E c \in Callers : Returns(c) /\ Return(c)
  \/ \E c \in Savers : Returns(c) /\ ToBuffer(c, TRUE, Tail(chain), Restored(c))

(* There is no other way to the zip. *)
LEMMA StepsOfTheZip ==
  ASSUME [Next]_vars
  PROVE  ZipStep
<1>1. CASE UNCHANGED vars
  BY <1>1 DEF vars, ZipStep
<1>2. ASSUME NEW s \in Savers, Save(s) PROVE ZipStep
  <2>0. s \in Callers /\ "idle" \notin InChain /\ "validating" \notin InChain
        /\ "accepted" \notin InChain /\ "writing" \notin InChain
    BY DEF Callers, InChain
  <2>1. CASE \E f \in Formats : BeginSave(s, f)
    BY <2>0, <2>1 DEF BeginSave, ZipStep
  <2>2. CASE Validated(s) \/ Accepted(s) \/ Written(s)
    BY <2>0, <2>2 DEF Validated, Accepted, Written, ZipStep
  <2>3. CASE AcceptSerialized(s) \/ RedlineSerialized(s) \/ Summarized(s)
    BY <2>0, <2>3 DEF AcceptSerialized, RedlineSerialized, Summarized, ZipStep
  <2>4. CASE CleanSerialized(s)
    BY <2>0, <2>4 DEF CleanSerialized, ZipStep
  <2>5. CASE StatsCollected(s) \/ FailSave(s)
    BY <2>5 DEF StatsCollected, FailSave, ZipStep
  <2> QED BY <1>2, <2>1, <2>2, <2>3, <2>4, <2>5 DEF Save
<1>3. ASSUME NEW e \in Editors, Edit(e) PROVE ZipStep
  <2>0. e \in Callers /\ "idle" \notin InChain
    BY DEF Callers, InChain
  <2>1. CASE BeginPreview(e)
    BY <2>0, <2>1 DEF BeginPreview, ZipStep
  <2>2. CASE PreviewSerialized(e)
    BY <2>0, <2>2 DEF PreviewSerialized, ZipStep
  <2>3. CASE ApplyEdit(e) \/ InsertMarkers(e) \/ CommentWritten(e) \/ FailEdit(e)
    BY <2>3 DEF ApplyEdit, InsertMarkers, CommentWritten, FailEdit, ZipStep
  <2> QED BY <1>3, <2>1, <2>2, <2>3 DEF Edit
<1>4. ASSUME NEW x \in Extractors, Extract(x) PROVE ZipStep
  BY <1>4 DEF Extract, BeginExtract, Extracted, ZipStep
<1> QED BY <1>1, <1>2, <1>3, <1>4 DEF Next

(* What a call asks for does not change while others come and go. *)
LEMMA StepKeepsSaversClean ==
  ASSUME TypeOK, SaversClean, ZipStep
  PROVE  SaversClean'
<1>0. sent \in [Callers -> [dom : Edits, cleaning : BOOLEAN]] /\ Savers \subseteq Callers
  BY DEF TypeOK, Callers
<1>1. CASE UNCHANGED zip
  BY <1>1 DEF SaversClean, zip
<1>2. ASSUME NEW c \in Callers, NEW cleaning \in BOOLEAN, cleaning => c \in Savers,
             NEW queue, NEW head, ToBuffer(c, cleaning, queue, head)
      PROVE  SaversClean'
  BY <1>0, <1>2 DEF SaversClean, ToBuffer
<1>3. ASSUME NEW c \in Callers, Return(c) PROVE SaversClean'
  BY <1>0, <1>3 DEF SaversClean, Return, NotSent
<1> QED BY <1>0, <1>1, <1>2, <1>3 DEF ZipStep

(* A queue of distinct calls: who is last, alone, second. *)
LEMMA Line ==
  ASSUME NEW S, NEW q \in Seq(S), IsInjective(q), q # <<>>
  PROVE  /\ Len(q) \in Nat \ {0} /\ Head(q) = q[1] /\ q[Len(q)] \in S /\ Head(q) \in S
         /\ Len(q) = 1 => q[Len(q)] = Head(q)
         /\ Len(q) # 1 => q[Len(q)] # Head(q) /\ Len(q) \in 2..Len(q) /\ 2 \in 2..Len(q)
         /\ Tail(q) # <<>> => /\ Len(q) # 1 /\ Len(Tail(q)) = Len(q) - 1
                              /\ Tail(q)[Len(Tail(q))] = q[Len(q)]
                              /\ Head(Tail(q)) = q[2]
                              /\ Len(Tail(q)) = 1 => Len(q) = 2
<1>1. /\ Len(q) \in Nat \ {0} /\ DOMAIN q = 1..Len(q) /\ Head(q) = q[1]
      /\ Tail(q) \in Seq(S) /\ Len(Tail(q)) = Len(q) - 1
      /\ \A i \in 1..(Len(q) - 1) : Tail(q)[i] = q[i + 1]
  BY EmptySeq, HeadTailProperties, LenProperties
<1>2. q[Len(q)] \in S /\ Head(q) \in S
  BY <1>1
<1>3. ASSUME Len(q) # 1 PROVE q[Len(q)] # q[1]
  <2>1. Len(q) \in DOMAIN q /\ 1 \in DOMAIN q
    BY <1>1
  <2> QED BY <2>1, <1>3 DEF IsInjective
<1>4. ASSUME Tail(q) # <<>>
      PROVE  Len(q) # 1 /\ Tail(q)[Len(Tail(q))] = q[Len(q)] /\ Head(Tail(q)) = q[2]
  <2>1. Len(Tail(q)) \in Nat \ {0}
    BY <1>1, <1>4, EmptySeq, LenProperties
  <2>2. Len(q) - 1 \in 1..(Len(q) - 1) /\ 1 \in 1..(Len(q) - 1)
    BY <1>1, <2>1
  <2>3. Head(Tail(q)) = Tail(q)[1]
    BY <1>1, <1>4, HeadTailProperties
  <2> QED BY <1>1, <2>1, <2>2, <2>3
<1> QED BY <1>1, <1>2, <1>3, <1>4

(* The last in line after one more call has joined. *)
LEMMA LastJoins ==
  ASSUME NEW S, NEW q \in Seq(S), NEW c \in S
  PROVE  /\ Append(q, c) # <<>> /\ Append(q, c)[Len(Append(q, c))] = c
         /\ Len(Append(q, c)) = 1 <=> q = <<>>
         /\ Head(Append(q, c)) = IF q = <<>> THEN c ELSE Head(q)
<1>1. /\ Append(q, c) \in Seq(S) /\ Len(Append(q, c)) = Len(q) + 1 /\ Len(q) \in Nat
      /\ \A i \in 1..Len(q) : Append(q, c)[i] = q[i]
      /\ Append(q, c)[Len(q) + 1] = c
  OBVIOUS
<1>2. q = <<>> <=> Len(q) = 0
  BY EmptySeq
<1>3. Head(Append(q, c)) = Append(q, c)[1] /\ Append(q, c) # <<>>
  BY <1>1
<1>4. q # <<>> => 1 \in 1..Len(q) /\ Head(q) = q[1]
  BY <1>1, <1>2
<1> QED BY <1>1, <1>2, <1>3, <1>4

(* Those that wait behind the head agree with the last on whether they     *)
(* want a cleaned document.xml: nobody joins behind a save which waits for *)
(* its cleaned version, and no such save behind a preview which waits.     *)
LineAgrees ==
  \A i \in 2..Len(chain) : sent[chain[i]].cleaning = sent[chain[Len(chain)]].cleaning

(* The head of the line has copied the document.xml it asked for. *)
HeadAsAsked == chain # <<>> => snap.marks = ~sent[Head(chain)].cleaning

(* A save that returns has only others behind it, who want their bookmarks *)
(* and find them in what it writes back.                                   *)
LEMMA ReturnFindsLine ==
  ASSUME OneSaver, TypeOK, SaversClean, LastInLineAsAsked,
         NEW c \in Callers, Returns(c), Tail(chain) # <<>>
  PROVE  LET l == chain[Len(chain)] IN
         /\ l \in Callers \ {c} /\ Restored(c).marks = ~sent[l].cleaning
         /\ LineAgrees => Restored(c).marks = ~sent[Head(Tail(chain))].cleaning
         /\ Head(Tail(chain)) \in Callers \ {c}
         /\ c \in Savers => ~sent[l].cleaning
<1> DEFINE l == chain[Len(chain)]
<1>1. chain \in Seq(Callers) /\ IsInjective(chain) /\ chain # <<>> /\ Head(chain) = c
  BY DEF TypeOK, Returns
<1>2. /\ l \in Callers /\ l # c /\ Head(Tail(chain)) = chain[2]
      /\ 2 \in 2..Len(chain) /\ Len(chain) \in Nat
  BY <1>1, Line
<1>3. part.marks = ~sent[l].cleaning
  BY <1>1 DEF LastInLineAsAsked
<1>4. sent[c].cleaning => ~sent[l].cleaning
  BY <1>2 DEF SaversClean, OneSaver
<1>5. Restored(c).marks = ~sent[l].cleaning
  BY <1>2, <1>3, <1>4 DEF Restored, TypeOK
<1>6. Head(Tail(chain)) \in Callers \ {c}
  <2>1. 1 \in DOMAIN chain /\ 2 \in DOMAIN chain /\ chain[1] = c /\ chain[2] \in Callers
    BY <1>1, <1>2
  <2> QED BY <1>1, <1>2, <2>1 DEF IsInjective
<1>7. LineAgrees => sent[chain[2]].cleaning = sent[l].cleaning
  BY <1>2 DEF LineAgrees
<1>8. c \in Savers => ~sent[l].cleaning
  BY <1>2 DEF SaversClean, OneSaver
<1> QED BY <1>2, <1>5, <1>6, <1>7, <1>8

(* Whatever happens to the zip, the last in line will be served what it    *)
(* asked for, and while the line agrees its head has been.                 *)
LEMMA StepKeepsLine ==
  ASSUME OneSaver, TypeOK, SaversClean, LastInLineAsAsked, ZipStep
  PROVE  LastInLineAsAsked' /\ (LineAgrees /\ HeadAsAsked => HeadAsAsked')
<1>0. /\ chain \in Seq(Callers) /\ IsInjective(chain) /\ Savers \subseteq Callers
      /\ sent \in [Callers -> [dom : Edits, cleaning : BOOLEAN]]
  BY DEF TypeOK, Callers
<1>1. CASE UNCHANGED zip
  BY <1>1 DEF LastInLineAsAsked, HeadAsAsked, zip
<1>2. ASSUME NEW c \in Callers, NEW cleaning \in BOOLEAN, pc[c] \notin InChain,
             ToBuffer(c, cleaning, chain, snap)
      PROVE  LastInLineAsAsked' /\ (LineAgrees /\ HeadAsAsked => HeadAsAsked')
  <2>1. /\ chain' # <<>> /\ chain'[Len(chain')] = c /\ (Len(chain') = 1 <=> chain = <<>>)
        /\ Head(chain') = IF chain = <<>> THEN c ELSE Head(chain)
    BY <1>0, <1>2, LastJoins DEF ToBuffer
  <2>2. /\ part'.marks = ~cleaning /\ sent'[c].cleaning = cleaning
        /\ \A d \in Callers \ {c} : sent'[d] = sent[d]
        /\ chain = <<>> => snap'.marks = ~cleaning
        /\ chain # <<>> => snap' = snap
    BY <1>0, <1>2 DEF ToBuffer
  <2>3. chain # <<>> => Head(chain) \in Callers \ {c}
    <3>1. c \notin Range(chain)
      BY <1>2 DEF TypeOK
    <3> QED BY <1>0, <3>1, Leaves, Line
  <2> QED BY <2>1, <2>2, <2>3 DEF LastInLineAsAsked, HeadAsAsked
<1>3. ASSUME NEW c \in Callers, Returns(c), Return(c)
      PROVE  LastInLineAsAsked' /\ (LineAgrees /\ HeadAsAsked => HeadAsAsked')
  <2>1. CASE Tail(chain) = <<>>
    BY <1>3, <2>1 DEF Return, LastInLineAsAsked, HeadAsAsked
  <2>2. CASE Tail(chain) # <<>>
    <3>1. /\ chain' = Tail(chain) /\ part' = Restored(c) /\ snap' = Restored(c)
          /\ \A d \in Callers \ {c} : sent'[d] = sent[d]
      BY <1>0, <1>3 DEF Return
    <3>2. chain # <<>>
      BY <1>3 DEF Returns
    <3>3. chain'[Len(chain')] = chain[Len(chain)]
      BY <1>0, <2>2, <3>1, <3>2, Line
    <3> QED BY <1>3, <2>2, <3>1, <3>3, ReturnFindsLine DEF LastInLineAsAsked, HeadAsAsked
  <2> QED BY <2>1, <2>2
<1>4. ASSUME NEW c \in Savers, Returns(c), ToBuffer(c, TRUE, Tail(chain), Restored(c))
      PROVE  LastInLineAsAsked' /\ (LineAgrees /\ HeadAsAsked => HeadAsAsked')
  <2> DEFINE q == Tail(chain)
  <2>1. c \in Callers /\ chain # <<>> /\ q \in Seq(Callers)
    BY <1>0, <1>4, Leaves DEF Returns
  <2>2. /\ chain' = Append(q, c) /\ part'.marks = FALSE /\ sent'[c].cleaning
        /\ \A d \in Callers \ {c} : sent'[d] = sent[d]
        /\ q = <<>> => snap'.marks = FALSE
        /\ q # <<>> => snap' = Restored(c)
    BY <1>0, <1>4, <2>1 DEF ToBuffer
  <2>3. q # <<>> => /\ Head(q) \in Callers \ {c}
                    /\ LineAgrees => Restored(c).marks = ~sent[Head(q)].cleaning
    BY <1>4, <2>1, ReturnFindsLine
  <2> HIDE DEF q
  <2>4. /\ chain' # <<>> /\ chain'[Len(chain')] = c /\ (Len(chain') = 1 <=> q = <<>>)
        /\ Head(chain') = IF q = <<>> THEN c ELSE Head(q)
    BY <2>1, <2>2, LastJoins
  <2> QED BY <2>2, <2>3, <2>4 DEF LastInLineAsAsked, HeadAsAsked
<1> QED BY <1>1, <1>2, <1>3, <1>4 DEF ZipStep

(* The line as an invariant, with what keeps it. *)
THEOREM LineHolds == OneSaver => (Spec => [](SaversClean /\ LastInLineAsAsked))
<1> SUFFICES ASSUME OneSaver PROVE Spec => [](SaversClean /\ LastInLineAsAsked)
  OBVIOUS
<1>1. Init => SaversClean /\ LastInLineAsAsked
  BY DEF Init, SaversClean, LastInLineAsAsked, NotSent
<1>2. TypeOK /\ (SaversClean /\ LastInLineAsAsked) /\ [Next]_vars
      => (SaversClean /\ LastInLineAsAsked)'
  BY StepsOfTheZip, StepKeepsSaversClean, StepKeepsLine
<1> QED BY PipelineTypeCorrect, <1>1, <1>2, PTL DEF Spec

(* Who queued last is served what it asked for, document.xml cleaned or    *)
(* not, whatever the saves before it write back: for any number of         *)
(* handlers that edit, annotate and extract and all wait in one line.      *)
THEOREM LastInLineHolds == OneSaver => (Spec => []LastInLineAsAsked)
<1> SUFFICES ASSUME OneSaver PROVE Spec => []LastInLineAsAsked
  OBVIOUS
<1> QED BY LineHolds, PTL

(***************************************************************************)
(* What the artefacts and the previews hold                                *)
(***************************************************************************)

(* A cached or produced entry without bookmarks. *)
Bare(entry, f) == ~entry.clean.marks /\ (f # "clean" => ~entry.redline.marks)

(* A save that waits for an artefact has asked for a cleaned one. *)
CleanSavesAsk == \A s \in Savers : pc[s] \in {"clean", "redline"} => sent[s].cleaning

(* What has been produced or found has no bookmarks, and what an edit is   *)
(* previewed on has them.                                                  *)
Handed ==
  /\ \A k \in Edits, f \in Formats : saveCache[k][f] # None => Bare(saveCache[k][f], f)
  /\ \A s \in Savers :
       LET art == job[s].art IN
       /\ pc[s] = "validating" /\ art # None => Bare(art, job[s].format)
       /\ pc[s] \in {"accepted", "redline"} => ~art.clean.marks
       /\ pc[s] \in {"stats", "writing"} => Bare(art, job[s].format)
  /\ \A e \in Editors : pc[e] = "previewed" => got[e].marks

(* Storing a bare artefact keeps the cache bare. *)
LEMMA StoreKeepsBare ==
  ASSUME TypeOK, Handed, NEW s \in Savers, NEW art, Store(s, art), Bare(art, job[s].format)
  PROVE  \A k \in Edits, f \in Formats : saveCache'[k][f] # None => Bare(saveCache'[k][f], f)
<1>1. /\ job[s].key \in Edits /\ job[s].format \in Formats
      /\ saveCache \in [Edits -> [Formats -> Entries \cup {None}]]
  BY DEF TypeOK
<1>2. \A k \in Edits, f \in Formats :
        saveCache'[k][f] = IF k = job[s].key /\ f = job[s].format THEN art ELSE saveCache[k][f]
  BY <1>1 DEF Store
<1> QED BY <1>2 DEF Handed

(* Only its own calls change what a save has asked for. *)
LEMMA StepKeepsAsking ==
  ASSUME OneSaver, TypeOK, CleanSavesAsk, [Next]_vars
  PROVE  CleanSavesAsk'
<1>0. /\ sent \in [Callers -> [dom : Edits, cleaning : BOOLEAN]] /\ pc \in [Callers -> Stages]
      /\ Savers \subseteq Callers
  BY DEF TypeOK, Callers
<1>1. CASE UNCHANGED vars
  BY <1>1 DEF CleanSavesAsk, vars, zip
<1>2. ASSUME NEW s \in Savers, Save(s) PROVE CleanSavesAsk'
  <2>0. \A t \in Savers : t = s
    BY DEF OneSaver
  <2>1. ASSUME NEW stage \in {"validating", "accepting", "accepted", "stats", "writing", "summary", "idle"},
               Await(s, stage)
        PROVE  CleanSavesAsk'
    BY <1>0, <2>0, <2>1 DEF Await, CleanSavesAsk
  <2>2. ASSUME NEW stage, Await(s, stage), NEW queue, NEW head, ToBuffer(s, TRUE, queue, head)
        PROVE  CleanSavesAsk'
    BY <1>0, <2>0, <2>2 DEF Await, ToBuffer, CleanSavesAsk
  <2>3. CASE \E f \in Formats : BeginSave(s, f)
    BY <2>1, <2>2, <2>3 DEF BeginSave
  <2>4. CASE Accepted(s)
    BY <2>1, <2>2, <2>4 DEF Accepted
  <2>5. CASE CleanSerialized(s)
    BY <2>1, <2>2, <2>5 DEF CleanSerialized
  <2>6. CASE Validated(s) \/ AcceptSerialized(s) \/ RedlineSerialized(s) \/ StatsCollected(s)
             \/ Written(s) \/ Summarized(s) \/ FailSave(s)
    BY <2>1, <2>6 DEF Validated, AcceptSerialized, RedlineSerialized, StatsCollected,
                      Written, Summarized, FailSave, AnswerSave
  <2> QED BY <1>2, <2>3, <2>4, <2>5, <2>6 DEF Save
<1>3. ASSUME NEW c \in Callers \ Savers, NEW stage, Await(c, stage),
             \A s \in Savers : sent'[s] = sent[s]
      PROVE  CleanSavesAsk'
  BY <1>0, <1>3 DEF Await, CleanSavesAsk
<1>4. ASSUME NEW e \in Editors, Edit(e) PROVE CleanSavesAsk'
  <2>0. e \in Callers \ Savers
    BY PipelineAssumption DEF Callers
  <2>1. \A s \in Savers : sent'[s] = sent[s]
    BY <1>0, <1>4, <2>0 DEF Edit, BeginPreview, PreviewSerialized, ApplyEdit, InsertMarkers,
                            CommentWritten, FailEdit, ToBuffer, Return, zip
  <2>2. \E stage : Await(e, stage)
    BY <1>4 DEF Edit, BeginPreview, PreviewSerialized, ApplyEdit, InsertMarkers,
                CommentWritten, FailEdit, Answer
  <2> QED BY <1>3, <2>0, <2>1, <2>2
<1>5. ASSUME NEW x \in Extractors, Extract(x) PROVE CleanSavesAsk'
  <2>0. x \in Callers \ Savers
    BY PipelineAssumption DEF Callers
  <2>1. (\A s \in Savers : sent'[s] = sent[s]) /\ \E stage : Await(x, stage)
    BY <1>5 DEF Extract, BeginExtract, Extracted, Answer, zip
  <2> QED BY <1>3, <2>0, <2>1
<1> QED BY <1>1, <1>2, <1>4, <1>5 DEF Next

(* A save is given and keeps artefacts without bookmarks. *)
LEMMA SaveKeepsHanded ==
  ASSUME OneSaver, TypeOK, CleanSavesAsk, HeadAsAsked, Handed, NEW s \in Savers, Save(s)
  PROVE  Handed'
<1>0. /\ s \in Callers /\ job[s].format \in Formats
      /\ \A e \in Editors : e # s /\ e \in Callers
      /\ \A t \in Savers : t = s
  BY PipelineAssumption DEF TypeOK, Callers, OneSaver
<1>1. ASSUME NEW stage, Await(s, stage)
      PROVE  pc'[s] = stage /\ \A e \in Editors : pc'[e] = pc[e]
  BY <1>0, <1>1 DEF Await, TypeOK
<1>2. ASSUME NEW stage \in Stages, Await(s, stage), UNCHANGED got,
             saveCache' = saveCache \/ (\E art : Store(s, art) /\ Bare(art, job[s].format)),
             LET art == job'[s].art IN
             /\ stage = "validating" /\ art # None => Bare(art, job'[s].format)
             /\ stage \in {"accepted", "redline"} => ~art.clean.marks
             /\ stage \in {"stats", "writing"} => Bare(art, job'[s].format)
      PROVE  Handed'
  <2>1. \A k \in Edits, f \in Formats : saveCache'[k][f] # None => Bare(saveCache'[k][f], f)
    BY <1>0, <1>2, StoreKeepsBare DEF Handed
  <2> QED BY <1>0, <1>1, <1>2, <2>1 DEF Handed, Bare
<1>4. ASSUME NEW f \in Formats, BeginSave(s, f) PROVE Handed'
  <2>2. /\ job'[s] = [format |-> f, key |-> rev, art |-> saveCache[rev][f]]
        /\ saveCache[rev][f] # None => Bare(saveCache[rev][f], f)
        /\ UNCHANGED <<got, saveCache>>
    BY <1>0, <1>4 DEF BeginSave, TypeOK, Handed, session
  <2>3. job'[s].art # None => Bare(job'[s].art, job'[s].format)
    BY <2>2
  <2>a. job'[s].art = saveCache[rev][f]
    BY <2>2
  <2>b. \/ Await(s, "validating")
        \/ Await(s, "writing") /\ saveCache[rev][f] # None
        \/ Await(s, "clean")
    BY <1>4 DEF BeginSave
  <2>4. \/ Await(s, "validating")
        \/ Await(s, "writing") /\ job'[s].art # None
        \/ Await(s, "clean")
    BY <2>a, <2>b
  <2>5. Handed'
    <3>1. UNCHANGED got /\ saveCache' = saveCache
      BY <2>2
    <3>2. CASE Await(s, "validating")
      BY <1>2, <2>3, <3>1, <3>2 DEF Stages, SaverStages
    <3>3. CASE Await(s, "writing") /\ job'[s].art # None
      BY <1>2, <2>3, <3>1, <3>3 DEF Stages, SaverStages
    <3>4. CASE Await(s, "clean")
      BY <1>2, <3>1, <3>4 DEF Stages, SaverStages
    <3> QED BY <2>4, <3>2, <3>3, <3>4
  <2> QED BY <2>5
<1>5. ASSUME Validated(s) PROVE Handed'
  BY <1>0, <1>2, <1>5 DEF Validated, Stages, SaverStages, Handed, session
<1>6. ASSUME AcceptSerialized(s) PROVE Handed'
  <2>2. ~job'[s].art.clean.marks
    BY <1>0, <1>6 DEF AcceptSerialized, TypeOK
  <2>3. Handed'
    BY <1>2, <1>6, <2>2 DEF AcceptSerialized, Stages, SaverStages, session
  <2> QED BY <2>3
<1>7. ASSUME Accepted(s) PROVE Handed'
  <2>2. ~job[s].art.clean.marks /\ UNCHANGED <<job, got>>
    BY <1>0, <1>7 DEF Accepted, Handed
  <2>3. Handed'
    <3>1. CASE job[s].format = "clean"
      BY <1>2, <1>7, <2>2, <3>1 DEF Accepted, Stages, SaverStages, Bare
    <3>2. CASE job[s].format # "clean"
      BY <1>2, <1>7, <2>2, <3>2 DEF Accepted, Stages, SaverStages, session
    <3> QED BY <3>1, <3>2
  <2> QED BY <2>3
<1>8. ASSUME CleanSerialized(s) PROVE Handed'
  <2>0. ~snap.marks /\ pc[s] = "clean"
    BY <1>8 DEF CleanSerialized, CleanSavesAsk, HeadAsAsked, Returns
  <2>2. /\ job'[s].art = [clean |-> snap, redline |-> None] /\ job'[s].format = job[s].format
        /\ UNCHANGED got
    BY <1>0, <1>8 DEF CleanSerialized, TypeOK
  <2>3. Handed'
    <3>1. CASE job[s].format = "clean"
      <4>1. Store(s, [clean |-> snap, redline |-> None]) /\ Await(s, "writing")
        BY <1>8, <3>1 DEF CleanSerialized
      <4>2. Bare([clean |-> snap, redline |-> None], job[s].format)
        BY <2>0, <3>1 DEF Bare
      <4>3. Bare(job'[s].art, job'[s].format)
        BY <2>2, <4>2
      <4>4. \E art : Store(s, art) /\ Bare(art, job[s].format)
        BY <4>1, <4>2
      <4>5. UNCHANGED got /\ Await(s, "writing")
        BY <2>2, <4>1
      <4> QED BY <1>2, <4>3, <4>4, <4>5 DEF Stages, SaverStages
    <3>2. CASE job[s].format # "clean"
      <4>1. ~job'[s].art.clean.marks
        BY <2>0, <2>2
      <4>2. UNCHANGED <<got, saveCache>> /\ Await(s, "redline")
        BY <1>8, <3>2 DEF CleanSerialized, session
      <4> QED BY <1>2, <4>1, <4>2 DEF Stages, SaverStages
    <3> QED BY <3>1, <3>2
  <2> QED BY <2>3
<1>9. ASSUME RedlineSerialized(s) PROVE Handed'
  <2>0. ~snap.marks /\ ~job[s].art.clean.marks /\ job[s].art \in Entries
    BY <1>9 DEF RedlineSerialized, CleanSavesAsk, HeadAsAsked, Handed, Returns, TypeOK, ArtefactReady
  <2>2. /\ job'[s] = [job[s] EXCEPT !.art = [job[s].art EXCEPT !.redline = snap]]
        /\ UNCHANGED got
    BY <1>0, <1>9 DEF RedlineSerialized, TypeOK
  <2>3. job'[s].art = [job[s].art EXCEPT !.redline = snap]
    BY <2>2 DEF TypeOK
  <2>4. Bare(job'[s].art, job'[s].format)
    BY <2>0, <2>3 DEF Bare, Entries
  <2>5. Handed'
    BY <1>2, <1>9, <2>2, <2>4 DEF RedlineSerialized, Stages, SaverStages, session
  <2> QED BY <2>5
<1>10. ASSUME StatsCollected(s) PROVE Handed'
  <2>2. Bare(job[s].art, job[s].format)
    BY <1>0, <1>10 DEF StatsCollected, Handed
  <2>3. Handed'
    BY <1>2, <1>10, <2>2 DEF StatsCollected, Stages, SaverStages
  <2> QED BY <2>3
<1>11. ASSUME Written(s) PROVE Handed'
  BY <1>2, <1>11 DEF Written, AnswerSave, Stages, SaverStages, session
<1>12. ASSUME Summarized(s) PROVE Handed'
  BY <1>2, <1>12 DEF Summarized, AnswerSave, Stages, SaverStages, session
<1>13. ASSUME FailSave(s) PROVE Handed'
  BY <1>2, <1>13 DEF FailSave, AnswerSave, Stages, SaverStages, session
<1> QED BY <1>4, <1>5, <1>6, <1>7, <1>8, <1>9, <1>10, <1>11, <1>12, <1>13 DEF Save

(* An edit is previewed with the bookmarks and leaves the artefacts alone. *)
LEMMA EditKeepsHanded ==
  ASSUME TypeOK, SaversClean, HeadAsAsked, Handed, NEW e \in Editors, Edit(e)
  PROVE  Handed'
<1>0. /\ e \in Callers \ Savers /\ Editors \subseteq Callers
      /\ \A s \in Savers : s # e /\ s \in Callers
      /\ got \in [Editors \cup Extractors -> Contents \cup {None}]
  BY PipelineAssumption DEF Callers, TypeOK
<1>1. ASSUME NEW stage, Await(e, stage)
      PROVE  pc'[e] = stage /\ \A c \in Callers \ {e} : pc'[c] = pc[c]
  BY <1>0, <1>1 DEF Await, TypeOK
<1>2. ASSUME NEW stage, Await(e, stage), UNCHANGED job, saveCache' \in {saveCache, NoEntries},
             \A d \in Editors \ {e} : got'[d] = got[d],
             stage = "previewed" => got'[e].marks
      PROVE  Handed'
  <2>1. \A k \in Edits, f \in Formats : saveCache'[k][f] # None => Bare(saveCache'[k][f], f)
    BY <1>0, <1>2 DEF Handed, NoEntries
  <2> QED BY <1>0, <1>1, <1>2, <2>1 DEF Handed, Bare
<1>4. ASSUME BeginPreview(e) PROVE Handed'
  BY <1>2, <1>4 DEF BeginPreview, session
<1>5. ASSUME PreviewSerialized(e) PROVE Handed'
  <2>2. got'[e].marks
    BY <1>0, <1>5 DEF PreviewSerialized, TypeOK, SaversClean, HeadAsAsked, Returns
  <2>3. Handed'
    BY <1>2, <1>5, <2>2 DEF PreviewSerialized, session
  <2> QED BY <2>3
<1>6. ASSUME ApplyEdit(e) \/ CommentWritten(e) PROVE Handed'
  BY <1>0, <1>2, <1>6 DEF ApplyEdit, CommentWritten, MarkEdited, Answer
<1>7. ASSUME InsertMarkers(e) \/ FailEdit(e) PROVE Handed'
  BY <1>0, <1>2, <1>7 DEF InsertMarkers, FailEdit, Answer, session
<1> QED BY <1>4, <1>5, <1>6, <1>7 DEF Edit

(* One step while the line agrees. *)
LEMMA StepKeepsHanded ==
  ASSUME OneSaver, TypeOK, SaversClean, CleanSavesAsk, HeadAsAsked, Handed, [Next]_vars
  PROVE  Handed'
<1>1. CASE UNCHANGED vars
  BY <1>1 DEF Handed, Bare, vars, session
<1>2. ASSUME NEW x \in Extractors, Extract(x) PROVE Handed'
  <2>1. /\ UNCHANGED <<saveCache, job>>
        /\ \A c \in Savers \cup Editors : pc'[c] = pc[c]
        /\ \A e \in Editors : got'[e] = got[e]
    BY <1>2, PipelineAssumption DEF Extract, BeginExtract, Extracted, Answer, Await, TypeOK, Callers
  <2> QED BY <2>1 DEF Handed, Bare
<1> QED BY <1>1, <1>2, SaveKeepsHanded, EditKeepsHanded DEF Next

(* What every call of an agreeing line is served, as an invariant. *)
AllServed == CleanSavesAsk /\ HeadAsAsked /\ Handed

(* A session that was just opened. *)
LEMMA InitServed == Init => AllServed
<1> SUFFICES ASSUME Init PROVE AllServed
  OBVIOUS
<1>1. CleanSavesAsk /\ HeadAsAsked
  BY DEF Init, CleanSavesAsk, HeadAsAsked, Callers
<1>2. Handed
  BY DEF Init, Handed, NoEntries, Callers
<1> QED BY <1>1, <1>2 DEF AllServed

(* Bookmarks in a saved artefact, or none in the preview of an edit, have  *)
(* one cause: a call that joined the line behind another, not yet served,  *)
(* and asked the opposite of it.  As long as those that wait agree, each   *)
(* is served what it asked for, however many edit, annotate and extract.   *)
(* The code does not keep them in agreement: PreviewsSeeAnchors fails with *)
(* two editors, ArtefactsAreClean with two that queue around a save.       *)
THEOREM AgreeingLineSuffices ==
  OneSaver => (Spec /\ []LineAgrees => [](ArtefactsAreClean /\ PreviewsSeeAnchors))
<1> SUFFICES ASSUME OneSaver
             PROVE  Spec /\ []LineAgrees => [](ArtefactsAreClean /\ PreviewsSeeAnchors)
  OBVIOUS
<1>1. TypeOK /\ (SaversClean /\ LastInLineAsAsked) /\ LineAgrees /\ AllServed /\ [Next]_vars
      => AllServed'
  BY StepsOfTheZip, StepKeepsLine, StepKeepsAsking, StepKeepsHanded DEF AllServed
<1>2. AllServed => ArtefactsAreClean /\ PreviewsSeeAnchors
  BY DEF AllServed, Handed, Bare, ArtefactsAreClean, Artefacts, PreviewsSeeAnchors
<1>3. Spec => [](SaversClean /\ LastInLineAsAsked)
  BY LineHolds
<1> QED BY InitServed, PipelineTypeCorrect, <1>1, <1>2, <1>3, PTL DEF Spec
=============================================================================
