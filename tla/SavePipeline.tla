----------------------------- MODULE SavePipeline -----------------------------
(***************************************************************************)
(* Saving one DOCX session while other handlers edit it and extract its    *)
(* revisions: DocxDocument.toBuffer and DocxZip.toBuffer of docx-core, and *)
(* the save, extract_revisions and edit tools of docx-mcp with the caches  *)
(* of the session.                                                         *)
(*                                                                         *)
(* Handlers interleave at awaits only, so an action is what one handler    *)
(* does between two of them.  The document is the number of edits made to  *)
(* it: an artefact is a prefix of the edits, with or without the internal  *)
(* bookmarks that anchor the tools.                                        *)
(*                                                                         *)
(* All handlers of a session share one zip.  toBuffer writes document.xml  *)
(* into it, queues a serialization there and, if it wrote a cleaned        *)
(* version, writes its own uncleaned one back when it is served.  A        *)
(* serialization copies the parts the moment its turn comes.               *)
(***************************************************************************)
EXTENDS Naturals, Sequences, Functions

CONSTANTS
  Savers,      \* handlers of save
  Editors,     \* handlers of tools that edit the document
  Annotators,  \* those whose edit spans awaits (add_comment, add_footnote)
  Extractors,  \* handlers of extract_revisions
  None,        \* nothing (null)
  MaxEdits     \* bounds the edits made

Callers == Savers \cup Editors \cup Extractors

ASSUME PipelineAssumption ==
  /\ Annotators \subseteq Editors
  /\ Savers \cap Editors = {} /\ Savers \cap Extractors = {} /\ Editors \cap Extractors = {}
  /\ MaxEdits \in Nat

Edits == 0..MaxEdits
Contents == [dom : Edits, marks : BOOLEAN]
Formats == {"clean", "tracked", "both"}
Entries == [clean : Contents, redline : Contents \cup {None}]

ASSUME NoneAssumption == None \notin Contents \cup Entries

VARIABLES
  dom,        \* edits in the in-memory document
  author,     \* does the session attribute its edits (session.aiAuthor)?
  rev,        \* session.editRevision
  acked,      \* the latest edit whose tool has answered
  part,       \* word/document.xml in the zip
  chain,      \* DocxZip.serialization: the calls queued on it, the head being served
  snap,       \* document.xml as the head's serialization copied it
  saveCache,  \* session.saveCache, by revision and format
  extraction, \* session.extractionCache
  pc,         \* handler -> where it awaits
  asked,      \* handler -> acked when its request began
  sent,       \* handler -> what its toBuffer call serialized, and whether cleaned
  job,        \* saver -> its format, cache key and artefacts
  got,        \* editor, extractor -> the preview or clone it works on
  own         \* annotator -> the edit it is making

session == <<author, rev, acked, saveCache, extraction>>
zip == <<part, chain, snap, sent>>
vars == <<dom, session, zip, pc, asked, job, got, own>>

InChain == {"accepting", "clean", "redline", "summary", "preview"}
SaverStages == {"idle", "validating", "accepting", "accepted", "clean", "redline",
                "stats", "writing", "summary"}
EditorStages == {"idle", "preview", "previewed", "annotating"}
ExtractorStages == {"idle", "extracting"}
Stages == SaverStages \cup EditorStages \cup ExtractorStages

NoJob == [format |-> "clean", key |-> 0, art |-> None]
NotSent == [dom |-> 0, cleaning |-> FALSE]
NoEntries == [k \in Edits |-> [f \in Formats |-> None]]

Init ==
  /\ author \in BOOLEAN
  /\ dom = 0 /\ rev = 0 /\ acked = 0
  /\ part = [dom |-> 0, marks |-> FALSE]
  /\ chain = <<>>
  /\ snap = part
  /\ saveCache = NoEntries
  /\ extraction = None
  /\ pc = [c \in Callers |-> "idle"]
  /\ asked = [c \in Callers |-> 0]
  /\ sent = [c \in Callers |-> NotSent]
  /\ job = [s \in Savers |-> NoJob]
  /\ got = [c \in Editors \cup Extractors |-> None]
  /\ own = [e \in Editors |-> 0]

Await(c, stage) == pc' = [pc EXCEPT ![c] = stage]

(***************************************************************************)
(* DocxDocument.toBuffer on the zip's promise chain.                       *)
(***************************************************************************)

(* A bug: the uncleaned document.xml is written back without awaiting. *)
ToBufferWithoutAwait(c, cleaning, queue, head) ==
  LET written == [dom |-> dom, marks |-> ~cleaning] IN
  /\ part' = [dom |-> dom, marks |-> TRUE]
  /\ sent' = [sent EXCEPT ![c] = [dom |-> dom, cleaning |-> cleaning]]
  /\ chain' = Append(queue, c)
  /\ snap' = IF queue = <<>> THEN written ELSE head

(* toBuffer up to its await.  queue is the chain the call joins and head   *)
(* what its head has copied; with nobody to wait for, the call's own       *)
(* serialization copies the part at once.                                  *)
ToBuffer(c, cleaning, queue, head) ==
  LET written == [dom |-> dom, marks |-> ~cleaning] IN
  /\ part' = written
  /\ sent' = [sent EXCEPT ![c] = [dom |-> dom, cleaning |-> cleaning]]
  /\ chain' = Append(queue, c)
  /\ snap' = IF queue = <<>> THEN written ELSE head

(* The head's archive is complete. *)
Returns(c) == chain # <<>> /\ Head(chain) = c

(* Bugs: every call writes its document.xml back, not only a cleaned one;  *)
(* the cleaned version is written back instead of the one with bookmarks.  *)
RestoredAlways(c) == [dom |-> sent[c].dom, marks |-> TRUE]
RestoredCleaned(c) ==
  IF sent[c].cleaning THEN [dom |-> sent[c].dom, marks |-> FALSE] ELSE part

(* document.xml after c's toBuffer has returned: the rest of that function *)
(* runs before the next serialization of the chain copies the parts, and   *)
(* before the caller of c goes on.                                         *)
Restored(c) ==
  IF sent[c].cleaning THEN [dom |-> sent[c].dom, marks |-> TRUE] ELSE part

(* A bug: the chain restarts with every completed call. *)
ReturnAlone(c) ==
  /\ part' = Restored(c)
  /\ chain' = <<>>
  /\ snap' = Restored(c)
  /\ sent' = [sent EXCEPT ![c] = NotSent]

(* c's toBuffer returns, and c does not call it again in the same turn. *)
Return(c) ==
  /\ part' = Restored(c)
  /\ chain' = Tail(chain)
  /\ snap' = Restored(c)
  /\ sent' = [sent EXCEPT ![c] = NotSent]

(* The handler answers: its locals are gone. *)
AnswerSave(s) ==
  /\ Await(s, "idle")
  /\ asked' = [asked EXCEPT ![s] = 0]
  /\ job' = [job EXCEPT ![s] = NoJob]

(***************************************************************************)
(* save                                                                    *)
(***************************************************************************)

(* The cache is looked up under the current revision before anything is    *)
(* awaited.  With an author the session is validated next; without one a   *)
(* hit is written and a miss serialized in the same turn.                  *)
BeginSave(s, f) ==
  /\ pc[s] = "idle"
  /\ asked' = [asked EXCEPT ![s] = acked]
  /\ job' = [job EXCEPT ![s] = [format |-> f, key |-> rev, art |-> saveCache[rev][f]]]
  /\ \/ author /\ Await(s, "validating") /\ UNCHANGED zip
     \/ ~author /\ saveCache[rev][f] # None /\ Await(s, "writing") /\ UNCHANGED zip
     \/ ~author /\ saveCache[rev][f] = None /\ Await(s, "clean")
        /\ ToBuffer(s, TRUE, chain, snap)
  /\ UNCHANGED <<dom, session, got, own>>

(* validateAiRevisions found nothing: a hit is written, a miss starts      *)
(* toAcceptedBuffer, which serializes the session with its bookmarks.      *)
Validated(s) ==
  /\ pc[s] = "validating"
  /\ \/ job[s].art # None /\ Await(s, "writing") /\ UNCHANGED zip
     \/ job[s].art = None /\ Await(s, "accepting") /\ ToBuffer(s, FALSE, chain, snap)
  /\ UNCHANGED <<dom, session, asked, job, got, own>>

(* An isolated document is loaded from the buffer, its edits are accepted  *)
(* and it is serialized with a zip of its own, cleaned.                    *)
AcceptSerialized(s) ==
  /\ pc[s] = "accepting" /\ Returns(s) /\ Return(s)
  /\ job' = [job EXCEPT ![s].art =
               [clean |-> [dom |-> snap.dom, marks |-> FALSE], redline |-> None]]
  /\ Await(s, "accepted")
  /\ UNCHANGED <<dom, session, asked, got, own>>

(* A bug: the entry is filed under the revision of now. *)
StoreUnderCurrent(s, art) ==
  /\ saveCache' = [saveCache EXCEPT ![rev][job[s].format] = art]
  /\ UNCHANGED <<author, rev, acked, extraction>>

(* setSaveCache under the key of the lookup. *)
Store(s, art) ==
  /\ saveCache' = [saveCache EXCEPT ![job[s].key][job[s].format] = art]
  /\ UNCHANGED <<author, rev, acked, extraction>>

(* The clean artefact is there; a redline is serialized next. *)
Accepted(s) ==
  /\ pc[s] = "accepted"
  /\ \/ job[s].format = "clean" /\ Store(s, job[s].art) /\ Await(s, "writing") /\ UNCHANGED zip
     \/ job[s].format # "clean" /\ Await(s, "redline") /\ ToBuffer(s, TRUE, chain, snap)
        /\ UNCHANGED session
  /\ UNCHANGED <<dom, asked, job, got, own>>

(* Without an author the clean artefact is the serialization itself, and   *)
(* the redline is serialized in the turn in which it arrives.              *)
CleanSerialized(s) ==
  LET art == [clean |-> snap, redline |-> None] IN
  /\ pc[s] = "clean" /\ Returns(s)
  /\ job' = [job EXCEPT ![s].art = art]
  /\ \/ job[s].format = "clean" /\ Return(s) /\ Store(s, art) /\ Await(s, "writing")
     \/ job[s].format # "clean" /\ Await(s, "redline")
        /\ ToBuffer(s, TRUE, Tail(chain), Restored(s)) /\ UNCHANGED session
  /\ UNCHANGED <<dom, asked, got, own>>

(* A bug: the two artefacts are taken for each other. *)
RedlineSerializedSwapped(s) ==
  /\ pc[s] = "redline" /\ Returns(s) /\ Return(s)
  /\ job' = [job EXCEPT ![s].art = [clean |-> snap, redline |-> job[s].art.clean]]
  /\ Await(s, "stats")
  /\ UNCHANGED <<dom, session, asked, got, own>>

(* toBuffer of the redline returns. *)
RedlineSerialized(s) ==
  /\ pc[s] = "redline" /\ Returns(s) /\ Return(s)
  /\ job' = [job EXCEPT ![s].art.redline = snap]
  /\ Await(s, "stats")
  /\ UNCHANGED <<dom, session, asked, got, own>>

(* collectTrackedStats is done. *)
StatsCollected(s) ==
  /\ pc[s] = "stats" /\ Store(s, job[s].art) /\ Await(s, "writing")
  /\ UNCHANGED <<dom, zip, asked, job, got, own>>

(* The artefacts are on disk.  The summary of a clean save needs one more  *)
(* serialization, that of a redline is taken from the redline.             *)
Written(s) ==
  /\ pc[s] = "writing"
  /\ \/ job[s].format = "clean" /\ Await(s, "summary") /\ ToBuffer(s, FALSE, chain, snap)
        /\ UNCHANGED <<asked, job>>
     \/ job[s].format # "clean" /\ AnswerSave(s) /\ UNCHANGED zip
  /\ UNCHANGED <<dom, session, got, own>>

Summarized(s) ==
  /\ pc[s] = "summary" /\ Returns(s) /\ Return(s) /\ AnswerSave(s)
  /\ UNCHANGED <<dom, session, got, own>>

(* A bug: a save gives up while its serialization is queued. *)
FailSaveAnywhere(s) ==
  /\ pc[s] # "idle"
  /\ AnswerSave(s)
  /\ UNCHANGED <<dom, session, zip, got, own>>

(* Invalid revisions, an overlap that cannot be accepted, an artefact that *)
(* may not or cannot be written: an error is answered.                     *)
FailSave(s) ==
  /\ pc[s] \in {"validating", "accepted", "stats", "writing"}
  /\ AnswerSave(s)
  /\ UNCHANGED <<dom, session, zip, got, own>>

(***************************************************************************)
(* The tools that edit                                                     *)
(***************************************************************************)

Answer(e) ==
  /\ Await(e, "idle")
  /\ asked' = [asked EXCEPT ![e] = 0]
  /\ got' = [got EXCEPT ![e] = None]

(* preflightAiRevisionMutation takes a snapshot of the session ...         *)
BeginPreview(e) ==
  /\ author /\ pc[e] = "idle"
  /\ ToBuffer(e, FALSE, chain, snap)
  /\ asked' = [asked EXCEPT ![e] = acked]
  /\ Await(e, "preview")
  /\ UNCHANGED <<dom, session, job, got, own>>

(* ... loads a preview from it, makes the edit there and validates it.     *)
PreviewSerialized(e) ==
  /\ pc[e] = "preview" /\ Returns(e) /\ Return(e)
  /\ got' = [got EXCEPT ![e] = snap]
  /\ Await(e, "previewed")
  /\ UNCHANGED <<dom, session, asked, job, own>>

ReadyToEdit(e) ==
  /\ pc[e] = IF author THEN "previewed" ELSE "idle"
  /\ dom < MaxEdits

(* markEdited.  A revision takes an edit, so the bound on edits is one on  *)
(* revisions as well.                                                      *)
MarkEdited(answered) ==
  /\ rev < MaxEdits
  /\ rev' = rev + 1
  /\ saveCache' = NoEntries
  /\ extraction' = None
  /\ acked' = IF answered > acked THEN answered ELSE acked
  /\ UNCHANGED author

(* A tool that edits, marks the session and answers in one turn. *)
ApplyEdit(e) ==
  /\ e \notin Annotators /\ ReadyToEdit(e)
  /\ dom' = dom + 1
  /\ MarkEdited(dom + 1)
  /\ Answer(e)
  /\ UNCHANGED <<zip, job, own>>

(* addComment puts its markers into the document and awaits the side parts *)
(* before the tool marks the session edited.                               *)
InsertMarkers(e) ==
  /\ e \in Annotators /\ ReadyToEdit(e)
  /\ dom' = dom + 1
  /\ own' = [own EXCEPT ![e] = dom + 1]
  /\ Await(e, "annotating")
  /\ UNCHANGED <<session, zip, asked, job, got>>

(* The side parts are written; the tool marks the session and answers. *)
CommentWritten(e) ==
  /\ pc[e] = "annotating"
  /\ MarkEdited(own[e])
  /\ own' = [own EXCEPT ![e] = 0]
  /\ Answer(e)
  /\ UNCHANGED <<dom, zip, job>>

(* The preview fails or is refused, or a side part cannot be written; the  *)
(* markers of a comment stay in the document.                              *)
FailEdit(e) ==
  /\ pc[e] \in {"previewed", "annotating"}
  /\ own' = [own EXCEPT ![e] = 0]
  /\ Answer(e)
  /\ UNCHANGED <<dom, session, zip, job>>

(***************************************************************************)
(* extract_revisions                                                       *)
(***************************************************************************)

Cached == extraction # None /\ extraction.revision = rev

(* getExtractionCache drops what is stale.  A hit is answered at once and  *)
(* changes nothing; a miss clones the document and awaits the comments.    *)
BeginExtract(x) ==
  /\ pc[x] = "idle" /\ ~Cached
  /\ extraction' = None
  /\ got' = [got EXCEPT ![x] = [dom |-> dom, marks |-> TRUE]]
  /\ asked' = [asked EXCEPT ![x] = acked]
  /\ Await(x, "extracting")
  /\ UNCHANGED <<dom, author, rev, acked, saveCache, zip, job, own>>

(* setExtractionCache stamps the result with the revision of now. *)
Extracted(x) ==
  /\ pc[x] = "extracting"
  /\ extraction' = [revision |-> rev, dom |-> got[x].dom]
  /\ Answer(x)
  /\ UNCHANGED <<dom, author, rev, acked, saveCache, zip, job, own>>

(***************************************************************************)

Save(s) ==
  \/ \E f \in Formats : BeginSave(s, f)
  \/ Validated(s) \/ AcceptSerialized(s) \/ Accepted(s)
  \/ CleanSerialized(s) \/ RedlineSerialized(s) \/ StatsCollected(s)
  \/ Written(s) \/ Summarized(s) \/ FailSave(s)

Edit(e) ==
  \/ BeginPreview(e) \/ PreviewSerialized(e)
  \/ ApplyEdit(e) \/ InsertMarkers(e) \/ CommentWritten(e) \/ FailEdit(e)

Extract(x) == BeginExtract(x) \/ Extracted(x)

Next ==
  \/ \E s \in Savers : Save(s)
  \/ \E e \in Editors : Edit(e)
  \/ \E x \in Extractors : Extract(x)

Spec == Init /\ [][Next]_vars

(* The event loop runs every handler whose promise has settled; nobody has *)
(* to send another request.                                                *)
Fairness ==
  /\ \A s \in Savers : WF_vars(pc[s] # "idle" /\ Save(s))
  /\ \A e \in Editors : WF_vars(pc[e] # "idle" /\ Edit(e))
  /\ \A x \in Extractors : WF_vars(pc[x] # "idle" /\ Extract(x))

LiveSpec == Spec /\ Fairness

(***************************************************************************)
(* Properties                                                              *)
(***************************************************************************)

(* The artefacts s is about to put on disk. *)
Artefacts(s) ==
  IF pc[s] # "writing" THEN {}
  ELSE {job[s].art.clean} \cup (IF job[s].format = "clean" THEN {} ELSE {job[s].art.redline})

(* What a saver still needs is there: the clean artefact once it has been  *)
(* produced or found in the cache, until the answer.                       *)
ArtefactReady(s) ==
  pc[s] \in {"accepted", "redline", "stats", "writing"} => job[s].art \in Entries

(* Every variable has its type, the chain holds exactly the calls that     *)
(* await their archive, each once, and no handler uses what it has not got.*)
TypeOK ==
  /\ author \in BOOLEAN
  /\ dom \in Edits /\ rev \in Edits /\ acked \in Edits
  /\ part \in Contents /\ snap \in Contents
  /\ chain \in Seq(Callers)
  /\ IsInjective(chain)
  /\ Range(chain) = {c \in Callers : pc[c] \in InChain}
  /\ saveCache \in [Edits -> [Formats -> Entries \cup {None}]]
  /\ extraction \in [revision : Edits, dom : Edits] \cup {None}
  /\ pc \in [Callers -> Stages]
  /\ \A s \in Savers : pc[s] \in SaverStages /\ ArtefactReady(s)
  /\ \A e \in Editors : pc[e] \in EditorStages
  /\ \A x \in Extractors : pc[x] \in ExtractorStages /\ (pc[x] = "extracting" => got[x] \in Contents)
  /\ asked \in [Callers -> Edits]
  /\ sent \in [Callers -> [dom : Edits, cleaning : BOOLEAN]]
  /\ job \in [Savers -> [format : Formats, key : Edits, art : Entries \cup {None}]]
  /\ got \in [Editors \cup Extractors -> Contents \cup {None}]
  /\ own \in [Editors -> Edits]

(* No acknowledged edit is missing from what a later save writes: whether  *)
(* served from the cache or serialized, queued behind previews or not, an  *)
(* artefact holds every edit answered before its save was requested.       *)
SavesAreFresh ==
  \A s \in Savers : \A a \in Artefacts(s) : a.dom >= asked[s]

(* What the cache holds under the current revision holds every edit that   *)
(* was answered, although keys are taken before the awaits that produce    *)
(* the artefacts and edits complete in between.                            *)
CacheIsCurrent ==
  \A f \in Formats :
    LET entry == saveCache[rev][f] IN
    entry # None => /\ entry.clean.dom >= acked
                    /\ f # "clean" => entry.redline.dom >= acked

(* The redline of a save is never older than its clean artefact: what the  *)
(* clean document shows as done, the redline can show as a change.         *)
RedlineNotOlder ==
  \A s \in Savers : pc[s] = "writing" /\ job[s].format # "clean" =>
    job[s].art.redline.dom >= job[s].art.clean.dom

(* Who queued last is served what it asked for, document.xml cleaned or    *)
(* not, whatever the saves before it write back when they return: while it *)
(* waits that is what the zip holds, and served at once, what was copied.  *)
LastInLineAsAsked ==
  LET asksCleaned == sent[chain[Len(chain)]].cleaning IN
  chain # <<>> => /\ part.marks = ~asksCleaned
                  /\ Len(chain) = 1 => snap.marks = ~asksCleaned

(* No artefact written with clean_bookmarks holds an internal bookmark,    *)
(* although previews with their bookmarks pass through the same zip before *)
(* the save and behind it.  So it is while one tool at a time edits: a     *)
(* call that queues behind a save which waits itself breaks it.            *)
ArtefactsAreClean ==
  \A s \in Savers : \A a \in Artefacts(s) : ~a.marks

(* The preview of an edit has the bookmarks its anchors refer to, as       *)
(* toBuffer has it: a cleaned document.xml is swapped in only for the      *)
(* output of its own call and does not change the session.                 *)
PreviewsSeeAnchors ==
  \A e \in Editors : pc[e] = "previewed" => got[e].marks

(* The preview of an edit holds every edit answered before it began. *)
PreviewsAreFresh ==
  \A e \in Editors : pc[e] = "previewed" => got[e].dom >= asked[e]

(* An extraction cached under the current revision holds every edit that   *)
(* was answered.                                                           *)
ExtractionIsCurrent ==
  Cached => extraction.dom >= acked

(* Every request is answered, whatever else is queued on the zip. *)
EveryRequestAnswered ==
  \A c \in Callers : pc[c] # "idle" ~> pc[c] = "idle"
=============================================================================
