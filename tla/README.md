# Specifications of safe-docx

TLA+ models of the stateful parts of this repository, TLC runs over small
instances, and theorems about the models that TLAPS checks for every value of
their constants. Paths below are relative to the repository unless they name a
`.tla` or `.cfg` file.

To repeat a run: `tlc -workers 2 -config SessionStore.cfg SessionStoreMC.tla`;
to repeat a proof: `tlapm SessionStoreProofs.tla`. `PROJECT.json` lists the
runs, the mutants that show each property can fail, the source lines each
definition translates, the hazards and the findings.

## 1. The system

safe-docx is a set of npm packages around one server. `packages/docx-mcp` is an
MCP server whose tools edit Word documents for a language model;
`packages/docx-core` holds the document model, the zip package and the
operations on them. `odf-core` and `google-docs-core` are two other back ends
behind the same tools. The remaining packages compare documents, convert them,
verify releases and support tests.

| Component | State it keeps | Operations | Interacts with | What makes it hard | Modelled by |
|---|---|---|---|---|---|
| **Session manager and resolver** (`docx-mcp/src/session/manager.ts`, `tools/session_resolution.ts`, `open_document.ts`, `close_file.ts`) | map path → session, map path → pending promise, a tmp directory per session, expiry time, edit revision | resolve, open, reuse, wait for another's open, expire on lookup, close one, clear all | every tool enters through it; the file system | handlers overlap at every await; a leader may fail; close and expiry race with both | `SessionStore`, `FileSessions` |
| **soffice lock** (`docx-core/src/integration/soffice-lock.ts`) | a lockfile and a removal guard, each with pid, token and mtime | acquire, judge stale, steal, clear a dead guard, release | other processes, through the file system only | several processes, no atomic read-and-delete, deaths, pid reuse, partial writes | `SofficeLock` |
| **Serialization and saving** (`docx-core/src/primitives/document.ts`, `zip.ts`, `docx-mcp/src/tools/save.ts`, `ai_revision_guard.ts`, `extract_revisions.ts`) | the in-memory document, `document.xml` in the shared zip, the serialization chain, two caches keyed by edit revision | save, preview an edit, edit, extract revisions | all handlers of a session share one zip and one chain | a swap of a shared part around an await, keys taken before awaits | `SavePipeline` |
| **Comment parts** (`docx-core/src/primitives/comments.ts`, `tools/add_comment.ts`, `delete_comment.ts`) | `comments.xml`, `commentsExtended.xml`, `people.xml` in the zip, markers in the document | add, reply, delete | the same zip | read, await, write of a whole part, three times in one call | `CommentParts` |
| **Document tools** (`docx-mcp/src/tools`, e.g. `batch_edit.ts`, `replace_text.ts`, `insert_paragraph.ts`) | the revision-id counter of the session (`manager.ts:256`); while they run, offsets and paragraph ids held across awaits | look up, seed, try on a copy, apply, report | resolver, preflight, document | stale offsets, partly applied batches, sessions replaced under a batch | `EditTools`, `AtomicEdits`; one step each in `SessionStore` and `SavePipeline` |
| **Tracked changes** (`docx-core/src/primitives/text.ts`, `accept_changes.ts`, `reject_changes.ts`, `accept_ai_edits.ts`) | none: operations on the document | edit tracked or not; accept or reject all, one author's, a selection | every editing tool | nested revisions of several authors, embedded content, paragraph marks, any order | `Redlines`, `TrackedEdits` |
| **Google Docs client** (`google-docs-core`) | a cached document, its revision id, the anchor mapping | open, anchor, replace, insert, format, refetch | a remote service other people use | optimistic writes, lost answers, retries, failed refetches | `GoogleDocs` |
| **ODF editing** (`odf-core`) | one in-memory document | edits, tracked changes, save | resolver | sequential | not modelled |
| **MCP dispatch** (`docx-mcp/src/server.ts`) | none | one handler per request | all tools | handlers are not queued | as the source of overlap in all modules of tools |
| **Comparison, Markdown, generation** | none | transformations of one document | – | data, not control | not modelled |
| **Verifiers, launchers, scripts, site** | none | batch I/O | – | – | not modelled |

### How the parts interact

One JavaScript thread runs the server. The MCP SDK starts a handler per request
and does not wait for it, so two handlers interleave wherever one of them
awaits something that leaves the microtask queue: a file-system call, the
compression of a zip, a timer. A document tool resolves its session (possibly
opening the file, possibly waiting for a handler that is opening it), keeps a
reference to the session object, and from then on never looks it up again,
except that a batch resolves the file again for each of its steps. All
tools of a session share its in-memory document, its zip and its caches.
Nothing locks a session; `SessionManager` has a lock per baseline only.

Several server processes may run at once. The only state they share on purpose
is the soffice lock; LibreOffice's user profile cannot be used twice.

### What would make it incorrect

* Two handlers edit two copies of one file, or an edit that was acknowledged is
  no longer reachable by `save`.
* A handler waits for an open that nobody performs any more.
* A tmp directory outlives everything that knows about it.
* Two LibreOffice launches overlap, or a process deletes a lockfile that
  belongs to its successor, or a dead process pins the lock for ever.
* An edit lands on other text than its caller named, twice, or half of it; a
  batch that passed its checks stops in the middle.
* Rejecting a redline does not give the original back, accepting it does not
  give the edited text, or a selective call touches another author's revision.
* The parts of a package disagree about which comments there are.
* `save` writes, or caches as current, a document without an edit that was
  answered before; a clean artefact contains tool bookmarks; a preview is taken
  of an old document; a result is cached under a newer revision than it shows.

`PROJECT.json` lists these as hazards, each at the line where it bites, with the
properties that would notice.

## 2. Plan

| # | Modules | Status |
|---|---|---|
| 1 | `FileSessions` (abstract), `SessionStore`, `SessionStoreMC`, `SessionStoreProofs` | done |
| 2 | `SofficeLock`, `SofficeLockMC`, `SofficeLockProofs` | done |
| 3 | `SavePipeline`, `SavePipelineMC`, `SavePipelineProofs` | done |
| 4 | `NaturalSets`, `GoogleDocs`, `GoogleDocsMC`, `GoogleDocsProofs`: required revision, retries after lost answers and conflicts, refetch | done |
| 5 | `Redlines` (operators), `RedlinesProofs`, `TrackedEdits`, `TrackedEditsMC`, `TrackedEditsProofs`: editing, accepting and rejecting | done |
| 6 | `AtomicEdits` (abstract), `EditTools`, `EditToolsMC`, `EditToolsProofs`: overlapping tools, revision-id seeding, batches | done |
| 7 | `CommentParts`, `CommentPartsMC`, `CommentPartsProofs`: overlapping read-modify-write of the comment parts | done |
| 8 | Theorems: `BatchIsSimultaneous` of `EditTools` | done |
| 9 | Theorems: the guard-clearing protocol of `SofficeLock`, for two processes | done |

`EditTools` uses the operators of `Redlines` on the documents of its sessions
and implements `AtomicEdits` as `SessionStore` implements `FileSessions`. The
comment calls of `CommentParts` are seen from outside as the `Annotators` of
`SavePipeline`. The plan is carried out. The safety properties that passing runs
check are also theorems, with two exceptions that section 6 explains
(`NoStrandedGuard`, and `ArtefactsAreClean` under a condition on the steps).

## 3. The models

### 3.1 SessionStore

One action is what a handler does between two awaits that leave the microtask
queue; continuations of an already settled promise run in the same turn.

| Model | Code |
|---|---|
| `store` | `SessionManager.sessions` |
| `pending` | `pendingByManager`, the promise of the leader of a path |
| `issued`, `dirs` | ids handed out by `newSessionId`; their `mkdtemp` directories |
| `expired` | sessions with `expiresAt` in the past; `touch` takes them out |
| `edited`, `closed`, `lapsed`, `refused` | what was acknowledged, removed by `close_file`, dropped on lookup, never loaded (histories) |
| `pc`, `op`, `path`, `held`, `waits`, `cleaning` | the locals of each handler |
| `Reuse`, `AwaitLeader`, `BecomeLeader` | the three branches of `resolveSessionForTool` after `canonicalizePath` |
| `LoadFails` … `Install` | `validateAndLoadDocxFromPath`, `createSession`, `finalizeNewSession` |
| `Settle` | settlement of the pending promise, its `finally`, the wake-up of the waiters |
| `Close`, `ClearAll`, `RemoveDir`, `CloseDone` | `clearSessionByPath`, `clearAllSessions`, `cleanupSessionArtifacts` |
| `Expire` | the clock |

A slot of `Calls` serves one request after another. `Openers` are slots that
call `openDocument` directly, as tests and embedding programs can; it is not
registered as a tool.

`FileSessions` is the promise the layer makes to its callers: at most one
session per file, opened only where there is none, never swapped for another,
never coming back. `KeepsPromise` states that `SessionStore` implements it,
with `store` as the current sessions and every session ever looked up as the
known ones.

Abstracted: what a tool does with its session is one step (`UseSession`); every
kind of load error is one (`LoadFails`) before and one (`ParseFails`) after the
directory is made. The canonical path is the key for the whole call;
retargeted symbolic links are outside the model.

### 3.2 SofficeLock

One action per file-system call together with the computation after it. The two
files hold the record of their creator, whether it has been written yet, and
whether the file is older than the threshold that applies to it. `pc` is the
call a process makes next; the other variables are the locals of
`acquireSofficeLock`, `underRemovalGuard` and `clearStaleGuard`.

Time is one bit per file. `LockAges` and `GuardAges` set it only when no live
process relies on the file: a launch is bounded far below `staleMs`, an
open/write pair takes less than the grace period and a guard section is a few
calls against `GUARD_STALE_MS`. A process stopped for longer than that in the
middle of a section is therefore not covered, nor is one whose clock jumps.

What may go wrong in a run is the variable `faults`, which `Init` takes from the
constant `Faults` and nothing changes. `faults.deaths = "outside"` kills a
process anywhere outside its guard section, `"unobserved"` only while nobody has
read a guard record of its, `"none"` never. Deaths inside a section are modelled
by what they leave behind: `faults.left` says which guards the departed process
may have left, written or unwritten ones. `faults.giveUp` lets deadlines pass and
writes fail. `ReusePid` gives the pid of a dead process to a new one or to
another program. Tokens are drawn from those of `Serials` that no variable
refers to, which stands for a fresh UUID.

Not modelled: lease re-entrancy in one process (a counter in memory), the
fallback when the tmp directory is not writable, records of other hosts and
`EPERM` from `kill` (both count as alive), open errors other than `EEXIST`. The
stat and the `kill(pid, 0)` that judge a file are one action.

### 3.3 SavePipeline

One session. The document is the number of edits made to it, so an artefact is
a prefix of the edits, with a bit for the internal bookmarks (`_bk_*`) that
anchor the tools.

| Model | Code |
|---|---|
| `author` | does the session attribute its edits (`session.aiAuthor`, fixed when it is created) |
| `dom`, `rev`, `acked` | edits in memory, `session.editRevision`, the last edit whose tool has answered |
| `part` | `word/document.xml` in the zip |
| `chain`, `snap` | `DocxZip.serialization`: who is queued, and what the head copied |
| `saveCache`, `extraction` | the caches of the session |
| `sent`, `job`, `got`, `asked`, `own`, `pc` | locals of the handlers |
| `ToBuffer` | `DocxDocument.toBuffer` up to its await: write the part, join the chain |
| `Returns`, `Restored`, `Return` | the head's archive is complete; the uncleaned part is written back; the next in turn copies the parts |
| `BeginSave` … `Summarized`, `FailSave` | the awaits of `save`, with and without an author |
| `BeginPreview`, `PreviewSerialized` | `preflightAiRevisionMutation` |
| `ApplyEdit`, `MarkEdited` | a tool that edits, marks and answers in one turn |
| `InsertMarkers`, `CommentWritten` | a tool whose edit spans awaits (`add_comment`, `add_footnote`) |
| `BeginExtract`, `Extracted` | `extract_revisions` with its cache |

Two facts about the event loop matter. When the chain is idle a `toBuffer` call
copies the parts before any other handler can run. When an archive completes,
the continuation of its `toBuffer` (the write-back) runs before the next
serialization of the chain copies the parts, and that before the caller goes
on; so `Return` is one step. JSZip is modelled from outside: it copies the
parts when `generateAsync` starts.

Abstracted: `clean_bookmarks` has its default (true); other zip parts; the
guard against discarding selectively kept revisions; a `toBuffer` that throws;
tools that call `toBuffer` plainly (`compare`, `convert`, `format_layout`)
behave like a preview. An extraction that hits the cache changes nothing and is
left out. `MaxEdits` bounds the edits; a revision takes an edit, so the same
bound on `rev` never bites first.

### 3.4 GoogleDocs

One document of one `GoogleDocsDocument`. A call is a sequence of requests to
the service; each request is sent and answered in two steps, between which the
service applies it, refuses it, fails, or loses the answer.

| Model | Code |
|---|---|
| `service` | the document at Google with its revision and named ranges (external) |
| `session` | `cachedDocument`, `requiredRevisionId`, `anchorMapping` |
| `calls[c].stage` | `edit` (batchUpdate), `load` (`fetchDocument`), `names` (`ensureAnchors`), `reload` |
| attempts | `withRetry` with the limits per kind of error (`Busy`, `Down`, `Conflict`) |
| `outside` | edits of other people (external) |
| `applied`, `missed`, `torn` | auxiliary: how often an edit was applied, where, and computed from which cache |

`NaturalSets` lists a finite set of numbers in ascending order: the newlines of
a document and the paragraphs without an anchor are numbered by it.

Items stand for characters; an inline object is one item but longer as text,
which is what makes text offsets and document indices differ. The service is
assumed to apply a batch at once, to refuse one whose required revision is not
the document's, and to keep a named range on the one character it was put on.
`format_layout` builds its request from the space above and below alone
(`FormatLayout`); given only line spacing it sends nothing and answers with
success all the same (`FormatLinesOnly`, `format_layout.ts:94-116`).
Tabs, tables, export and credentials are left out. `Overlap = FALSE` means that
the caller waits for each answer.

### 3.5 Redlines and TrackedEdits

`Redlines` has no state: documents as paragraphs of items, each inside a path
of insertions, deletions and hyperlinks, and the code's operations as operators:
`TrackedReplace` and `PlainReplace` (`replaceParagraphTextRange` with its
container check, splitting around embedded content and the ends of comment
ranges, which are the markers `Mk` of the model, blanking of whole paragraphs), `TrackedInsert`, `PlainInsert`, `Accept` and `Reject` of a
set of revisions (the merge of paragraphs whose mark goes, removal of emptied
ones) and `Ambiguous` (the refusal of overlapping authors).

`TrackedEdits` drives them: edits of any range of any paragraph, interleaved
with the tools that resolve revisions. `clean` is a twin that receives the same
edits without tracking; `base` is what rejecting must give back; `same` says
that the twin was edited alike, `apart` that a call blanked the only paragraph
or one with markup of the file (`HoldsMarkup`, which counts the opening of an
empty container too). The four documents to start from are plain text around an
object and the end of a comment range, text with another author's revisions, text with a
hyperlink, and a last paragraph whose mark another author inserted. The module
assumes of them only what the code relies on or the tools ask for: paragraph ids
and revision ids name one thing each (`DocsAssumption`), replacement texts are
plain text (`NewsAssumption`), and the editor starts without revisions of its
own (`EditorAssumption`): the tools select by author and would resolve those of
an earlier session with the new ones.

Left out: formatting and run properties, moves, tables and sections, headers
and footnotes. Revision dates are not ordered and so not modelled.

Bookmarks are not represented either. The code removes a pair of bookmarks that
lies in one paragraph whose mark goes (`accept_changes.ts:483-535`) and moves
single ends out of it (`accept_changes.ts:328-407`, `reject_changes.ts:369-463`).
So where such a pair stands in a paragraph with a deleted mark, what is left of
it may depend on the order of selective calls. What the properties and theorems
of `TrackedEdits` say is about documents without bookmarks.

### 3.6 AtomicEdits and EditTools

| Model | Code |
|---|---|
| `sessions`, `current` | every session object of one file so far; the one in `SessionManager.sessions` |
| `next`, `scan` | the session's revision-id counter and its pending seeding (`getRevisionContextForSession`) |
| `GetSession` | `resolveSessionForTool`, in one step (its own awaits are in `SessionStore`) |
| `Match`, `Preview`, `Mutate` | `replaceText` and `insertParagraph`: find the place, try on a copy, apply at that place |
| `Validate`, `Preview`, `StepSession`, `Step` | `batchEdit`: check all steps, rehearse all, then each step from the start |
| `CloseFile` | `closeFile`; calls under way keep the session they have |
| `missed`, `moved`, `crossed`, `goal` | auxiliary: edits applied where others had edited since the match; who was disturbed; batches that left their session; the text a batch should give |

`AtomicEdits` is the promise: an edit changes the visible text at once and where
it was named, or misses inside the paragraph it named because another edit
overtook it. `EditsAreAtomic` maps every step of every call to one such edit or
to nothing, with `View`, the visible text, as the refinement mapping. Matching
is the exact stage; quotes and white space (the looser stages) are left out.

### 3.7 CommentParts

Every `await` on a part of the zip ends an action: a root comment is `Read`,
`InsertMarkers`, `WriteRoot`, `AddAuthor`; a reply `Read`, `WriteReply`, `Link`,
`Ensure`, `AddAuthor`; a deletion `Read`, `FindTarget`, `RemoveThread`.
`comments` is the set of definitions in `comments.xml`, `rows` the entries of
`commentsExtended.xml`, `people` its part, `marks` the ranges and references in
the document with the tracked insertion or deletion around the reference. A
thread is the least set of comments that holds its root and, with a comment, the
replies whose row names it; the code finds it by a work list. The file has a
comment, a reply to it and a comment without a paragraph id. `settled` records
(auxiliary) comments whose call overlapped no other.

Left out: the content-type and relationship entries of new parts, the trial on a
copy (`EditTools`), where in the text a marker goes, `updateCommentBody`, saves
in the middle (`SavePipeline`).

## 4. The runs

All runs finish within the time given on two workers; sizes are distinct
states.

| Run (cfg) | Instance | Shows | Size |
|---|---|---|---|
| `SessionStore` | 3 slots, 1 file, 4 sessions | `TypeOK`, `PendingIsCurrent`, `SingleFlight`, `HandlesAreCurrent`, `EditsStayReachable`, `TmpDirsAccounted`, `NeverDisplaced` | 1.6 M, ½ min |
| `SessionStoreLive` | 2 slots, 2 files, 3 sessions, fair | `EveryCallAnswered`, `KeepsPromise` | 1 min |
| `SofficeLock` | 2 processes and a departed one; either deaths, pid reuse, deadlines and failed writes, or a written guard left by the departed one | `TypeOK`, `MutualExclusion`, `RemoversSerialized`, `LockIsMine`, `NoStrandedGuard` | 0.3 M |
| `SofficeLockLive` | 2 processes, deaths, fair | `DeadHolderReclaimed` | 0.2 M, 2 min |
| `SavePipeline` | 1 save, 1 edit, 1 comment; with and without author; 2 edits | `TypeOK`, `SavesAreFresh`, `CacheIsCurrent`, `RedlineNotOlder`, `LastInLineAsAsked` | 1.9 M, ½ min |
| `SavePipelineLive` | 1 save, 1 editing tool, 1 extraction; with and without author; 2 edits, fair | `ArtefactsAreClean`, `EveryRequestAnswered` | 80 k |
| `GoogleDocs` | 3 calls in turn, 1 edit of others, 1 retry of each kind, two paragraphs with an object | `TypeOK`, `AppliedOnce`, `OnlyTornCachesMiss`, `CacheMatchesRevision`, `AnchorsAreUnique` | 0.5 M |
| `TrackedEdits` | 4 documents, 3 edits of any range, any order of accepting and rejecting | `TypeOK`, `RejectRestores`, `RejectAllIgnoresAI`, `AcceptIsTheUntrackedEdit`, `ResolvedInAnyOrder` | 89 k, 2 min |
| `EditTools` | 2 callers, 2 calls, 1 close, 9 requests, an author | `TypeOK`, `CounterIsAhead`, `RejectGivesTheFile`, `BatchIsSimultaneous`, `EditsAreAtomic` | 43 k, 1 min |
| `CommentParts` | 2 callers, 3 calls, 1 accept or reject, an author | `PartsAgree`, `SettledCommentsStay` | 0.6 M, 1 min |

A handler slot is reused, so three slots mean three requests at a time, not
three requests. Three is what the interesting interleavings need: a leader, a
waiter and a closer; a save between two other users of the zip. For the lock two
live processes are enough next to the departed one: a waiter judges the old
lock, the other removes it and creates its own, and the first must notice. With
three processes and no failures the same invariants hold on 0.2 M states, and
the theorems cover any number. Four sessions allow one to be closed or expired
while two more are opened. The
bounds restrict which requests may start, never a request in progress:
`SessionStore` keeps a session in reserve for every active call, and the edits
of `SavePipeline` stop before an edit begins. Handlers, paths and processes of
one kind are interchangeable and symmetry is used wherever no liveness property
is checked.

Two overlapping calls and one before or after them are what `EditTools` and
`CommentParts` need: one that has looked and one that writes; a third call of
comments shows what is left of a comment that was complete before. The requests
of `EditTools` are chosen so that two steps touch the same words, one makes the
text of another ambiguous, and one inserts next to the other. In `TrackedEdits`
three edits allow one to blank a paragraph, one to insert into it and one to
edit what was inserted; every range of every paragraph is tried. In `GoogleDocs`
three calls are an open, an edit and an edit computed from what the first left.
`CommentParts` with `Tracked = FALSE`, and with one caller and four calls, gives
the same.

Deadlock is checked in the runs of the session store, the lock and the save
pipeline: a system in which nobody can move would be reported. The other runs
make a bounded number of calls and then really stop.

### Fairness

`SessionStoreLive` and `SavePipelineLive` assume weak fairness of each handler's
own next step: the event loop runs every settled continuation and every
file-system or compression call ends, with success or failure. No fairness is
assumed of new requests, of expiry or of edits. `SofficeLockLive` assumes that
the operating system runs every process that exists and that time passes (a file
nobody relies on grows old); deaths, pid reuse and new launches are not fair.
Deadlines and failing writes (`giveUp` of `DeathsOnly`) are left out of the liveness run: a
deadline is a legitimate end of waiting, and an endless supply of processes that
take the guard and fail to write it would starve any waiter.

## 5. Findings

Two runs have a property that TLC refutes; the quotations they contradict are in
`PROJECT.json`.

| Run | Property | What happens |
|---|---|---|
| `GoogleDocsFailedRefetch` | `EditsHitTheirTarget` | A batch is applied and its new revision stored, then the document cannot be read again. The next edit sends the indices of the old document with the new revision, which the service accepts (`document.ts:226`). |
| `SavePipelineTwoPreviews` | `PreviewsSeeAnchors` | A preview is being serialized, a second waits behind it, and a save writes the part without bookmarks (`document.ts:1910`) and joins the line. The first preview has nothing to write back, so the second is taken of the cleaned part: the bookmarks its paragraph ids refer to are missing. |

Other instances of the same modules show where the remaining assumptions bite.
They are not runs of the project; what to change in the cfg or the property is
given.

| Instance | Property refuted | What happens |
|---|---|---|
| `SessionStore.cfg` with `Openers = {c1, c2}` | `TmpDirsAccounted` | Two overlapping direct `openDocument` calls both find no session (`manager.ts:342`); the second overwrites the first, whose directory stays. No registered tool gets there. |
| `SofficeLock.cfg` with `Faults` = `{EarlyFault}`, without the condition on `faults.left` in the property | `NoStrandedGuard` | One waiter judges the guard of the dead process; the other clears it and creates its own; the first renames that one aside, its owner finds none and leaves, and the first puts it back. It names a live process for ever (`soffice-lock.ts:185`), so two waiters are enough for something worse than `soffice-lock.ts:35` allows ("the worst outcome is two concurrent soffice launches"). Without a left guard it takes three processes and `deaths = "outside"`. |
| `SofficeLockLive.cfg` with `left = {TRUE}` | `DeadHolderReclaimed` | A guard left by a dead process whose pid is reused is never cleared (`soffice-lock.ts:210`). |
| `SofficeLock.cfg` with `Faults` = `{EarlyFault}` and a third process, or with `giveUp = TRUE`, or with deaths `"unobserved"` | `RemoversSerialized` | The residual overlap that `soffice-lock.ts:33-36` describes: a fresh guard is renamed aside by a slow waiter while another is created. |
| `SavePipelineLive.cfg` with `Extractors = {}` and `INVARIANTS PreviewsAreFresh` | `PreviewsAreFresh` | The write-back of a save replaces the part of a queued preview, which then lacks an answered edit (`document.ts:1912`). |
| `SavePipelineLive.cfg` with `Savers = {}` and `INVARIANTS ExtractionIsCurrent` | `ExtractionIsCurrent` | An extraction is stamped with the revision of the moment it is stored, not of the clone it was computed from (`manager.ts:613`). |
| `SavePipelineLive.cfg` with `Savers = {s1, s2}`, `Extractors = {}` | `CacheIsCurrent` | Two overlapping saves: the write-back of the first replaces the newer part of the second, whose stale artefact is cached as current (`document.ts:1912`). |
| `SessionStore.cfg` with `INVARIANTS TmpDirsBounded` | `TmpDirsBounded` | An expired session is deleted on lookup without cleaning up; its directory, with a copy of the document, stays (`manager.ts:495`; `docx-mcp/assumptions.md:40` claims bounded artifacts). |
| `SofficeLock.cfg` with `Faults` = `{EarlyFault}` but `left = {FALSE}` | `RemoversSerialized` | An abandoned, half-written guard: one waiter throws away the other's fresh guard because it does not parse yet (`soffice-lock.ts:183`). |
| `GoogleDocs.cfg` with `Overlap = TRUE` | `OnlyTornCachesMiss`, `AppliedOnce`, `CacheMatchesRevision`, `AnchorsAreUnique` | A retry reads the revision another call has stored since, and is accepted with indices of the older document, or a second time; two calls give the same name. |
| `GoogleDocs.cfg` with `INVARIANTS OkMeansApplied` | `OkMeansApplied` | `format_layout` given only `line_twips` sends nothing (`format_layout.ts:60`, `103`) and answers "Layout formatting applied." (`format_layout.ts:114`). |
| `GoogleDocs.cfg` with `Doc0 <- ObjectFirst` | `OnlyTornCachesMiss` | An inline object is one index wide but counts as `[IMAGE]` in the text, so text behind it is replaced beside itself. |
| `TrackedEdits.cfg` without `~apart` in the property | `AcceptIsTheUntrackedEdit` | Blanking a last paragraph whose text is all in a hyperlink, one with a deletion of others, or the only one before an insertion: tracked and untracked disagree on whether the paragraph survives, against `text.ts:975` ("so accept-all of the tracked edit equals the untracked edit"). |
| `TrackedEdits.cfg` without the condition on the last mark | `ResolvedInAnyOrder` | An emptied last paragraph is removed when its mark is resolved with its text and stays when it is resolved later. |
| `TrackedEdits.cfg` without the condition on the last mark | `RejectAllIgnoresAI` | The file ends in a paragraph whose mark another author inserted, and a paragraph is added after it. Rejecting everything leaves that paragraph with the text of the one before: same text, other paragraph id. |
| `EditTools.cfg` with `Miss` removed from `AtomicEdits` | `EditsAreAtomic` | The offsets of an edit are older than its awaited trial; an edit that overtook it moves the text (`replace_text.ts:436`; `assumptions.md` A18 calls concurrent operations deterministic). |
| `EditTools.cfg` with `Tracked = FALSE` | `BatchIsSimultaneous` | Without an author there is no rehearsal (`ai_revision_guard.ts:183`), and a batch nobody disturbs stops in the middle (`assumptions.md` A13: "Strict mode failures are transactional"). |
| `EditTools.cfg` with `MaxCalls = 3`, without `~crossed` | `CounterIsAhead` | After `close_file` the rest of a batch goes to the reopened session with the revision counter of the old one (`batch_edit.ts:447`). |
| `CommentParts.cfg` with `settled` of every comment | `SettledCommentsStay` | Two overlapping `add_comment` calls take one id; the first definition is lost, both sets of markers stay (`comments.ts:416`). |
| `CommentParts.cfg` without `~rejected` | `PartsAgree` | Rejecting removes the reference of an added comment but not its range and definition; rejecting a deletion brings back a reference whose id has been given again. |
| `CommentParts.cfg` with a comment of two paragraphs | `PartsAgree` | `findCommentParaId` takes the first paragraph, Word the last: deleting it leaves its reply, against `comments.ts:1279` ("deleting any node also deletes all descendants"). |
| `SavePipeline.cfg`, which has two editing tools | `ArtefactsAreClean` | A preview writes the part with bookmarks over the cleaned part of a queued save (`document.ts:1910`). |
| `SavePipeline.cfg` with `Savers = {s1, s2}` | `LastInLineAsAsked` | The write-back of the first save puts bookmarks into the part that the second, behind it, has just cleaned. |

## 6. The proofs

All theorems hold for every number of handlers, paths, processes and edits, but
the one on clearing a guard, which is about two processes and false for three. What
TLC checks on an instance and TLAPS proves in general is the same formula.

**SessionStoreProofs.** `TypeCorrect` needs no assumption but that of the
constants. The others assume `ResolverOnly == Openers = {}`, that documents are
opened through the resolver, as every registered tool does; without it two
overlapping direct opens break them (section 5). The inductive invariant is
built in layers. `PendingIsCurrentHolds` needs it not: whoever opens, a
registered promise is that of a handler now opening the path, and a handler that
waits does so for the registered one. `Protocol` ties the pending map to the
handlers: a registered promise has a leader at work on that path, every opener
is registered, a file being opened has no session, and waiters wait for the
registered one. It gives `SingleFlightHolds` and `NeverDisplacedHolds`.
`Bookkeeping` adds which ids may be where: an id in creation is known to nobody
else, ids beyond `issued` are unused. On top of it, `Handles` says that a
handler that holds a session holds its file's or one that was closed or dropped
(`HandlesAreCurrentHolds`, `EditsStayReachableHolds`), and `Accounted` that each
directory has an owner (`TmpDirsAccountedHolds`). `KeepsPromiseHolds` maps every
step to one of `FileSessions`: `Install` to `Open`, lookups of expired sessions,
`Close` and `ClearAll` to `Drop`, all others to a stutter; that `Install` meets
the guard of `Open` is what `Protocol` and `Bookkeeping` are needed for.

**SofficeLockProofs.** `LockTypeCorrect` covers every kind of death and failure.
`MutualExclusionHolds`, `LockIsMineHolds` and `RemoversSerializedHolds` assume
`GuardsAreReturned`, a condition on `faults`: no guard was left behind by a dead
process, and no process dies while another is judging a guard record of its.
Section 5 shows what happens without it. `GuardInv` says that the guard
file is that of the process in its section and that nobody ever judges a guard
stale, so that sections exclude each other. `LockInv` then says that a lockfile
its creator relies on is that creator's, and that a process about to remove the
lockfile has confirmed, under the guard, that it is the one it judged or its
own. Neither is inductive without the other parts: mutual exclusion alone does
not survive a steal, and a steal is only right because removers exclude each
other. That is all `LockInv` needs of the guard (`StepKeepsLock` assumes
`RemoversSerialized`), so it serves a second time.
`TwoWaitersClearTheGuard` starts with the guard of a process that died in its
section and assumes `TwoWaiters`: at most two processes, no further death, no
deadline and no failed write. The source says that an overlap needs two clearers
and a third that creates a guard (`soffice-lock.ts:33`); TLC finds that overlap
with three processes, and the theorem says that with two there is none. Its
invariant `ClearInv` lets a guard be renamed aside while its owner is in its
section. Then there is none in place, and it is put back: what a clearer drops
is the guard left behind (`JudgedInv`). A clearer that read a file before it was
there, and found another, old one when it judged, is the case that makes this
more than one line: nobody can enter a section until it has put that one back.
The created but unwritten guard of a dead process is refuted (section 5).

**SavePipelineProofs.** `PipelineTypeCorrect` needs no assumption. It includes
that the chain contains exactly the handlers that await an archive, once each.
`SavesAreFreshHolds`, `CacheIsCurrentHolds` and `RedlineNotOlderHolds` assume
`OneSaver`, that saves do not overlap each other (any number of other handlers
may); section 5 shows why. The invariant `Fresh` says, of the one
saver, what it wrote to the zip is there or has been overwritten by something
newer or is already copied (`StillThere`), that while its key is still the
current revision nothing has been answered since it was taken (`KeyHolds`), and
that what it has produced or found holds the edits it was asked to save
(`Produced`); and of the cache that entries of the current revision hold every
answered edit (`CacheWhole`). The properties do not say why a queued
serialization will be fresh; `StillThere` does, and it is what a second saver's
write-back breaks.

The other two theorems are about bookmarks, for one save at a time and any number
of other handlers. `LastInLineHolds`: while calls wait for their archives, the
part is as the last one that joined wrote it, with bookmarks or without. Calls
ahead of it return one by one; only one that asked for a cleaned part writes
anything back, and that is the one saver, so all behind it want the bookmarks that
it writes back (`ReturnFindsLine`). What is given to those ahead of the last is
another matter: each copies the part when its turn comes. `AgreeingLineSuffices`
says when that is harmless: `LineAgrees`, every call behind the head asked what
the last in line asked. As long as this holds, no artefact contains bookmarks and
no preview lacks them. The code does not see to it. The run `SavePipelineTwoPreviews` and the
second editor of section 5 are what happens when a save joins behind a preview
and when a preview joins behind a save; with one editor at a time
`ArtefactsAreClean` is checked by `SavePipelineLive`.

**CommentPartsProofs.** `SettledCommentsStayHolds` is about any number of
callers and any overlap. It assumes `SingleParagraph`, that the comments of the
file have one paragraph each (the exception is in section 5). A part is read,
kept over an await and written back whole, so `Guarded` speaks of every version
of a part that may still become the part (`Versions`, `RowVersions`), not of the
part alone: each names an id once, each has the settled comments (`Kept`), and
some set of paragraphs with the settled ones in it, closed towards the roots of
their threads, is out of reach of every deletion under way (`Reach`).
`PartsAgreeHolds` also assumes `RowsNameComments`, that the rows of the file
name its comments. `Tidy` says, for each place a call can be at when no other
ever overlapped it, what the parts still lack. A row whose parent goes is in the
thread that goes, because the thread is closed.

**GoogleDocsProofs.** `TypeCorrectness` has no assumption: whatever calls
overlap, a batch fits the document it is made for, so ids stay unique, the last
newline stays and every answer can be read. It rests on lemmas about the
operators: a spliced sequence (`Splice`), what a batch does to items and ranges
(`AppliedIsWellFormed`), what `Parse` reads (`ParseIsTyped`), fresh names
(`AllocateIsFree`). The other theorems assume `~Overlap`, the caller waits for
each answer; section 5 shows that each is false without it. Other people's
edits, lost answers and retries are not restricted. `Serial` says that one call
at most is under way, and `StepsWithoutOverlap` reduces a step to one of a few
kinds. `EditsAreCounted`: an edit that has been applied once requires, if it is
sent again, a revision that is gone (`AppliedOnceHolds`; a call of
`FormatLinesOnly` answers with success and has nothing to apply). `CacheInv`: what an
answer under way will make of the cache is what the service has, if the service
has not moved on since (`CacheMatchesRevisionHolds`); it needs that parsing what
was read and patching in the names just given is the same as parsing the
document with those names. `NamesInv`: a session that requires the current
revision knows every name of the document, so new names differ from all of them
(`AnchorsAreUniqueHolds`). `TargetInv`: a request that may still be accepted
hits in the document as it is what its caller named. It does when it is made,
because then the cache is that of the document and a place in the text of a
paragraph is an index of its items; after that the document changes only
together with its revision, and a request that requires the old one is refused
(`OnlyTornCachesMissHolds`). A place in the text is an index only if no inline
object comes before it, so this theorem also assumes `NoObjects`; section 5
shows it false of a document that begins with one.

**RedlinesProofs.** Lemmas about the operators on documents: which revisions an
edit puts into a document. A document has its revisions in a set `E` when every
element of every path and every mark is in `E`; documents are monotone in it
(`DocumentsGrow`), and finite in their revisions (`RevisionsAreFinite`). An
edit adds only elements of its author with ids from `next` up to the counter it
returns (`TrackedReplaceAdds`, `TrackedInsertAdds`; the untracked edits add
none): the stretches of a deletion and of an insertion take one id each, and
the paragraph mark one more. The other half says what is visible after a tracked
replacement: the text before the range, the new text and the text behind it
(`TrackedReplaceShows`), wherever embedded content, markers and deleted text lie in
between. The last part is about rejecting. `Over(d, from, by)`: some map leads
from the paragraphs of `from` to those of `d` and from their items to theirs, in
order; what it reaches differs by deletions of `by` around text and on marks,
everything else in `d` is an insertion of `by`. A document is over itself
(`OverItself`), tracked edits of `by` keep it over what it was over
(`ReplacedOver`, `InsertedOver`), and rejecting what `by` did gives back what was
there (`RejectRestores`): inserted items go, the deletions around what stays are
removed, and each inserted paragraph joins the next one with nothing in it.

**EditToolsProofs.** `TypeCorrect` and `CounterIsAheadHolds` are about any
number of callers and of overlapping edits, batches and closes, any requests and
any document with any revisions, with and without an author. Two invariants are
inductive together. `Shape` is the type, with what a call needs where it is
(`Placed`): a session, a counter to take ids from, a range as long as the text
it names, and it bounds the edits that came late by the calls that were made.
`Counting` has the ids: as long as the counter of a session is unset its
document has only the revisions of the file, once it is set it is above every id
of the document, and a seed that a scan has computed and not yet stored is above
every id too, because nothing can have been written since (`Ahead`,
`SeedIsAhead`). An edit keeps that since it takes its ids from the counter and
leaves the counter behind them. Sessions in which a batch of an older session
went on are exempt, as in the property; section 5 shows that they must be.

`EditsAreAtomicHolds` is the refinement: with an author, every step of every
call is an edit of `AtomicEdits`, a counted miss, an opening or a stutter. A
batch step and an insertion are atomic because they look their paragraph up in
the action that edits it. A standalone replacement uses the range it found two
awaits earlier, so a third invariant, `Looking`, says that as long as the call
has not learned of an edit of its paragraph the text is still found once, at
that range: no other edit touches the paragraph (`EditLeavesOthers`), and an
inserted paragraph has an id of its own. Leaving out what old and new text have
in common does not change the outcome (`TrimmedPut`). The theorem assumes
`DistinctIds(File)`, that no two paragraphs of the file have one id:
`insertParagraphBookmarks` (`bookmarks.ts:328`) gives every paragraph without a
name one that is not used yet (`deriveDeterministicJrParaName`,
`bookmarks.ts:66`), and names that come with a file are unique unless some other
program has copied one.

`RejectGivesTheFileHolds` rests on `Restoring`: every document is the file with
edits of the author (`Over`), whose ids are not below the first id that the file
leaves free, and so are every counter and every seed. Here no session is exempt:
where a batch of an older session writes with its own counter (`crossed`) the
ids may collide with others of the author, but never with one of the file, and
the selection is by author. So all that is selected is the author's and nothing
of the file is (`RejectRestores`). Beside `DistinctIds(File)` the theorem assumes
that no revision of the file is by the session's author: rejecting by author
would take it away too, as `accept_ai_edits.ts` means it to.

`BatchIsSimultaneousHolds` is about a batch of any length, in any order of its
steps. The property compares the end of the batch with the text it was checked
against, so the invariant, `InOrder`, says what holds on the way, for a batch
nobody has disturbed: its session is the open one; between the check and the
trial the text is still the one it accepted and `goal` is what it means to
do to it (`Meant`); and from then on it is under way (`UnderWay`). This is the
heart of it: `Reaches(w, d, steps, n)` says that `w` is what the first `n` steps
make of `d`. Each paragraph of `d` shows the text in which the ranges of these
steps, as they were found in `d`, are replaced at once, token by token
(`Substituted`), and each token that no range covers is still in a run under the
same parent (`Tells`); the other paragraphs are those inserted, in their places.
A later step's range is disjoint from the earlier ones (`Acceptable`), so its old
text stands in `w` where the tokens before it have moved to (`Shifted`,
`StepStands`). What a step still needs is that the earlier steps have not made a
second occurrence, and that its range lies under one parent: `Clear`, a condition
on `d` alone. That is what the trial finds out, because it reaches the same
texts on its copy (`TriedNext`, `RehearsedIsClear`), although it replaces the
whole range where the edit leaves common ends alone (`CutsInside`). So no step
fails, and each reaches one further (`ClearCanBeDone`, `StepReaches`). The theorem
assumes an author, without which there is no trial and the property is false
(section 5), and `DistinctIds(File)` as above.

**TrackedEditsProofs.** `Types`, `Restores`, `IgnoresAI`, `OrderIsFree` and
`AcceptsTheEdit` are the five properties of `TrackedEdits`, for any documents,
any texts, any number of edits and any order of editing and resolving; the
documents of the model have no bookmarks (section 3.5). They stand on three inductive invariants, each with the one before:

* `Shape`: the type of the three documents, unique ids, and that `next` is above
  every revision id. The merge of paragraphs keeps it because what it makes has
  the ids and elements of what it is made of (`MergedUpTo`).
* `Edited`: `doc` is `base` with edits of the editor (`Over`) and `base` has
  none of the editor's. Rejecting by author then gives `base` back (`Restores`).
  Rejecting everything is rejecting the editor's revisions and then the rest
  (`EndsTwice`), so it gives what rejecting everything in `base` gives
  (`IgnoresAI`). The two differ at most in the paragraph that is left over at the
  end, which is why the property has its condition. `ResolvedInAnyOrder` needs
  only `Shape`: both orders give what resolving the union at once gives
  (`ResolvedInEitherOrder`).
* `Paired`: while the twin was edited alike (`same` and not `apart`), a set of
  ids holds exactly the editor's revisions, those to come included, and an
  increasing map leads from each paragraph of `clean` to one of `doc` that
  becomes it once these are accepted (`Twins`). Paragraphs of `doc` that are not
  reached are emptied ones with a deleted mark. `AcceptIsTheUntrackedEdit` itself
  is not inductive: it speaks of texts, and an edit needs to find the same
  paragraph, at the same offsets, in both documents. Nor would it do to pair the
  two documents with everything accepted, because the next edit may lie inside a
  deletion or an insertion of somebody else.

The lemmas about the operators are the last sections of `RedlinesProofs`.
Accepting a tracked replacement gives what the replacement without tracking gives
(`ReplaceTaken`, `BlankAlike`), because what accepting takes away has no visible
text and the two bodies are cut at corresponding places (`PlaceTaken`,
`SplicedTaken`). An edit of twins leaves twins (`ReplacedTwins`, `InsertedTwins`),
and so does accepting everything (`TwinsAccepted`), whose merges run alike in
both: an emptied paragraph joins the next with nothing in it (`MergesAlike`,
`AcceptedAlike`).

The lemmas about `Ascending`, which lists a finite set of naturals in order, are
at the head of the modules that need them. Induction over finite sets, and over
the length of a document, is by a smallest counterexample (`WFMin`), since the
library's induction rules take an operator as parameter.

Only model-checked: all liveness (TLAPS 1.4.5 proves no fairness or `ENABLED`
reasoning); `OnlyTornCachesMiss` of documents with objects, whose truth depends
on where they are; and `NoStrandedGuard`: under `GuardsAreReturned` no guard is
ever judged stale, so a theorem would not meet the case that matters, and beyond
that assumption it is false for three processes (section 5).

What a lemma has to say of documents, texts or batches of every length is
written for that as a recursive function of how much of it has been done: the
merge of paragraphs (`MergedUpTo` of `Redlines`, with what is left of a sequence
by its places in ascending order, `Picked`), the text that the first tokens
become, the paragraphs inserted by the first steps and the trial of them
(`SubstitutedUpTo`, `InsertedUpTo`, `RehearsedUpTo` of `EditTools`). Such a lemma
is proved by the least place at which it fails.

## 7. Not modelled

The transformations of whole documents: comparison, Markdown, generation and
styles are pure functions of hundreds of rules over XML, without a state that
could be interleaved; a model of them would be their transliteration. The other
document tools (footnotes, layout, formatting, numbering, sections, reading and
searching), formatting of responses, path policy and archive limits (each one
failing step), the ODF back end, command-line verifiers, scripts and the web
site. The largest part of the repository by lines is of this kind.
`PROJECT.json` gives the reason for each. Sections 3.1 to 3.7 list what is left
out of the parts that are modelled.
