------------------------------ MODULE GoogleDocs ------------------------------
(***************************************************************************)
(* The Google Docs client of google-docs-core and the docx-mcp tools that  *)
(* use it: a document is fetched and cached, edits are computed from the   *)
(* cache as index ranges, sent as one batchUpdate that requires a revision *)
(* (GoogleDocsDocument, document.ts), and retried by withRetry (errors.ts).*)
(*                                                                         *)
(* The service is external, modelled by what the client relies on: a batch *)
(* is applied at once if the document still has the required revision and  *)
(* is refused otherwise; other people edit the document; an answer may be  *)
(* an error although the batch was applied.  A named range is attached to  *)
(* one character and disappears with it.                                   *)
(*                                                                         *)
(* Text is a sequence of tokens.  Indices count items from 1 where the     *)
(* service counts UTF-16 units; a paragraph ends with its newline.         *)
(***************************************************************************)
EXTENDS Naturals, Sequences, FiniteSets, SequencesExt, NaturalSets

CONSTANTS
  MaxCalls,   \* bounds the tool calls made on the document
  Tokens,     \* pieces of text to find or to put
  NL,         \* the newline that ends a paragraph
  Obj,        \* an inline object: one index wide, shown as a longer text
  Doc0,       \* the items of the document when first opened
  None,       \* nothing (null)
  Busy, Down, Conflict,  \* retries allowed after 429, after 500 and 503, after 409
  MaxOutside, \* bounds the edits of other people
  Overlap     \* may a call start before the previous one is answered?

Calls == 1..MaxCalls

ASSUME GoogleDocsAssumption ==
  /\ MaxCalls \in Nat
  /\ NL \notin Tokens /\ Obj \notin Tokens /\ None \notin Nat
  /\ Busy \in Nat /\ Down \in Nat /\ Conflict \in Nat /\ MaxOutside \in Nat
  /\ Overlap \in BOOLEAN
  /\ Doc0 \in Seq(Tokens \cup {NL, Obj}) /\ Doc0 # <<>> /\ Last(Doc0) = NL

VARIABLES
  service,  \* the document at Google: doc, rev, names; next numbers its items and ranges
  session,  \* the GoogleDocsDocument: cache, required revision, anchorMapping
  calls,    \* call -> its operation and where it awaits
  outside,  \* edits made by other people
  applied,  \* call -> how often the service applied its edit
  missed,   \* edits applied elsewhere than where they were aimed, torn or not
  torn      \* the cache is older than the last edit, because its refetch failed

vars == <<service, session, calls, outside, applied, missed, torn>>

(***************************************************************************)
(* The document as the service keeps it and as the client parses it.       *)
(***************************************************************************)
Ends(doc) == {i \in DOMAIN doc : doc[i].tok = NL}

(* The first item of the paragraph that ends at end. *)
StartOf(doc, end) ==
  CHOOSE s \in 1..end : s - 1 \in Ends(doc) \cup {0} /\ \A i \in s..(end - 1) : i \notin Ends(doc)

(* The newline of the paragraph that holds item i. *)
EndOf(doc, i) == CHOOSE e \in Ends(doc) : e >= i /\ ~\E f \in Ends(doc) : i <= f /\ f < e

(* extractParagraphText: an inline object is one index wide but is shown   *)
(* by a placeholder of several characters.                                 *)
Shown(tok) == IF tok = Obj THEN <<Obj, Obj>> ELSE <<tok>>
TextOf(doc, s, e) == FlattenSeq([i \in 1..(e - s) |-> Shown(doc[s + i - 1].tok)])

NamesIn(srv, s, e) == {r \in srv.names : \E i \in s..e : srv.doc[i].id = r.at}

(* findAnchorForParagraph: the first named range that starts inside. *)
AnchorIn(srv, s, e) ==
  LET names == {r.name : r \in NamesIn(srv, s, e)} IN
  IF names = {} THEN None ELSE CHOOSE n \in names : \A m \in names : n <= m

(* fetchDocument's paragraphs. *)
Parse(srv) ==
  LET ends == Ascending(Ends(srv.doc))
      para(e) == LET s == StartOf(srv.doc, e) IN
        [start |-> s, end |-> e, text |-> TextOf(srv.doc, s, e), anchor |-> AnchorIn(srv, s, e)]
  IN [k \in DOMAIN ends |-> para(ends[k])]

(* A bug: names counted from the size of the mapping, whoever uses them. *)
AllocateUnchecked(count, start, occupied) == [i \in 1..count |-> start + i - 1]

(* allocateAnchorNames: the first count numbers from start on that are free. *)
Allocate(count, start, occupied) ==
  LET free == {n \in start..(start + count + Cardinality(occupied)) : n \notin occupied}
  IN SubSeq(Ascending(free), 1, count)

(***************************************************************************)
(* A batch: cut items from index at, put tokens there, and name ranges.    *)
(***************************************************************************)
NoRequest == [at |-> 1, cut |-> 0, put |-> <<>>, names |-> <<>>]

Fresh(srv, put) == [i \in DOMAIN put |-> [id |-> srv.next + i, tok |-> put[i]]]

(* The service refuses (400) what does not fit the document. *)
Fits(srv, r) ==
  /\ r.at \in DOMAIN srv.doc /\ r.at + r.cut <= Len(srv.doc)
  /\ \A i \in DOMAIN r.names : r.names[i].at \in DOMAIN srv.doc

Applied(srv, r) ==
  LET doc == SubSeq(srv.doc, 1, r.at - 1) \o Fresh(srv, r.put)
               \o SubSeq(srv.doc, r.at + r.cut, Len(srv.doc))
      named == {[rid |-> srv.next + Len(r.put) + i, name |-> r.names[i].name,
                 at |-> srv.doc[r.names[i].at].id] : i \in DOMAIN r.names}
  IN [doc |-> doc,
      rev |-> srv.rev + 1,
      names |-> {n \in srv.names \cup named : \E i \in DOMAIN doc : doc[i].id = n.at},
      next |-> srv.next + Len(r.put) + Len(r.names)]

(***************************************************************************)
(* Init: nobody has opened the document here.                              *)
(***************************************************************************)
Closed == [open |-> FALSE, cache |-> <<>>, required |-> None, mapping |-> {}]

Idle == [op |-> None, pc |-> "idle", stage |-> "edit", aim |-> None, find |-> None,
         request |-> NoRequest, attempt |-> 0, answer |-> None, paras |-> <<>>, own |-> TRUE,
         occupied |-> {}]

Init ==
  /\ service = [doc |-> [i \in DOMAIN Doc0 |-> [id |-> i, tok |-> Doc0[i]]],
                rev |-> 0, names |-> {}, next |-> Len(Doc0)]
  /\ session = Closed
  /\ calls = [c \in Calls |-> Idle]
  /\ outside = 0
  /\ applied = [c \in Calls |-> 0]
  /\ missed = {}
  /\ torn = FALSE

Active(c) == calls[c].pc \notin {"idle", "ok", "error"}

(* Calls are numbered in the order in which they begin. *)
MayBegin(c) ==
  /\ calls[c].pc = "idle" /\ \A d \in 1..(c - 1) : calls[d].pc # "idle"
  /\ Overlap \/ ~\E d \in Calls : Active(d)

Begin(c, op, stage, aim, find, request) ==
  calls' = [calls EXCEPT ![c] = [Idle EXCEPT !.op = op, !.pc = "send", !.stage = stage,
                                 !.aim = aim, !.find = find, !.request = request]]

(* resolveGDocsSessionForTool: the first call loads the document and       *)
(* anchors its paragraphs; others join it.                                 *)
Open(c) ==
  /\ MayBegin(c) /\ ~session.open
  /\ ~\E d \in Calls : Active(d)
  /\ Begin(c, "open", "load", None, None, NoRequest)
  /\ session' = Closed
  /\ UNCHANGED <<service, outside, applied, missed, torn>>

Anchored == {k \in DOMAIN session.cache : session.cache[k].anchor # None}

(* The index a match at offset o of the shown text is sent with. *)
MatchAt(para, o) == para.start + o - 1

(* GoogleDocsDocument.replaceText: the first occurrence in the cached text. *)
ReplaceText(c) ==
  /\ MayBegin(c) /\ session.open
  /\ \E k \in Anchored, find \in Tokens, put \in {<<>>} \cup (Tokens \X Tokens) :
       LET para == session.cache[k] IN
       /\ find \in Range(para.text)
       /\ LET o == CHOOSE o \in DOMAIN para.text :
                     para.text[o] = find /\ \A p \in 1..(o - 1) : para.text[p] # find
          IN Begin(c, "replace", "edit", para.anchor, find,
                   [NoRequest EXCEPT !.at = MatchAt(para, o), !.cut = 1, !.put = put])
  /\ UNCHANGED <<service, session, outside, applied, missed, torn>>

(* A bug: AFTER inserts behind the newline of the anchor paragraph. *)
InsertBehind(para, position) == IF position = "BEFORE" THEN para.start ELSE para.end + 1

InsertIndex(para, position) == IF position = "BEFORE" THEN para.start ELSE para.end

(* GoogleDocsDocument.insertParagraph. *)
InsertParagraph(c) ==
  /\ MayBegin(c) /\ session.open
  /\ \E k \in Anchored, t \in Tokens, position \in {"BEFORE", "AFTER"} :
       LET para == session.cache[k] IN
       Begin(c, "insert", "edit", para.anchor, position,
             [NoRequest EXCEPT !.at = InsertIndex(para, position),
                               !.put = IF position = "BEFORE" THEN <<t, NL>> ELSE <<NL, t>>])
  /\ UNCHANGED <<service, session, outside, applied, missed, torn>>

(* gdocsFormatLayout: styles a paragraph's range, and moves no text.       *)
FormatLayout(c) ==
  /\ MayBegin(c) /\ session.open
  /\ \E k \in Anchored :
       Begin(c, "format", "edit", session.cache[k].anchor, None,
             [NoRequest EXCEPT !.at = session.cache[k].start])
  /\ UNCHANGED <<service, session, outside, applied, missed, torn>>

(* gdocsFormatLayout given line spacing, but no space above or below: it   *)
(* makes no request, sends nothing, and answers ok.                        *)
FormatLinesOnly(c) ==
  /\ MayBegin(c) /\ session.open
  /\ Anchored # {}
  /\ calls' = [calls EXCEPT ![c] = [Idle EXCEPT !.op = "lines", !.pc = "ok"]]
  /\ UNCHANGED <<service, session, outside, applied, missed, torn>>

(* The session is closed between calls; its anchors stay in the document. *)
Close ==
  /\ session.open /\ ~\E c \in Calls : Active(c)
  /\ session' = Closed
  /\ torn' = FALSE
  /\ UNCHANGED <<service, calls, outside, applied, missed>>

(***************************************************************************)
(* One attempt of withRetry, and its answer.                               *)
(***************************************************************************)
Fetching(c) == calls[c].stage \in {"load", "reload"}
Sending(c) == calls[c].pc = "send"

Answered(c, kind, rev, got) ==
  calls' = [calls EXCEPT ![c].pc = "answer",
                         ![c].answer = [kind |-> kind, rev |-> rev, got |-> got]]

(* Does the request do to this document what its caller asked?  The anchor *)
(* is followed as long as the service has it.                              *)
Hits(srv, call) ==
  LET r == call.request
      start(i) == StartOf(srv.doc, EndOf(srv.doc, i))
      inAim(i) == \A n \in srv.names : n.name = call.aim =>
                    \A j \in DOMAIN srv.doc : srv.doc[j].id = n.at => start(j) = start(i)
  IN CASE call.stage = "names" ->
            \A i \in DOMAIN r.names :
              LET e == EndOf(srv.doc, r.names[i].at) IN
              r.names[i].at = start(e) /\ NamesIn(srv, start(e), e) = {}
       [] call.stage = "edit" /\ call.op = "replace" -> srv.doc[r.at].tok = call.find /\ inAim(r.at)
       [] call.stage = "edit" /\ call.op = "insert" /\ call.find = "AFTER" -> r.at \in Ends(srv.doc) /\ inAim(r.at)
       [] OTHER -> r.at = start(r.at) /\ inAim(r.at)

(* The required revision is read when the attempt is sent. *)
AcceptedAnyway(c) == TRUE  \* a bug: no writeControl is sent
Accepted(c) == session.required = service.rev

Serve(c, kind) ==
  /\ Sending(c) /\ ~Fetching(c)
  /\ Accepted(c) /\ Fits(service, calls[c].request)
  /\ service' = Applied(service, calls[c].request)
  /\ LET r == calls[c].request IN
     Answered(c, kind, service.rev + 1, [i \in DOMAIN r.names |-> service.next + Len(r.put) + i])
  /\ applied' = IF calls[c].stage = "edit" THEN [applied EXCEPT ![c] = @ + 1] ELSE applied
  /\ missed' = IF Hits(service, calls[c]) THEN missed
               ELSE missed \cup {[call |-> c, torn |-> torn]}
  /\ UNCHANGED <<session, outside, torn>>

Refuse(c, kind) ==
  /\ Sending(c)
  /\ kind = "conflict" => ~Fetching(c) /\ ~Accepted(c)
  /\ Answered(c, kind, None, None)
  /\ UNCHANGED <<service, session, outside, applied, missed, torn>>

Fetch(c) ==
  /\ Sending(c) /\ Fetching(c)
  /\ Answered(c, "ok", service.rev, service)
  /\ UNCHANGED <<service, session, outside, applied, missed, torn>>

(***************************************************************************)
(* What the client does with an answer.                                    *)
(***************************************************************************)
Retries(kind) ==
  CASE kind = "busy" -> Busy
    [] kind \in {"down", "lost"} -> Down
    [] kind = "conflict" -> Conflict
    [] OTHER -> 0

Received(c, kinds) == calls[c].pc = "answer" /\ calls[c].answer.kind \in kinds

MayRetryOnceMore(attempt, kind) == attempt <= Retries(kind)  \* a bug: off by one
MayRetry(attempt, kind) == attempt < Retries(kind)

(* After the backoff the same request is sent again. *)
Retry(c) ==
  /\ Received(c, {"busy", "down", "lost", "conflict"})
  /\ MayRetry(calls[c].attempt, calls[c].answer.kind)
  /\ calls' = [calls EXCEPT ![c].pc = "send", ![c].attempt = @ + 1, ![c].answer = None]
  /\ UNCHANGED <<service, session, outside, applied, missed, torn>>

(* The error is thrown: the tool answers with it.  A document that could   *)
(* not be opened is dropped; one that could not be read again stays.       *)
Fail(c) ==
  /\ Received(c, {"busy", "down", "lost", "conflict", "refused"})
  /\ ~MayRetry(calls[c].attempt, calls[c].answer.kind)
  /\ calls' = [calls EXCEPT ![c] = [Idle EXCEPT !.op = calls[c].op, !.pc = "error"]]
  /\ session' = IF calls[c].op = "open" THEN Closed ELSE session
  /\ torn' = (torn \/ (calls[c].stage = "load" /\ calls[c].op # "open"))
  /\ UNCHANGED <<service, outside, applied, missed>>

Done(c) == [Idle EXCEPT !.op = calls[c].op, !.pc = "ok"]

RereadsAfterInsert(op) == op = "insert"  \* a bug: replaceText does not fetch again
Rereads(op) == op # "format"

(* executeBatchUpdate's answer: the revision is updated, the cache is not. *)
Edited(c) ==
  /\ Received(c, {"ok"}) /\ calls[c].stage = "edit"
  /\ session' = [session EXCEPT !.required = calls[c].answer.rev]
  /\ calls' = [calls EXCEPT ![c] =
       IF ~Rereads(@.op) THEN Done(c)
       ELSE [@ EXCEPT !.pc = "send", !.stage = "load", !.request = NoRequest,
                      !.attempt = 0, !.answer = None]]
  /\ UNCHANGED <<service, outside, applied, missed, torn>>

NamesOf(mapping) == {m.name : m \in mapping}

(* fetchDocument's assignments. *)
Cached(srv) ==
  [session EXCEPT !.cache = Parse(srv), !.required = srv.rev,
                  !.mapping = @ \cup {[rid |-> n.rid, name |-> n.name] :
                                      n \in {x \in srv.names : ~\E m \in session.mapping : m.rid = x.rid}}]

(* injectAnchors up to its request: a name for each paragraph without one. *)
Inject(c, s) ==
  LET bare == Ascending({k \in DOMAIN s.cache : s.cache[k].anchor = None})
      names == Allocate(Len(bare), Cardinality(s.mapping), NamesOf(s.mapping))
  IN IF bare = <<>> THEN Done(c)
     ELSE [calls[c] EXCEPT
             !.pc = "send", !.stage = "names", !.attempt = 0, !.answer = None, !.own = TRUE,
             !.paras = bare, !.occupied = NamesOf(s.mapping),
             !.request = [NoRequest EXCEPT !.names =
               [i \in DOMAIN bare |-> [at |-> s.cache[bare[i]].start, name |-> names[i]]]]]

Loaded(c) ==
  /\ Received(c, {"ok"}) /\ Fetching(c)
  /\ LET s == Cached(calls[c].answer.got)
         next == IF calls[c].stage = "load" /\ calls[c].op # "replace" THEN Inject(c, s) ELSE Done(c)
     IN /\ calls' = [d \in Calls |-> IF d = c THEN next ELSE [calls[d] EXCEPT !.own = FALSE]]
        /\ session' = [s EXCEPT !.open = @ \/ next.pc = "ok"]
  /\ torn' = FALSE
  /\ UNCHANGED <<service, outside, applied, missed>>

(* injectAnchors after its answer.  The names are computed again, from the *)
(* mapping as it is by now, and paired with the answered ids.              *)
Named(c) ==
  /\ Received(c, {"ok"}) /\ calls[c].stage = "names"
  /\ LET call == calls[c]
         rids == call.answer.got
         names == Allocate(Len(rids), Cardinality(session.mapping), call.occupied)
         pos(k) == CHOOSE i \in DOMAIN call.paras : call.paras[i] = k
     IN session' = [session EXCEPT
          !.required = call.answer.rev,
          !.mapping = @ \cup {[rid |-> rids[i], name |-> names[i]] : i \in DOMAIN rids},
          !.cache = IF ~call.own THEN @
                    ELSE [k \in DOMAIN @ |-> IF k \in Range(call.paras)
                                             THEN [@[k] EXCEPT !.anchor = names[pos(k)]] ELSE @[k]]]
  /\ calls' = [calls EXCEPT ![c] = [@ EXCEPT !.pc = "send", !.stage = "reload", !.attempt = 0,
                                             !.request = NoRequest, !.paras = <<>>, !.answer = None]]
  /\ UNCHANGED <<service, outside, applied, missed, torn>>

(***************************************************************************)
(* Other people: they type before a paragraph, delete an item, or open the *)
(* document with a client of their own that names an unnamed paragraph.    *)
(***************************************************************************)
UsedNames == {r.name : r \in service.names}

Outside ==
  /\ outside < MaxOutside
  /\ LET doc == service.doc IN
     \/ \E e \in Ends(doc), t \in Tokens :
          service' = Applied(service, [NoRequest EXCEPT !.at = StartOf(doc, e), !.put = <<t>>])
     \/ \E i \in 1..(Len(doc) - 1) :
          service' = Applied(service, [NoRequest EXCEPT !.at = i, !.cut = 1])
     \/ \E e \in Ends(doc), n \in Range(Allocate(1, Cardinality(service.names), UsedNames)) :
          /\ NamesIn(service, StartOf(doc, e), e) = {}
          /\ service' = Applied(service, [NoRequest EXCEPT !.names = <<[at |-> StartOf(doc, e), name |-> n]>>])
  /\ outside' = outside + 1
  /\ UNCHANGED <<session, calls, applied, missed, torn>>

(***************************************************************************)
(* Specification.                                                          *)
(***************************************************************************)
Asks(c) == Open(c) \/ ReplaceText(c) \/ InsertParagraph(c) \/ FormatLayout(c) \/ FormatLinesOnly(c)
Attempt(c) ==
  \/ Serve(c, "ok") \/ Serve(c, "lost") \/ Fetch(c)
  \/ \E kind \in {"busy", "down", "conflict", "refused"} : Refuse(c, kind)
Receive(c) == Retry(c) \/ Fail(c) \/ Edited(c) \/ Loaded(c) \/ Named(c)

Next ==
  \/ \E c \in Calls : Asks(c) \/ Attempt(c) \/ Receive(c)
  \/ Close \/ Outside

Spec == Init /\ [][Next]_vars

(***************************************************************************)
(* Properties.                                                             *)
(***************************************************************************)

(* Every variable stays in its domain, and no call exceeds the retries     *)
(* that ERROR_MAP allows.                                                  *)
TypeOK ==
  /\ service.rev \in Nat /\ service.next \in Nat
  /\ service.doc # <<>> /\ Last(service.doc).tok = NL
  /\ \A i, j \in DOMAIN service.doc : i # j => service.doc[i].id # service.doc[j].id
  /\ session.required \in Nat \cup {None}
  /\ outside \in 0..MaxOutside /\ torn \in BOOLEAN
  /\ \A c \in Calls : /\ applied[c] \in Nat
                      /\ calls[c].pc \in {"idle", "send", "answer", "ok", "error"}
                      /\ calls[c].stage \in {"edit", "load", "names", "reload"}
                      /\ \E kind \in {"busy", "down", "conflict"} : calls[c].attempt <= Retries(kind)

(* A retry never applies an edit twice: after an answer was lost, the      *)
(* revision that the retried batch requires is gone.  And a call that      *)
(* answers ok has applied its edit, once, if it had one to send: opening a *)
(* document has none, and a format_layout of nothing but line spacing      *)
(* sends none.                                                             *)
AppliedOnce ==
  \A c \in Calls :
    /\ applied[c] <= 1
    /\ calls[c].pc = "ok" => applied[c] = IF calls[c].op \in {"open", "lines"} THEN 0 ELSE 1

(* What "Layout formatting applied." says, and what does not hold: every   *)
(* tool that answers ok has applied what it was asked for.  format_layout  *)
(* builds no request from line spacing alone (format_layout.ts:60, 103).   *)
OkMeansApplied == \A c \in Calls : calls[c].pc = "ok" /\ calls[c].op # "open" => applied[c] = 1

(* Every edit lands in the paragraph, and on the text, that its caller     *)
(* named, as the document was when the service applied it; an anchor is    *)
(* put on the first item of a paragraph that had none.                     *)
EditsHitTheirTarget == missed = {}

(* The same, except for edits computed from a cache that was left behind   *)
(* because the document could not be read again after an edit.             *)
OnlyTornCachesMiss == \A m \in missed : m.torn

(* Between two calls, a client whose revision is the document's own has    *)
(* the document in its cache: indices, texts and anchors.  This is what    *)
(* makes indices computed from the cache right, and it spans every path    *)
(* that updates the revision without reading the document.                 *)
CacheMatchesRevision ==
  session.open /\ ~torn /\ (\A c \in Calls : ~Active(c)) /\ session.required = service.rev
    => session.cache = Parse(service)

(* No two named ranges share a name, although names are counted from the   *)
(* size of a mapping and other clients name paragraphs too; and the        *)
(* mapping, whose names are computed again after the answer, has for every *)
(* range the name the service knows it by.                                 *)
AnchorsAreUnique ==
  /\ \A a, b \in service.names : a.name = b.name => a = b
  /\ \A a \in service.names, m \in session.mapping : a.rid = m.rid => a.name = m.name
=============================================================================
