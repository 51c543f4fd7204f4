----------------------------- MODULE TrackedEdits -----------------------------
(***************************************************************************)
(* A document edited with tracked changes: replacements, inserted          *)
(* paragraphs, and accepting or rejecting the editor's revisions or all of *)
(* them (the tools replace_text, insert_paragraph, accept_ai_edits,        *)
(* reject_ai_edits and accept_changes on one session).                     *)
(*                                                                         *)
(* Beside the document the model keeps a twin that receives the same calls *)
(* without tracking (clean), and the document the editor started from      *)
(* (base); the promises of tracked changes relate the three.               *)
(***************************************************************************)
EXTENDS Redlines

CONSTANTS
  Docs,     \* documents to start from
  AI,       \* author of the edits
  News,     \* replacement texts
  MaxEdits  \* bound on the number of edits

ASSUME MaxEditsAssumption == MaxEdits \in Nat

ASSUME NewsAssumption == News \subseteq Seq(Tokens)

Writers == {AI} \cup {e.by : e \in UNION {Elements(d) : d \in Docs}}

(* A document has a paragraph, and its ids name one thing each (Word keeps *)
(* w14:paraId and the w:id of revisions unique).                           *)
ASSUME DocsAssumption ==
  \A d \in Docs :
    /\ d \in Documents(Markup(Writers)) /\ d # <<>>
    /\ \A j, k \in DOMAIN d : d[j].id = d[k].id => j = k
    /\ \A r, q \in Revisions(d) : r.id = q.id => r = q

(* The editor starts without revisions of its own: those of an earlier     *)
(* session would be accepted and rejected with the new ones.               *)
ASSUME EditorAssumption == \A d \in Docs : \A r \in Revisions(d) : r.by # AI

VARIABLES
  doc,    \* the document with tracked changes
  next,   \* next revision id
  clean,  \* auxiliary: the same calls without tracking
  base,   \* auxiliary: the document as it was before the pending edits
  same,   \* auxiliary: every call succeeded on both documents
  apart,  \* auxiliary: the only paragraph, or one with markup of the file, was blanked
  edits   \* number of edits, bounded by MaxEdits

vars == <<doc, next, clean, base, same, apart, edits>>

(* A bug: the largest id of the file is used again. *)
UsedId(d) == IF Revisions(d) = {} THEN 1 ELSE Max(Ids(Revisions(d)))

FreshId(d) == IF Revisions(d) = {} THEN 1 ELSE Max(Ids(Revisions(d))) + 1

Init ==
  /\ doc \in Docs
  /\ next = FreshId(doc)
  /\ clean = doc
  /\ base = doc
  /\ same = TRUE
  /\ apart = FALSE
  /\ edits = 0

NewPid == Max({p.id : p \in Range(doc) \cup Range(clean) \cup Range(base)}) + 1

(* The twin: a paragraph that is gone there, or a call it refuses, ends    *)
(* the comparison.                                                         *)
CleanReplaced(pid, s, e, new) ==
  IF HasParagraph(clean, pid) /\ ~Refused(clean[IndexOf(clean, pid)], s, e)
  THEN /\ clean' = PlainReplace(clean, IndexOf(clean, pid), s, e, new)
       /\ UNCHANGED same
  ELSE same' = FALSE /\ UNCHANGED clean

CleanInserted(anchor, pos, pid, new) ==
  IF HasParagraph(clean, anchor)
  THEN /\ clean' = PlainInsert(clean, IndexOf(clean, anchor), pos, pid, new)
       /\ UNCHANGED same
  ELSE same' = FALSE /\ UNCHANGED clean

(* Revisions of others and hyperlinks, empty ones too. *)
HoldsMarkup(p) ==
  \E i \in DOMAIN p.body :
    p.body[i].tok = Open \/ \E k \in DOMAIN p.body[i].in : p.body[i].in[k].by # AI

Replace(j, s, e, new) ==
  LET r == TrackedReplace(doc[j], s, e, new, AI, next) IN
  /\ edits < MaxEdits
  /\ ~Refused(doc[j], s, e)
  /\ s < e \/ new # <<>>
  /\ doc' = [doc EXCEPT ![j] = r.p]
  /\ next' = r.next
  /\ CleanReplaced(doc[j].id, s, e, new)
  /\ apart' = (apart \/ (Blanks(doc[j], s, e, new) /\ (HoldsMarkup(doc[j]) \/ Len(clean) = 1)))
  /\ edits' = edits + 1
  /\ UNCHANGED base

Insert(j, pos, new) ==
  /\ edits < MaxEdits
  /\ doc' = TrackedInsert(doc, j, pos, NewPid, new, AI, next)
  /\ next' = next + 2
  /\ CleanInserted(doc[j].id, pos, NewPid, new)
  /\ edits' = edits + 1
  /\ UNCHANGED <<base, apart>>

Mine(d) == ByAuthor(d, AI)

(* accept_ai_edits and reject_ai_edits refuse an ambiguous overlap. *)
AcceptAIEdits ==
  /\ Mine(doc) # {}
  /\ ~Ambiguous(doc, Mine(doc))
  /\ doc' = Accept(doc, Mine(doc))
  /\ base' = doc'
  /\ UNCHANGED <<next, clean, same, apart, edits>>

RejectAIEdits ==
  /\ Mine(doc) # {}
  /\ ~Ambiguous(doc, Mine(doc))
  /\ doc' = Reject(doc, Mine(doc))
  /\ base' = doc'
  /\ clean' = doc'
  /\ same' = TRUE
  /\ apart' = FALSE
  /\ UNCHANGED <<next, edits>>

AcceptChanges ==
  /\ Revisions(doc) # {}
  /\ doc' = AcceptAll(doc)
  /\ base' = doc'
  /\ clean' = AcceptAll(clean)
  /\ UNCHANGED <<next, same, apart, edits>>

Next ==
  \/ \E j \in DOMAIN doc : \E s \in 0..Len(TextOf(doc[j])) : \E e \in s..Len(TextOf(doc[j])) :
       \E new \in News \cup {<<>>} : Replace(j, s, e, new)
  \/ \E j \in DOMAIN doc, pos \in {"BEFORE", "AFTER"}, new \in News : Insert(j, pos, new)
  \/ AcceptAIEdits
  \/ RejectAIEdits
  \/ AcceptChanges

Spec == Init /\ [][Next]_vars

-------------------------------------------------------------------------------
(* Types: every paragraph is there once, an element id names one element,  *)
(* no new revision has a used id.                                          *)
TypeOK ==
  /\ \A j, k \in DOMAIN doc : doc[j].id = doc[k].id => j = k
  /\ \A r, q \in Elements(doc) : r.id = q.id /\ r.kind # "link" /\ q.kind # "link" => r = q
  /\ \A r \in Revisions(doc) : r.id < next
  /\ doc # <<>> /\ clean # <<>>
  /\ {same, apart} \subseteq BOOLEAN /\ edits \in 0..MaxEdits

(* Rejecting the editor's revisions gives the document the edits started   *)
(* from, item for item: no text moves past embedded content, the end of a  *)
(* comment range or another revision.                                      *)
RejectRestores ==
  ~Ambiguous(doc, Mine(doc)) => Reject(doc, Mine(doc)) = base

Contents(d) == [j \in DOMAIN d |-> d[j].body]

(* Rejecting every revision gives what it gave before the edits, also      *)
(* where they lie inside the revisions of others.  When the last mark was  *)
(* inserted, what its paragraph holds may stay in one of the editor's.     *)
RejectAllIgnoresAI ==
  /\ Contents(RejectAll(doc)) = Contents(RejectAll(base))
  /\ (\A r \in Last(base).mark : r.kind # "ins") => RejectAll(doc) = RejectAll(base)

(* Accepting everything gives what the same calls give without tracking.   *)
(* Left out are calls that blank the only paragraph or one with revisions  *)
(* of others or a hyperlink: there the two disagree on whether it stays.   *)
AcceptIsTheUntrackedEdit ==
  same /\ ~apart => Contents(AcceptAll(doc)) = Contents(AcceptAll(clean))

(* Resolving a single revision of the editor, or all of them, and          *)
(* resolving the rest commute, whether they are accepted or rejected: a    *)
(* selective call touches nothing of the others and leaves no trace.  The  *)
(* mark of the last paragraph is left out: an emptied last paragraph is    *)
(* removed or kept depending on what is resolved with its mark.  Documents *)
(* have no bookmarks (Redlines): which of them go with a paragraph depends *)
(* on what the paragraph still holds when its mark is resolved.            *)
ResolvedInAnyOrder ==
  Last(doc).mark = {} =>
    \A S \in {Mine(doc)} \cup {{id} : id \in Mine(doc)} :
      LET T == Ids(Revisions(doc)) \ S IN
      ~Ambiguous(doc, S) =>
        /\ Accept(Accept(doc, S), T) = Accept(Accept(doc, T), S)
        /\ Accept(Reject(doc, S), T) = Reject(Accept(doc, T), S)
        /\ Reject(Accept(doc, S), T) = Accept(Reject(doc, T), S)
        /\ Reject(Reject(doc, S), T) = Reject(Reject(doc, T), S)
===============================================================================
