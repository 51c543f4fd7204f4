------------------------------- MODULE Redlines -------------------------------
(***************************************************************************)
(* Word documents with tracked changes, and the operators of docx-core on  *)
(* them: replaceParagraphTextRange (text.ts), insertParagraph              *)
(* (document.ts), acceptChanges, rejectChanges and their selective forms.  *)
(*                                                                         *)
(* A document is a sequence of paragraphs [id, mark, body].  mark is the   *)
(* set of revisions of the paragraph mark.  A body is a sequence of items  *)
(* [tok, in]: in is the path of elements around the item, outermost first, *)
(* each [kind, by, id] with kind "ins", "del" or "link".  Text has one     *)
(* item per token; runs and their formatting are left out.  Items without  *)
(* visible text are embedded content (Obj), the ends of comment ranges     *)
(* (Mk, outside of deletions), and Open, the start of a hyperlink or       *)
(* insertion that was in the file: it stays when the element becomes empty.*)
(*                                                                         *)
(* Bookmarks are not represented.  Accepting and rejecting have rules for  *)
(* them alone: they remove those that begin and end in a paragraph whose   *)
(* mark goes and which holds nothing but what goes with it, and move the   *)
(* ends of others away from an emptied last paragraph.                     *)
(***************************************************************************)
EXTENDS Naturals, Sequences, FiniteSets, SequencesExt, FiniteSetsExt, NaturalSets

CONSTANTS
  Tokens,        \* pieces of visible text
  Obj, Mk, Open  \* items without visible text

ASSUME TokensAssumption == Tokens \cap {Obj, Mk, Open} = {} /\ Obj # Open

Element(kind, by, id) == [kind |-> kind, by |-> by, id |-> id]
Item(tok, in) == [tok |-> tok, in |-> in]
Items(text, in) == [k \in DOMAIN text |-> Item(text[k], in)]

(* Documents whose revisions and hyperlinks are in E. *)
Markup(authors) == [kind : {"ins", "del", "link"}, by : authors, id : Nat]
Marks(E) == {m \in SUBSET {e \in E : e.kind # "link"} : IsFiniteSet(m)}
Bodies(E) == Seq([tok : Tokens \cup {Obj, Mk, Open}, in : Seq(E)])
Documents(E) == Seq([id : Nat, mark : Marks(E), body : Bodies(E)])

Within(item, kinds) == \E k \in DOMAIN item.in : item.in[k].kind \in kinds

(* getParagraphRuns: deleted text is not shown, inserted text is. *)
Shown(body) == {i \in DOMAIN body : body[i].tok \in Tokens /\ ~Within(body[i], {"del"})}
ShownAt(body) == Ascending(Shown(body))
TextOf(p) == LET at == ShownAt(p.body) IN [k \in DOMAIN at |-> p.body[at[k]].tok]

IndexOf(doc, pid) == CHOOSE j \in DOMAIN doc : doc[j].id = pid
HasParagraph(doc, pid) == \E j \in DOMAIN doc : doc[j].id = pid

(***************************************************************************)
(* replaceParagraphTextRange(p, s, e, new): the tokens s+1 .. e of the     *)
(* visible text are replaced.                                              *)
(***************************************************************************)

(* The range does not fit, the paragraph shows no text, or the overlapped *)
(* runs do not share one parent (getContainerBoundaryError).              *)
Refused(p, s, e) ==
  LET at == ShownAt(p.body) IN
  \/ at = <<>> \/ e > Len(at)
  \/ \E k \in (s + 1)..e : p.body[at[k]].in # p.body[at[s + 1]].in

(* Where the replacement goes: behind the last item of the range, or,     *)
(* for an empty range, behind the token before it.                        *)
Place(p, s, e) ==
  LET at == ShownAt(p.body) IN
  IF e = 0 THEN [after |-> at[1] - 1, in |-> p.body[at[1]].in]
           ELSE [after |-> at[e], in |-> p.body[at[e]].in]

Cut(p, s, e) == LET at == ShownAt(p.body) IN {at[k] : k \in (s + 1)..e}

(* One deletion per stretch of removed items; what stays in between        *)
(* (embedded content, markers, other revisions) keeps its place.           *)
StretchOf(cut, i) == Cardinality({j \in cut : j <= i /\ j - 1 \notin cut})

(* A bug: one deletion behind the range, past what stays in between. *)
StruckBehind(p, cut, by, next) ==
  LET end == IF cut = {} THEN 0 ELSE Max(cut)
      order == Ascending((1..end) \ cut) \o Ascending(cut)
               \o [k \in 1..(Len(p.body) - end) |-> end + k]
      struck(i) == IF i \in cut
                   THEN [p.body[i] EXCEPT !.in = Append(@, Element("del", by, next))]
                   ELSE p.body[i]
  IN [k \in DOMAIN order |-> struck(order[k])]

Struck(p, cut, by, next) ==
  [i \in DOMAIN p.body |->
     IF i \in cut
     THEN [p.body[i] EXCEPT !.in = Append(@, Element("del", by, next + StretchOf(cut, i) - 1))]
     ELSE p.body[i]]

Spliced(body, after, items) ==
  SubSeq(body, 1, after) \o items \o SubSeq(body, after + 1, Len(body))

(* A bug: markers do not keep a blanked paragraph. *)
InertDespiteMarkers(body, deletionsAreInert) == \A i \in DOMAIN body : body[i].tok # Obj

(* isParagraphInertAfterBlanking *)
Inert(body, deletionsAreInert) ==
  \A i \in DOMAIN body :
    IF deletionsAreInert
    THEN body[i].tok = Open \/ Within(body[i], {"del"})
    ELSE body[i].tok = Open /\ ~Within(body[i], {"ins", "del"})

(* Everything shown is replaced by nothing, and no embedded content stood  *)
(* in between.                                                             *)
Blanks(p, s, e, new) ==
  LET at == ShownAt(p.body) IN
  /\ s = 0 /\ e = Len(at) /\ new = <<>>
  /\ ~\E i \in at[1]..at[e] : p.body[i].tok = Obj /\ p.body[i].in = p.body[at[e]].in

(* addParagraphMarkDeletion: a deleted mark is not deleted again. *)
MarkDeleted(mark, by, id) ==
  IF \E r \in mark : r.kind = "del" THEN mark ELSE mark \cup {Element("del", by, id)}

(* With tracking: the paragraph, and the next revision id. *)
TrackedReplace(p, s, e, new, by, next) ==
  LET cut == Cut(p, s, e)
      dels == Cardinality({i \in cut : i - 1 \notin cut})
      place == Place(p, s, e)
      ins == Element("ins", by, next + dels)
      body == Spliced(Struck(p, cut, by, next), place.after, Items(new, Append(place.in, ins)))
      used == next + dels + (IF new = <<>> THEN 0 ELSE 1)
      blank == Blanks(p, s, e, new) /\ Inert(body, TRUE)
      mark == IF blank THEN MarkDeleted(p.mark, by, used) ELSE p.mark
  IN [p |-> [p EXCEPT !.body = body, !.mark = mark],
      next |-> used + Cardinality(mark) - Cardinality(p.mark)]

(* Without tracking: the document, where a blanked paragraph is removed    *)
(* if nothing is left in it and it is not the only one.                    *)
PlainReplace(doc, j, s, e, new) ==
  LET p == doc[j]
      place == Place(p, s, e)
      longer == Spliced(p.body, place.after, Items(new, place.in))
      kept == {i \in DOMAIN longer : i \notin Cut(p, s, e)}
      at == Ascending(kept)
      body == [k \in DOMAIN at |-> longer[at[k]]]
  IN IF Blanks(p, s, e, new) /\ Inert(body, FALSE) /\ Len(doc) > 1
     THEN RemoveAt(doc, j)
     ELSE [doc EXCEPT ![j].body = body]

(***************************************************************************)
(* insertParagraph: before or after paragraph j, with a tracked mark and   *)
(* tracked content.                                                        *)
(***************************************************************************)
InsertedAt(doc, j, pos, p) == InsertAt(doc, IF pos = "AFTER" THEN j + 1 ELSE j, p)

(* A bug: the paragraph mark is inserted without a revision. *)
TrackedInsertUnmarked(doc, j, pos, pid, new, by, next) ==
  InsertedAt(doc, j, pos,
    [id |-> pid, mark |-> {}, body |-> Items(new, <<Element("ins", by, next + 1)>>)])

TrackedInsert(doc, j, pos, pid, new, by, next) ==
  InsertedAt(doc, j, pos,
    [id |-> pid, mark |-> {Element("ins", by, next)},
     body |-> Items(new, <<Element("ins", by, next + 1)>>)])

PlainInsert(doc, j, pos, pid, new) ==
  InsertedAt(doc, j, pos, [id |-> pid, mark |-> {}, body |-> Items(new, <<>>)])

(***************************************************************************)
(* Accepting (drop = "del", keep = "ins") and rejecting (the reverse) the  *)
(* revisions whose ids are selected.                                       *)
(***************************************************************************)
Revisions(doc) ==
  UNION {doc[j].mark \cup
         UNION {{r \in Range(doc[j].body[i].in) : r.kind # "link"} : i \in DOMAIN doc[j].body}
         : j \in DOMAIN doc}

Ids(revs) == {r.id : r \in revs}

Elements(doc) == Revisions(doc) \cup
  UNION {UNION {Range(doc[j].body[i].in) : i \in DOMAIN doc[j].body} : j \in DOMAIN doc}

Picked(s, places) == LET at == Ascending(places) IN [k \in DOMAIN at |-> s[at[k]]]

(* A bug: the filter is not asked when wrappers are removed. *)
UnwrappedAll(item, keep, sel) ==
  [item EXCEPT !.in = Picked(@, {k \in DOMAIN @ : @[k].kind # keep})]

Unwrapped(item, keep, sel) ==
  [item EXCEPT !.in = Picked(@, {k \in DOMAIN @ : ~(@[k].kind = keep /\ @[k].id \in sel)})]

Gone(item, drop, keep, sel) ==
  \/ \E k \in DOMAIN item.in : item.in[k].kind = drop /\ item.in[k].id \in sel
  \/ /\ item.tok = Open /\ item.in # <<>>
     /\ Last(item.in).kind = keep /\ Last(item.in).id \in sel

ResolvedBody(body, drop, keep, sel) ==
  LET left == Picked(body, {i \in DOMAIN body : ~Gone(body[i], drop, keep, sel)})
  IN [k \in DOMAIN left |-> Unwrapped(left[k], keep, sel)]

(* paragraphHasContent: the ends of a comment range do not count. *)
HasContent(body) == \E i \in DOMAIN body : body[i].tok # Mk

(* resolveParagraphMarkRevision, in document order: the content joins the *)
(* following paragraph; without one, an emptied paragraph is removed      *)
(* unless it is the only one.                                             *)
MergedNext(before, p, joins) ==
  LET q == [p EXCEPT !.body = before.carry \o @] IN
  IF p.id \in joins THEN [before EXCEPT !.carry = q.body, !.last = <<q>>]
  ELSE [done |-> Append(before.done, q), carry |-> <<>>, last |-> <<>>]

MergedUpTo(doc, joins) ==
  LET upTo[j \in 0..Len(doc)] ==
        IF j = 0 THEN [done |-> <<>>, carry |-> <<>>, last |-> <<>>]
        ELSE MergedNext(upTo[j - 1], doc[j], joins)
  IN upTo

Merged(doc, joins) ==
  LET end == MergedUpTo(doc, joins)[Len(doc)]
  IN IF end.last # <<>> /\ (HasContent(end.carry) \/ end.done = <<>>)
     THEN end.done \o end.last ELSE end.done

(* The whole call, apart from bookmarks and the counts it returns. *)
Resolve(doc, drop, keep, sel) ==
  LET joins == {p.id : p \in {q \in Range(doc) : \E r \in q.mark : r.kind = drop /\ r.id \in sel}}
      resolved(p) == [p EXCEPT !.mark = {r \in @ : r.id \notin sel},
                               !.body = ResolvedBody(@, drop, keep, sel)]
  IN Merged([j \in DOMAIN doc |-> resolved(doc[j])], joins)

Accept(doc, sel) == Resolve(doc, "del", "ins", sel)
Reject(doc, sel) == Resolve(doc, "ins", "del", sel)

AcceptAll(doc) == Accept(doc, Ids(Revisions(doc)))
RejectAll(doc) == Reject(doc, Ids(Revisions(doc)))

(* resolveSelectedIds by author, and detectAmbiguousOverlaps: a selected   *)
(* revision around or inside another's, or on one paragraph mark with it.  *)
ByAuthor(doc, by) == Ids({r \in Revisions(doc) : r.by = by})

Mixed(revs, sel) ==
  \E r, q \in {x \in revs : x.kind # "link"} : r.id \in sel /\ q.id \notin sel

Ambiguous(doc, sel) ==
  \E j \in DOMAIN doc :
    \/ Mixed(doc[j].mark, sel)
    \/ \E i \in DOMAIN doc[j].body : Mixed(Range(doc[j].body[i].in), sel)
===============================================================================
