----------------------------- MODULE AtomicEdits ------------------------------
(***************************************************************************)
(* What the editing tools promise of the visible text: every edit happens  *)
(* at once, where its caller named it.  A document is a sequence of        *)
(* paragraphs [id, text].  An edit that met another edit of its paragraph  *)
(* may miss its place, but changes no other paragraph; misses counts them. *)
(***************************************************************************)
EXTENDS Naturals, Sequences, SequencesExt, FiniteSets, FiniteSetsExt

CONSTANTS
  FileText,  \* the visible text of the file
  Steps      \* the edits the callers ask for

VARIABLES views, misses

Occurrences(text, old) ==
  {s \in 0..(Len(text) - Len(old)) : SubSeq(text, s + 1, s + Len(old)) = old}

Positions(view, pid) == {j \in DOMAIN view : view[j].id = pid}
FreshPid(view) == Max({p.id : p \in Range(view)}) + 1

(* The old text must occur once. *)
Replaced(view, step) ==
  LET at(j) == CHOOSE s \in Occurrences(view[j].text, step.old) : TRUE IN
  {[view EXCEPT ![j].text = SubSeq(@, 1, at(j)) \o step.new
                            \o SubSeq(@, at(j) + Len(step.old) + 1, Len(@))]
   : j \in {k \in Positions(view, step.pid) : Cardinality(Occurrences(view[k].text, step.old)) = 1}}

Inserted(view, step) ==
  {InsertAt(view, IF step.pos = "AFTER" THEN j + 1 ELSE j,
            [id |-> FreshPid(view), text |-> step.new]) : j \in Positions(view, step.pid)}

(* The outcome of an edit, if it can be done. *)
Outcomes(view, step) ==
  IF step.op = "replace" THEN Replaced(view, step) ELSE Inserted(view, step)

Init == views = <<>> /\ misses = 0

OpenFile == views' = Append(views, FileText) /\ UNCHANGED misses

Edit(s, step) ==
  /\ \E view \in Outcomes(views[s], step) : views' = [views EXCEPT ![s] = view]
  /\ UNCHANGED misses

Miss(s, pid) ==
  /\ misses' = misses + 1
  /\ DOMAIN views' = DOMAIN views
  /\ \A t \in DOMAIN views \ {s} : views'[t] = views[t]
  /\ DOMAIN views'[s] = DOMAIN views[s]
  /\ \A j \in DOMAIN views[s] :
       IF views[s][j].id = pid THEN views'[s][j].id = pid ELSE views'[s][j] = views[s][j]

Next ==
  \/ OpenFile
  \/ \E step \in Steps, s \in DOMAIN views : Edit(s, step) \/ Miss(s, step.pid)

Spec == Init /\ [][Next]_<<views, misses>>
===============================================================================
