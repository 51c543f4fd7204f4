---------------------------- MODULE FileSessions ----------------------------
(***************************************************************************)
(* What the session layer of docx-mcp promises its callers, without the    *)
(* machinery: a file has at most one editing session at a time, a session  *)
(* is opened only for a file that has none, is never swapped for another   *)
(* one behind its users' back, and never comes back once it was dropped    *)
(* (closed, cleared, or expired).                                          *)
(***************************************************************************)
CONSTANTS
  Paths,
  Sessions,    \* every session there may ever be
  NoSession    \* what a file without a session has

VARIABLES
  current,   \* path -> the session of that file, NoSession when it has none
  known      \* every session that was ever current

vars == <<current, known>>

Init ==
  /\ current = [p \in Paths |-> NoSession]
  /\ known = {}

(* A brand-new session becomes the session of a file that has none. *)
Open(p, s) ==
  /\ current[p] = NoSession
  /\ s \notin known
  /\ current' = [current EXCEPT ![p] = s]
  /\ known' = known \cup {s}

(* The files of ps lose their sessions, all in one step. *)
Drop(ps) ==
  /\ current' = [p \in Paths |-> IF p \in ps THEN NoSession ELSE current[p]]
  /\ UNCHANGED known

Next ==
  \/ \E p \in Paths, s \in Sessions \ {NoSession} : Open(p, s)
  \/ \E ps \in SUBSET Paths : Drop(ps)

Spec == Init /\ [][Next]_vars
=============================================================================
