---------------------------- MODULE GoogleDocsMC ----------------------------
(***************************************************************************)
(* Small instances of GoogleDocs for TLC.                                  *)
(***************************************************************************)
EXTENDS GoogleDocs

CONSTANT a

(* Two paragraphs; the object is behind any text. *)
TwoParagraphs == <<a, Obj, NL, a, NL>>

(* The object is before text that can be found. *)
ObjectFirst == <<Obj, a, NL>>
=============================================================================
