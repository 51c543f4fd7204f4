--------------------------- MODULE SessionStoreMC ---------------------------
(***************************************************************************)
(* Small instances of SessionStore for TLC.                                *)
(***************************************************************************)
EXTENDS SessionStore, TLC

(* Slots and paths are interchangeable wherever no slot is an opener. *)
CallSymmetry == Permutations(Calls \ Openers) \cup Permutations(Paths)
=============================================================================
