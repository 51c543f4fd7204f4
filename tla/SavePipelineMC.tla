--------------------------- MODULE SavePipelineMC ---------------------------
(***************************************************************************)
(* Small instances of SavePipeline for TLC.                                *)
(***************************************************************************)
EXTENDS SavePipeline, TLC

(* Handlers of one kind are interchangeable, except that annotators are    *)
(* editors of their own kind.                                              *)
HandlerSymmetry ==
  Permutations(Savers) \cup Permutations(Editors \ Annotators) \cup Permutations(Extractors)
=============================================================================
