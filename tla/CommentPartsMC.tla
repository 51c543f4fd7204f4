---------------------------- MODULE CommentPartsMC ----------------------------
(* Two callers on a file with a comment, a reply to it, and a comment    *)
(* without a paragraph id.                                                 *)
EXTENDS CommentParts, TLC

CONSTANTS author

MCFile == [comments |-> {[id |-> 0, para |-> 1, last |-> 1, by |-> author],
                          [id |-> 1, para |-> 2, last |-> 2, by |-> author],
                          [id |-> 2, para |-> 0, last |-> 0, by |-> author]},
           rows |-> {[para |-> 1, parent |-> 0], [para |-> 2, parent |-> 1]},
           size |-> 2]

Symmetric == Permutations(Callers)
===============================================================================
