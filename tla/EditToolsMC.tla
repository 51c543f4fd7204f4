------------------------------ MODULE EditToolsMC ------------------------------
(* Two paragraphs with another author's revision, two callers, standalone  *)
(* edits and batches of two steps: adjacent ranges, overlapping ranges, a  *)
(* step that makes the next one ambiguous, a blanked anchor.               *)
EXTENDS EditTools

TheFile == <<[id |-> 1, mark |-> {}, body |->
                <<Item("a", <<>>), Item("b", <<>>), Item("c", <<>>)>>],
             [id |-> 2, mark |-> {}, body |->
                <<Item("a", <<>>), Item("b", <<Element("del", "human", 1)>>)>>]>>

Rep(pid, old, new) == [op |-> "replace", pid |-> pid, old |-> old, new |-> new]
Ins(pid, pos, new) == [op |-> "insert", pid |-> pid, pos |-> pos, new |-> new]

Single(step) == [batch |-> FALSE, steps |-> <<step>>]
Batch(first, second) == [batch |-> TRUE, steps |-> <<first, second>>]

TheRequests == {
  Single(Rep(1, <<"b">>, <<"b", "b">>)),
  Single(Rep(1, <<"a", "b", "c">>, <<"a", "x", "x", "c">>)),
  Single(Rep(1, <<"c">>, <<>>)),
  Single(Ins(1, "AFTER", <<"x">>)),
  Batch(Rep(1, <<"a">>, <<"x">>), Rep(1, <<"b", "c">>, <<"a">>)),
  Batch(Rep(1, <<"a", "b">>, <<"x">>), Rep(1, <<"b", "c">>, <<"x">>)),
  Batch(Rep(1, <<"a">>, <<"b">>), Rep(1, <<"b">>, <<"x">>)),
  Batch(Rep(1, <<"a", "b", "c">>, <<>>), Ins(1, "BEFORE", <<"a">>)),
  Batch(Rep(2, <<"a">>, <<"x">>), Rep(1, <<"b">>, <<>>)) }
===============================================================================
