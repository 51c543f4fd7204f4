---------------------------- MODULE TrackedEditsMC ----------------------------
(* Four documents: plain text around embedded content and comment ranges;  *)
(* text with another author's insertion and deletion; text with a          *)
(* hyperlink; a last paragraph that another author's Enter key made.       *)
EXTENDS TrackedEdits

Human(kind, id) == Element(kind, "human", id)

Plain == <<[id |-> 1, mark |-> {}, body |->
              <<Item("a", <<>>), Item(Obj, <<>>), Item("b", <<>>), Item(Mk, <<>>)>>],
           [id |-> 2, mark |-> {}, body |-> <<Item("a", <<>>), Item(Mk, <<>>), Item("b", <<>>)>>]>>

Reviewed == <<[id |-> 1, mark |-> {Human("del", 3)}, body |->
                 <<Item("a", <<>>), Item(Open, <<Human("ins", 1)>>), Item("b", <<Human("ins", 1)>>)>>],
              [id |-> 2, mark |-> {}, body |-> <<Item("a", <<>>), Item("b", <<Human("del", 2)>>)>>]>>

Link == Human("link", 0)
Linked == <<[id |-> 1, mark |-> {}, body |->
               <<Item("a", <<>>), Item(Open, <<Link>>), Item("b", <<Link>>)>>],
            [id |-> 2, mark |-> {}, body |-> <<Item(Open, <<Link>>), Item("a", <<Link>>)>>]>>

Split == <<[id |-> 1, mark |-> {}, body |-> <<Item("a", <<>>)>>],
           [id |-> 2, mark |-> {Human("ins", 1)},
            body |-> <<Item("a", <<>>), Item("b", <<Human("ins", 2)>>)>>]>>

TheDocs == {Plain, Reviewed, Linked, Split}
TheNews == {<<"x">>}
===============================================================================
