-------------------------- MODULE MCReplaySession --------------------------
(***************************************************************************)
(* ReplaySession with one operation, called with two requests and with one *)
(* the carrier refuses; before it, any value goes through the carrier:     *)
(* values of every kind, by themselves and in arrays and objects of up to  *)
(* two, with texts that begin with a mark and texts that are no text.      *)
(***************************************************************************)
EXTENDS ReplaySession, ReplayCarrier

CONSTANTS main, side

MCCalls == [op : {"quote"}, revision : {0}, request : {"eur", "usd", "map"}]

Texts == {<<>>, <<0>>, <<1, 0>>, <<Lone>>, <<Replaced>>, <<Mark>>, <<Mark, 0>>, <<0, Mark>>}
Atoms == {Plain(is) : is \in {"null", "false", "true", "undefined"}}
    \cup {Value("number", <<n>>, <<>>) : n \in {0, 100}}
    \cup {Value("string", text, <<>>) : text \in Texts}
    \cup {Value("bytes", text, <<>>) : text \in {<<>>, <<8>>, <<0, 7>>, [i \in 1..81 |-> 0]}}
    \cup {Value("bigint", text, <<>>) : text \in {<<1>>, <<1, 0>>}}
Some  == {Plain("null"), Plain("undefined"), Value("string", <<0>>, <<>>),
          Value("number", <<1>>, <<>>)}
Inner == {Value("array", <<>>, <<Item(<<>>, v)>>) : v \in Some}
    \cup {Value("object", <<>>, <<Item(<<0>>, v)>>) : v \in Some}
    \cup {Plain("array"), Plain("object")}
MCCarried ==
    {Uncarried} \cup Atoms \cup Inner
    \cup {Value("array", <<>>, <<Item(<<>>, v), Item(<<>>, w)>>) : v, w \in Some \cup Inner}
    \cup {Value("object", <<>>, <<Item(t, v), Item(u, w)>>) :
             <<t, u>> \in {p \in Texts \X Texts : p[1] # p[2]}, v, w \in Some}

MCInit == Init /\ CarryInit
MCNext == \/ Carry /\ UNCHANGED vars
          \/ carried = Uncarried /\ Next /\ UNCHANGED carried
MCSpec == MCInit /\ [][MCNext]_<<vars, carried>> /\ Fairness
=============================================================================
