------------------------ MODULE MCSearchCurrentNodes ------------------------
(***************************************************************************)
(* Model for SearchCurrentNodes.  Two graphs: a ten-node one, where the    *)
(* query "b" lists all ten rows and reaches the height clamp               *)
(* (10 * 38 > 350), and a three-node one sharing no node id with it,       *)
(* with a mixed-case label and an objectId-only match.  Queries are every  *)
(* one- to three-character string over {a, B, s}.                          *)
(***************************************************************************)
EXTENDS SearchCurrentNodes

N(k, l, o) == [id |-> k, label |-> l, objectId |-> o]

MCGraphBig ==
    [k \in 1..10 |-> N(k, IF k <= 5 THEN <<"a", "b">> ELSE <<"b">>, <<"s">>)]

MCGraphSmall ==
    << N(11, <<"B", "a">>, <<"s">>),
       N(12, <<"s">>, <<"A", "b">>),
       N(13, <<"s">>, <<"s">>) >>

MCGraphs == {MCGraphBig, MCGraphSmall}

\* The widget over one graph that never changes: the three-node graph
\* (mixed case, objectId-only match) followed by rows 4-7 of the big one.
MCOneGraph == {MCGraphSmall \o SubSeq(MCGraphBig, 4, 7)}

\* Every 1-3 character query over "a", "B" and "s" (which every objectId
\* contains): upper and lower case, label and objectId matches, no match.
MCQueries == SeqOf({"a", "B", "s"}, 3) \ {<<>>}

MCCaseFold == [c \in {"A", "B", "O"} |->
                 CASE c = "A" -> "a" [] c = "B" -> "b" [] c = "O" -> "o"]
=============================================================================
