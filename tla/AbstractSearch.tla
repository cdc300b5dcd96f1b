--------------------------- MODULE AbstractSearch ---------------------------
(***************************************************************************)
(* What the search widget promises (spec 3, 4.1, 8): the visible list is   *)
(* always the nodes of the current graph whose label or objectId contains  *)
(* the query case-insensitively, in entry order, and nothing for an empty  *)
(* query; picking a visible node reports it and empties the query; the    *)
(* caller may close the widget and open it again.                          *)
(***************************************************************************)
EXTENDS Integers, Sequences

CONSTANTS
    Graphs,     \* the node collections the caller may supply
    Strings,    \* the values the query can hold
    CaseFold,   \* upper-case character -> lower-case character
    NoNode

VARIABLES
    graph,      \* the collection the widget searches
    query,      \* the query string
    visible,    \* the listed nodes
    reported,   \* the node reported to the caller by the last step, or NoNode
    open        \* whether the widget is shown

vars == <<graph, query, visible, reported, open>>

LowerChar(c) == IF c \in DOMAIN CaseFold THEN CaseFold[c] ELSE c

\* t occurs in s at some offset, comparing characters case-insensitively.
ContainsCI(s, t) ==
    \E a \in 0..(Len(s) - Len(t)) :
        \A j \in 1..Len(t) : LowerChar(s[a + j]) = LowerChar(t[j])

Matches(node, q) ==
    /\ q # <<>>
    /\ ContainsCI(node.label, q) \/ ContainsCI(node.objectId, q)

Visible(g, q) == SelectSeq(g, LAMBDA node : Matches(node, q))

Init ==
    /\ graph \in Graphs
    /\ query = <<>>
    /\ visible = <<>>
    /\ reported = NoNode
    /\ open = TRUE

SetQuery(q) ==
    /\ open
    /\ query' = q
    /\ visible' = Visible(graph, q)
    /\ reported' = NoNode
    /\ UNCHANGED <<graph, open>>

Pick(k) ==
    /\ open
    /\ k \in 1..Len(visible)
    /\ reported' = visible[k]
    /\ query' = <<>>
    /\ visible' = <<>>
    /\ UNCHANGED <<graph, open>>

\* A step of the user interface that reports nothing and changes no query.
Quiet ==
    /\ reported' = NoNode
    /\ UNCHANGED <<graph, query, visible, open>>

Close ==
    /\ open
    /\ open' = FALSE
    /\ reported' = NoNode
    /\ UNCHANGED <<graph, query, visible>>

Reopen ==
    /\ ~open
    /\ open' = TRUE
    /\ query' = <<>>
    /\ visible' = <<>>
    /\ reported' = NoNode
    /\ UNCHANGED graph

\* The caller supplies another collection; the list follows it.
GraphChange(g) ==
    /\ graph' = g
    /\ visible' = Visible(g, query)
    /\ reported' = NoNode
    /\ UNCHANGED <<query, open>>

Next ==
    \/ \E q \in Strings : SetQuery(q)
    \/ \E k \in 1..Len(visible) : Pick(k)
    \/ Quiet
    \/ Close
    \/ Reopen
    \/ \E g \in Graphs : GraphChange(g)

Spec == Init /\ [][Next]_vars

=============================================================================
