------------------------- MODULE SearchCurrentNodes -------------------------
(***************************************************************************)
(* The "Search Current Results" widget (SearchCurrentNodes.tsx): a         *)
(* filter-as-you-type list over the graph nodes the parent passes in as    *)
(* the prop currentNodes, built on downshift's useCombobox.                *)
(*                                                                         *)
(* One action per event that reaches the component: a keystroke in the     *)
(* input, a click on a result row, Enter, ArrowDown, a mouse move over a   *)
(* row, Escape, the input losing focus, a click outside the container, a   *)
(* new currentNodes prop, and the parent mounting the widget again.  Each  *)
(* action is the whole handler: downshift's reducer change, the code's     *)
(* stateReducer, and onInputValueChange with its setItems.                 *)
(*                                                                         *)
(* Strings are sequences of one-character strings, so that toLowerCase    *)
(* and includes are modelled by what they do.                              *)
(***************************************************************************)
EXTENDS Integers, Sequences, SequencesExt

CONSTANTS
    Graphs,     \* the currentNodes props the parent may pass: sequences of
                \* [id, label, objectId] in Object.entries order
    Queries,    \* the strings the user may type into the input
    CaseFold,   \* toLowerCase on characters: upper-case char -> lower-case
    NoNode      \* downshift's selectedItem null / "onSelect not called"

VARIABLES
    nodes,            \* the currentNodes prop of the latest render
    inputValue,       \* downshift inputValue
    items,            \* the items React state (setItems)
    isOpen,           \* downshift isOpen
    highlightedIndex, \* downshift highlightedIndex, 0-based, -1 for none
    selectedItem,     \* downshift selectedItem
    onSelectArg,      \* the node passed to onSelect by the last step, or NoNode
    mounted           \* whether the parent renders the widget

vars == <<nodes, inputValue, items, isOpen, highlightedIndex, selectedItem,
          onSelectArg, mounted>>

\* const LIST_ITEM_HEIGHT = 38; const MAX_CONTAINER_HEIGHT = 350;
LIST_ITEM_HEIGHT == 38
MAX_CONTAINER_HEIGHT == 350

\* downshift's default itemToString is String(item), for a node object the
\* string "[object Object]".
ObjectString == <<"[", "o", "b", "j", "e", "c", "t", " ",
                  "O", "b", "j", "e", "c", "t", "]">>

EmptyString == <<>>

Node == UNION {ToSet(g) : g \in Graphs}

-----------------------------------------------------------------------------
(* Conversions and the filter of onInputValueChange.                       *)

\* String.prototype.toLowerCase
ToLower(s) == [i \in DOMAIN s |-> IF s[i] \in DOMAIN CaseFold
                                  THEN CaseFold[s[i]] ELSE s[i]]

\* String.prototype.includes: t is a contiguous substring of s
Includes(s, t) == t \in SubSeqs(s)

\* Variants of the filter predicate as plausible slips would write it:
\* without the inputValue === '' early return, and comparing the label
\* with the input value as typed (only the label lower-cased).
NodeMatchesNoEmptyCheck(node, v) ==
    \/ Includes(ToLower(node.label), ToLower(v))
    \/ Includes(ToLower(node.objectId), ToLower(v))

NodeMatchesCaseSensitive(node, v) ==
    /\ v # EmptyString
    /\ \/ Includes(ToLower(node.label), v)
       \/ Includes(ToLower(node.objectId), v)

\* The predicate passed to flatNodeList.filter for input value v.
NodeMatches(node, v) ==
    /\ v # EmptyString
    /\ \/ Includes(ToLower(node.label), ToLower(v))
       \/ Includes(ToLower(node.objectId), ToLower(v))

\* flatNodeList.filter(...): the matching nodes in entry order.
FilterNodes(g, v) == SelectSeq(g, LAMBDA node : NodeMatches(node, v))

\* A variant of the handler that narrows the rows already listed instead of
\* filtering the whole flatNodeList.
SetInputNarrowing(v) ==
    /\ inputValue' = v
    /\ items' = IF v = inputValue THEN items ELSE FilterNodes(items, v)

\* downshift calls onInputValueChange only when the input value changes; the
\* handler recomputes items from the currentNodes of the current render.
SetInput(v) ==
    /\ inputValue' = v
    /\ items' = IF v = inputValue THEN items ELSE FilterNodes(nodes, v)

\* A variant of the height clamp that compares the row count, not the
\* pixel height, with MAX_CONTAINER_HEIGHT.
VirtualizationHeightCountClamp(n) ==
    IF n > MAX_CONTAINER_HEIGHT
    THEN MAX_CONTAINER_HEIGHT - 10
    ELSE LIST_ITEM_HEIGHT * n

\* The height given to the FixedSizeList.
VirtualizationHeight(n) ==
    IF LIST_ITEM_HEIGHT * n > MAX_CONTAINER_HEIGHT
    THEN MAX_CONTAINER_HEIGHT - 10
    ELSE LIST_ITEM_HEIGHT * n

\* getMenuProps({hidden: items.length === 0 && !inputValue})
MenuHidden == items = <<>> /\ inputValue = EmptyString

\* {items.length === 0 && inputValue && <ListItem>NO_RESULTS_TEXT</ListItem>}
NoResultsShown == items = <<>> /\ inputValue # EmptyString

-----------------------------------------------------------------------------

TypeOK ==
    /\ nodes \in Graphs
    /\ inputValue \in Queries \cup {EmptyString, ObjectString}
    /\ items \in Seq(Node)
    /\ isOpen \in BOOLEAN
    /\ highlightedIndex \in -1..(Len(items) - 1)
    /\ selectedItem \in Node \cup {NoNode}
    /\ onSelectArg \in Node \cup {NoNode}
    /\ mounted \in BOOLEAN

\* A freshly mounted widget: useState([]) and downshift's default state.
Fresh ==
    /\ inputValue = EmptyString
    /\ items = <<>>
    /\ isOpen = FALSE
    /\ highlightedIndex = -1
    /\ selectedItem = NoNode
    /\ onSelectArg = NoNode

Init ==
    /\ nodes \in Graphs
    /\ mounted = TRUE
    /\ Fresh

-----------------------------------------------------------------------------
(* Events.                                                                 *)

\* InputChange: the user types; downshift opens the menu, clears the
\* highlight, and onInputValueChange filters the nodes.
Type(q) ==
    /\ mounted
    /\ q # inputValue
    /\ isOpen' = TRUE
    /\ highlightedIndex' = -1
    /\ SetInput(q)
    /\ onSelectArg' = NoNode
    /\ UNCHANGED <<nodes, selectedItem, mounted>>

\* downshift's changes for a selection of row i (0-based): select it, close
\* the menu, drop the highlight.
SelectRow(i) ==
    /\ selectedItem' = items[i + 1]
    /\ isOpen' = FALSE
    /\ highlightedIndex' = -1

\* A variant of the ItemClick branch that also keeps the highlight the
\* state had before the click: return { ...changes, inputValue: '',
\* highlightedIndex: _state.highlightedIndex }.
ItemClickKeepsHighlight(i) ==
    /\ mounted
    /\ i \in 0..(Len(items) - 1)
    /\ selectedItem' = items[i + 1]
    /\ isOpen' = FALSE
    /\ highlightedIndex' = highlightedIndex
    /\ onSelectArg' = items[i + 1]
    /\ SetInput(EmptyString)
    /\ UNCHANGED <<nodes, mounted>>

\* ItemClick on row i: downshift selects items[i]; the stateReducer calls
\* onSelect with it and overrides inputValue with ''.
ItemClick(i) ==
    /\ mounted
    /\ i \in 0..(Len(items) - 1)
    /\ SelectRow(i)
    /\ onSelectArg' = items[i + 1]
    /\ SetInput(EmptyString)
    /\ UNCHANGED <<nodes, mounted>>

\* InputKeyDownEnter with an open menu and a highlighted row: downshift
\* selects the row and writes itemToString(item) into the input; the
\* stateReducer's default branch returns the changes untouched.
EnterKey ==
    /\ mounted
    /\ isOpen
    /\ highlightedIndex >= 0
    /\ SelectRow(highlightedIndex)
    /\ onSelectArg' = NoNode
    /\ SetInput(ObjectString)
    /\ UNCHANGED <<nodes, mounted>>

\* InputKeyDownArrowDown: on an open menu, highlights the next row, wrapping
\* around; on a closed
\* one, opens it on items.indexOf(selectedItem), else on the first row.
\* The rows are objects rebuilt from flatNodeList on every filter, so a
\* node selected earlier is never found by indexOf (-1).
ArrowDown ==
    /\ mounted
    /\ highlightedIndex' = IF items = <<>> THEN -1
                           ELSE IF isOpen THEN (highlightedIndex + 1) % Len(items)
                           ELSE IF selectedItem # NoNode THEN -1
                           ELSE 0
    /\ isOpen' = TRUE
    /\ onSelectArg' = NoNode
    /\ UNCHANGED <<nodes, inputValue, items, selectedItem, mounted>>

\* ItemMouseMove over row i of the rendered list.  The rows are rendered
\* whether or not the menu is open (getMenuProps hides the list only when it
\* is empty with an empty input), so this needs no isOpen.
ItemMouseMove(i) ==
    /\ mounted
    /\ i \in 0..(Len(items) - 1)
    /\ highlightedIndex' = i
    /\ onSelectArg' = NoNode
    /\ UNCHANGED <<nodes, inputValue, items, isOpen, selectedItem, mounted>>

\* InputKeyDownEscape: closes the menu; on a closed menu it also clears the
\* selection and the input.
EscapeKey ==
    /\ mounted
    /\ isOpen' = FALSE
    /\ highlightedIndex' = -1
    /\ IF isOpen
       THEN UNCHANGED <<inputValue, items, selectedItem>>
       ELSE /\ selectedItem' = NoNode
            /\ SetInput(EmptyString)
    /\ onSelectArg' = NoNode
    /\ UNCHANGED <<nodes, mounted>>

\* InputBlur from focus leaving the input (Tab): downshift dispatches it only
\* while the menu is open; it closes the menu and selects the highlighted
\* row, if any, writing itemToString(item) into the input.
InputBlur ==
    /\ mounted
    /\ isOpen
    /\ IF highlightedIndex >= 0
       THEN /\ SelectRow(highlightedIndex)
            /\ SetInput(ObjectString)
       ELSE /\ isOpen' = FALSE
            /\ highlightedIndex' = -1
            /\ UNCHANGED <<inputValue, items, selectedItem>>
    /\ onSelectArg' = NoNode
    /\ UNCHANGED <<nodes, mounted>>

\* useOnClickOutside(containerRef, onClose): the parent's onClose removes
\* the widget.
ClickOutside ==
    /\ mounted
    /\ mounted' = FALSE
    /\ onSelectArg' = NoNode
    /\ UNCHANGED <<nodes, inputValue, items, isOpen, highlightedIndex,
                   selectedItem>>

\* The parent mounts the widget again: all component state starts afresh.
Remount ==
    /\ ~mounted
    /\ mounted' = TRUE
    /\ inputValue' = EmptyString
    /\ items' = <<>>
    /\ isOpen' = FALSE
    /\ highlightedIndex' = -1
    /\ selectedItem' = NoNode
    /\ onSelectArg' = NoNode
    /\ UNCHANGED nodes

\* The parent re-renders with another currentNodes: flatNodeList is rebuilt
\* on the render, items (React state) is not.
NodesChange(g) ==
    /\ g # nodes
    /\ nodes' = g
    /\ onSelectArg' = NoNode
    /\ UNCHANGED <<inputValue, items, isOpen, highlightedIndex, selectedItem,
                   mounted>>

Next ==
    \/ \E q \in Queries \cup {EmptyString} : Type(q)
    \/ \E i \in 0..(Len(items) - 1) : ItemClick(i) \/ ItemMouseMove(i)
    \/ EnterKey
    \/ ArrowDown
    \/ EscapeKey
    \/ InputBlur
    \/ ClickOutside
    \/ Remount
    \/ \E g \in Graphs : NodesChange(g)

Spec == Init /\ [][Next]_vars

-----------------------------------------------------------------------------
(* Properties.                                                             *)

\* The promised behaviour (AbstractSearch), seen through the component's
\* state: the query is downshift's inputValue, the list the items state,
\* the report the onSelect call, and the widget is open while mounted.
Abs == INSTANCE AbstractSearch
         WITH graph <- nodes, query <- inputValue, visible <- items,
              reported <- onSelectArg, open <- mounted,
              Strings <- Queries \cup {EmptyString, ObjectString}

\* Every listed result matches what is in the input, case-insensitively, on
\* its label or objectId, and nothing is listed for an empty input: the
\* onInputValueChange filter with its '' early return, rerun by downshift
\* after the stateReducer clears the input on ItemClick.
ItemsMatchQuery ==
    \A k \in 1..Len(items) : Abs!Matches(items[k], inputValue)

\* The FixedSizeList is never taller than the scroll container
\* (MAX_CONTAINER_HEIGHT), never taller than its rows (no whitespace below
\* a short list), and shows at least one row when there are results.
ListHeightBounded ==
    LET h == VirtualizationHeight(Len(items)) IN
    /\ h <= MAX_CONTAINER_HEIGHT
    /\ h <= LIST_ITEM_HEIGHT * Len(items)
    /\ items # <<>> => h >= LIST_ITEM_HEIGHT

\* Stale rows last only until the input next changes: every step that
\* changes downshift's inputValue (typing, a click's '', Enter's or a blur's
\* "[object Object]", Escape's clear) leaves listed exactly the matches of
\* the new input in the currentNodes of that render, whatever graph changes,
\* earlier queries or selections came before.  onInputValueChange filters
\* flatNodeList, rebuilt from the prop on every render.
ListFollowsEachInputChange ==
    [][inputValue' # inputValue => items' = Abs!Visible(nodes', inputValue')]_vars

\* Spec 4.1: picking a visible item calls onSelect with it.  Whenever a step
\* makes a node the selection, that step calls onSelect with that node.
SelectionReported ==
    [][selectedItem' # NoNode /\ selectedItem' # selectedItem =>
          onSelectArg' = selectedItem']_vars

\* Spec 3/8.1: the list is exactly the nodes of currentNodes that match the
\* query, and a node is identified by its id (spec 3).  Whenever onSelect
\* reports a node, currentNodes of that render has a node with its id.
ReportedNodeInGraph ==
    [][onSelectArg' # NoNode =>
          \E k \in 1..Len(nodes') : nodes'[k].id = onSelectArg'.id]_vars

\* The widget implements its promised behaviour: every step of the
\* component is a step of AbstractSearch under the mapping above.
ImplementsAbstractSearch == Abs!Spec

=============================================================================
