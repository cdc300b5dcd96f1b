# TLA+ models of the BloodHound CE UI excerpt

This directory holds TLA+ models of the parts of the excerpt under `src/` that
keep state: the "Search Current Results" widget, the initial-environment
hook, the Zone Management header's Create Selector link and GraphButton's
props. It also holds the TLC configurations that check them.

## 1. Inventory

The sources are six files of a React front end.

| Component | Source | State | Operations | Status |
|---|---|---|---|---|
| SearchCurrentNodes | `bh-shared-ui/.../SearchCurrentNodes/SearchCurrentNodes.tsx` | `items` (React state), downshift's `inputValue`, `isOpen`, `highlightedIndex`, `selectedItem`; the `currentNodes` prop | type, click a row, Enter, ArrowDown, mouse over a row, Escape, input blur, click outside (`onClose`), new `currentNodes`, remount | modelled |
| useInitialEnvironment | only its test, `useInitialEnvironment.test.tsx` | react-query data / in-flight fetch, `enabled`, mount | fetch, answer, failure, toggle `enabled`, unmount / remount, server-side change | partly (hook modelled from the spec) |
| InfoHeader | `cmd/ui/.../ZoneManagement/InfoHeader.tsx` | none of its own; it reads the route params and the async highest-privilege tag query | navigation, the tag query's answer; the link is derived on every render | modelled |
| CopyMenuItem | test only | none | one synchronous clipboard write | not modelled |
| GraphButton | `GraphButton.tsx` | none; its props | render | modelled (styling abstracted) |
| CommunityIcon | `CommunityIcon.tsx` | none | render | not modelled (static SVG) |

How the parts interact:
- The two stateful parts never call each other.
- SearchCurrentNodes talks to its parent through two paths:
  - the props `currentNodes`, `onSelect` and `onClose`;
  - callbacks from two libraries. `useCombobox` (downshift) runs the
    combobox state machine. The code's `stateReducer` and
    `onInputValueChange` hook into it.
- useInitialEnvironment talks to the server through a react-query query with
  an `enabled` flag. It talks to its caller through `handleInitialEnvironment`.

### What is hard here

- **Library callbacks in sequence.** A click makes downshift compute its
  changes. Next, the code's `stateReducer` overrides `inputValue`. Then
  downshift calls `onInputValueChange`, which runs `setItems`. A property of
  the widget therefore depends on the order of three separate handlers.
- **Two selection paths.** Downshift selects on a click (`ItemClick`). It also
  selects on Enter and on blur with a row highlighted. The code only handles
  the first one.
- **State kept across renders.** `items` is React state. `flatNodeList` is
  rebuilt from the prop on every render, but `items` is recomputed only when
  the input changes.
- **A default that arrives later.** InfoHeader's `tierId` defaults to the
  highest-privilege tag, which is loaded asynchronously. Until it arrives, the
  link already points to `.../undefined/selector`.

### What makes each part correct

SearchCurrentNodes:
- Each listed row matches the input case-insensitively.
- Nothing is listed while the input is empty.
- The list height stays within the container.
- The highlight always points at a listed row.
- Every change of the input lists the matches of the current graph.

useInitialEnvironment: the hook's source is not in the excerpt. So only the
model's type invariant is checked; see "What the runs show".

InfoHeader:
- An enabled link targets the label of the route, else its tier, else the
  top tier, and never `undefined`.
- The button is disabled only until the tag query first answers.

## 2. Modules

| Module | Models |
|---|---|
| `SearchCurrentNodes.tla` | The widget. Variables: `nodes` (the `currentNodes` prop), `inputValue`, `items`, `isOpen`, `highlightedIndex`, `selectedItem`, `onSelectArg` (the node given to `onSelect` by the last step) and `mounted`. There is one action per event. Each action is the whole handler: downshift's reducer change for that event, then the code's `stateReducer`, then `onInputValueChange` with `setItems` (the operator `SetInput`). |
| `AbstractSearch.tla` | The contract of spec §3, §4.1 and §8, with no library detail. The list is always `Visible(graph, query)`. A pick reports a visible node and clears the query. The graph may change, and then the list follows it. |
| `InitialEnvironment.tla` | The hook and its data source, from spec §4.2 and §5. The environments are the test fixtures. |
| `InfoHeader.tla` | The header. The variables are its inputs: `tierParam`, `labelParam` (from `useParams`) and `topTagId` (the query's answer, `Undefined` while loading). `TierId`, `TagId`, `Disabled` and `Href` are derived from them, line by line, as each render does. The template literal writes `undefined` as the string `"undefined"` (`Template`). `getTagUrlValue` is not in the excerpt and is modelled from its use. |
| `GraphButton.tla` | One render of GraphButton. Props are functions from prop names to values. The spread `{...attributes}` followed by explicit JSX props is `f @@ g`, where the left side wins: the explicit props and the `{displayText}` child override the caller's. `makeStyles` becomes one class name, `RootClass`. |
| `MC*.tla` / `*.cfg` | Instantiations for TLC. |

### How strings are modelled

Strings are sequences of one-character strings:
- `toLowerCase` is `ToLower`, which maps characters through `CaseFold`;
- `includes` is membership in `SubSeqs`;
- downshift's default `itemToString` turns a node into the literal
  `"[object Object]"` (`ObjectString`).

`AbstractSearch` defines matching separately, as a character-wise comparison
at some offset (`ContainsCI`). The code's filter is checked against that
definition.

### Downshift behaviour assumed

Downshift is a library, and its code is not in `src/`. The model uses the
reducer changes of `useCombobox`, v7 (the version that still has
`getComboboxProps`):

| Event | Change |
|---|---|
| InputChange | a different value, including `''`; opens the menu, highlight −1, new `inputValue` |
| ItemClick | selects `items[i]`, closes, `inputValue = itemToString(item)` |
| InputKeyDownEnter | only when open and a row is highlighted; selects it, closes, `inputValue = itemToString(item)` |
| ArrowDown | when open, the next row, wrapping; when closed, opens on `items.indexOf(selectedItem)`, otherwise row 0 |
| Escape | closes; on a menu already closed it also clears the selection and the input |
| InputBlur | dispatched only while the menu is open; closes, and selects the highlighted row, if any |

More detail on these events:
- `onInputValueChange` runs only when the value actually changes.
- Rows are fresh objects after every filter. So `indexOf` on an earlier
  selection gives −1.

### Correspondence to the code

| Action | Source |
|---|---|
| `Type` | `getInputProps` (l.123–131), then `onInputValueChange` (l.57–67) |
| `ItemClick` | `stateReducer`, ItemClick branch (l.71–75) |
| `EnterKey`, `EscapeKey`, `InputBlur` | `stateReducer`, default branch (l.76–77) |
| `ClickOutside` | `useOnClickOutside(containerRef, onClose)` (l.53). The parent's `onClose` unmounts the widget, and `Remount` mounts it fresh (`useState([])`). |
| `NodesChange` | a render with a new `currentNodes` (l.31–44) |

## 3. Runs

| Run | Expect | Checks |
|---|---|---|
| `search_safety` (`MCSearchCurrentNodes.cfg`) | pass | `TypeOK` (the highlight is a listed row), `ItemsMatchQuery`, `ListHeightBounded`, `ListFollowsEachInputChange` |
| `search_refines_abstract` (`MCSearchCurrentNodes_refine.cfg`) | pass | `ImplementsAbstractSearch` (`AbstractSearch!Spec` under the mapping `graph←nodes`, `query←inputValue`, `visible←items`, `reported←onSelectArg`, `open←mounted`) |
| `search_keyboard_select` | violation | `SelectionReported` |
| `search_stale_nodes` | violation | `ReportedNodeInGraph` |
| `initial_env_safety` (`MCInitialEnvironment.cfg`) | pass | `TypeOK` |
| `info_header_link` (`MCInfoHeader.cfg`) | pass | `LinkTargetsShownZone`, `EventuallyEnabled` |
| `graph_button_props` (`GraphButton.cfg`) | pass | `TypeOK` (MUI's Button never receives `displayText`), `ButtonGetsCallerProps` |

What the runs show:
- **The filter is exactly the contract.** The widget refines AbstractSearch as
  long as the parent keeps `currentNodes` fixed. So the code's
  lower-case-and-`includes` filter with its `''` early return equals the
  reference matching over every 1–3 character query. This covers mixed-case
  labels and matches on `objectId` only.
- **The highlight is reset on a click.** `TypeOK` bounds `highlightedIndex`
  by the listed rows. A `stateReducer` whose ItemClick branch also kept
  `_state.highlightedIndex` would leave a highlight on the emptied list.
- **Keyboard selection bypasses `onSelect` (finding).** TLC's shortest trace
  is: type `s`, hover row 0 (or ArrowDown), press Enter. Downshift selects the node, but the code's
  `stateReducer` calls `onSelect` only for `ItemClick`. The input becomes
  `"[object Object]"`, which shows "No result found in current results".
  Spec §4.1 says a pick calls `onSelect`. Tab away from an open menu with a row
  highlighted has the same effect.
- **Stale rows after a new `currentNodes` (finding).** The steps are: type,
  the parent passes a new graph, click a row. `onSelect` then receives a node
  of the old graph. The two graphs have disjoint ids, so that node's `id` is
  not in the current graph, and by spec §3 a node is identified by its `id`. The spec assumes the collection is fixed and does not say
  what happens when it changes.
  The staleness is bounded: `ListFollowsEachInputChange` shows that every
  step that changes the input lists exactly the matches of the current graph.
  Those steps are typing (including clearing the input), a click, Enter, a
  blur that selects, and Escape on a closed menu. So stale rows last only until the next keystroke. A handler
  that narrowed the rows already listed, instead of filtering `flatNodeList`,
  would break this property. It would also show nothing again after a
  cleared input.
- **The hook, type only.** The model explores fetches, failures, refetches,
  toggles, unmounts and server-side changes. `TypeOK` shows that the query's
  data is always a list the server answered with. It also shows that a
  callback only ever receives one of that list's entries. A `select` that
  stored only the collected entries breaks it. The hook's code is not in the
  excerpt. So properties about its selection, its unmount and `enabled`
  handling, or how often it calls back would only restate the spec the model
  was taken from, and none is checked.
- **InfoHeader's link.** This covers every combination of route params and
  every load state, including tag id 0 (a falsy number whose string `"0"` is
  truthy). Whenever the button is enabled, the link names the right kind
  (`label` or `tier`) and a defined id. The button stays disabled only until
  the tag query answers.
- **GraphButton's props.** The run covers all 729 props objects over
  `onClick`, `disabled`, `children`, `disableRipple`, `classes` and
  `displayText`. `displayText` never reaches MUI, which would pass it on to
  the DOM. Every other caller prop is forwarded, except three that
  GraphButton always overrides: the caller's `children`, `disableRipple` and
  `classes`.

Each property of a passing run has a mutant in `PROJECT.json`: a variant of
the code, written as a plausible slip, that TLC must show breaks it.

### Bounds

- **Search widget.**
  - There are two graphs. The 10-node graph lets the query `b` list 10 rows,
    which is the first count where the height clamp applies (10·38 > 350). The
    3-node graph has a mixed-case label, a match on `objectId` only, and no
    node id in common with the other graph (ids 11–13).
  - Queries are every string of length 1–3 over `{a, B, s}`. That covers upper
    and lower case, no match (`Ba`, `aBs`), matches on the label and matches
    on `objectId`.
  - The refinement run keeps one graph fixed: the 3-node graph followed by
    rows 4–7 of the 10-node one. It has mixed case, an `objectId`-only match
    and plain label matches.
- **Hook.** There are three lists and at most three fetches. That is enough
  to fail one fetch, toggle, unmount during a fetch and fetch again. At most
  two invalidation refetches (`MaxRefetches`) are allowed.
- **InfoHeader.** There are four route tier ids, three labels, and four tag
  ids the query may answer (0 to 3). This gives every defined/undefined
  combination of the two params, and 100 states.
- **GraphButton.** There are five Button props, plus `displayText`, each
  absent or one of two values. This includes the three props GraphButton
  overrides, so every override and every forward is exercised: 729 props
  objects.

### Fairness

- **InitialEnvironment.** None. No liveness property is checked for a hook
  whose code is absent.
- **InfoHeader.** There is weak fairness on the first answer of the tag query.
  This assumes the request succeeds. A query that keeps failing leaves
  `tagId` undefined and the button disabled, which is the safe side.
  Navigation is not fair.
- **SearchCurrentNodes.** None. Every step is a user event.

## 4. Not modelled, and why

- **Rendering.** MUI layout and react-window's windowing of rows are left out.
  Only the list height and the hidden and no-results conditions are kept.
- **CommunityIcon.** A static SVG with no props logic and no state.
- **GraphButton's styles.** The `makeStyles` rules (l.21–41) are visual
  styling. Only the class name they yield is kept.
- **CopyMenuItem.** Only its test is present, and it does one synchronous
  clipboard write.
- **Downshift events the code never handles differently.** ArrowUp, Home/End
  and MenuMouseLeave are left out. They only move the highlight, as ArrowDown
  does.
- **Tie-break between equal maxima.** The spec leaves it open, so the model
  lets the hook pick any maximum, and the properties must hold for every
  choice.
- **Whether a disabled link can be followed.** `disabled` goes through
  doodleui's `Button asChild` to an anchor, and an anchor has no disabled
  state. Whether a click still navigates depends on doodleui's styling, which
  is not in the excerpt. It is listed as a hazard.
- **Sort order.** The test passes `orderBy: 'name'` and still expects the
  entry with `impactValue` 10, whose name `a` is not the largest. So
  `orderBy` does not drive the selection. The model selects on
  `impactValue`.

## 5. Plan

The order is by importance.

1. Done:
   - `SearchCurrentNodes` with all of its events, its contract
     `AbstractSearch`, and the refinement;
   - `InitialEnvironment` as a spec-modelled hook, with its type invariant;
   - `InfoHeader`;
   - `GraphButton`'s props.
   - `ListFollowsEachInputChange`: stale rows are bounded by the next
     input change.
2. **Nothing more of the excerpt can be modelled faithfully from `src/`.**
   - **No composed model.** The Explore page, which would feed
     `currentNodes` from a graph query, is not in the excerpt, so there is
     nothing to compose the widget with. The bound on how long stale rows
     can stay is given by `ListFollowsEachInputChange` instead.
   - **useInitialEnvironment stays partly modelled.** The hook's source is
     not in the excerpt. Once it is available, it should be modelled from the
     code, replacing the spec-modelled actions.
   - **Still out of reach:** CopyMenuItem's component, doodleui's Button and
     `getTagUrlValue` are also not in the excerpt.
