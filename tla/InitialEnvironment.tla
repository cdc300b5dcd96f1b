------------------------- MODULE InitialEnvironment -------------------------
(***************************************************************************)
(* useInitialEnvironment (spec 4.2, 5): a hook that queries the available  *)
(* environments through useAvailableEnvironments (a react-query query with *)
(* an enabled flag) and, when a fetch resolves, hands the collected        *)
(* environment with the highest impactValue to handleInitialEnvironment.   *)
(*                                                                         *)
(* The hook's source is not in this repository excerpt; its behaviour is   *)
(* taken from the spec.  The environments are those of its test,           *)
(* useInitialEnvironment.test.tsx.                                         *)
(***************************************************************************)
EXTENDS Integers, Sequences, SequencesExt

CONSTANTS
    ServerLists,  \* the lists GET /api/v2/available-domains may answer with
    MaxRefetches, \* bound on the invalidation refetches of one run
    None          \* no call / no data

ASSUME MaxRefetches \in Nat

VARIABLES
    mounted,      \* the calling component is mounted
    enabled,      \* queryOptions.enabled
    serverList,   \* what the endpoint answers with now
    inflight,     \* a fetch has been sent and not answered
    needsFetch,   \* react-query owes the observer a fetch (mount, enabling)
    refetches,    \* invalidation refetches started so far
    data,         \* the query's data: the last list that resolved, or None
    called        \* the environment passed to handleInitialEnvironment by
                  \* the last step, or None

vars == <<mounted, enabled, serverList, inflight, needsFetch, refetches, data,
          called>>

\* The test's environments (fakeEnvironmentA .. D); type and name are not
\* read by the selection and are left out.
FakeEnvironmentA == [id |-> "a", impactValue |-> 10, collected |-> TRUE]
FakeEnvironmentB == [id |-> "b", impactValue |-> 5, collected |-> TRUE]
FakeEnvironmentC == [id |-> "a", impactValue |-> 10, collected |-> FALSE]
FakeEnvironmentD == [id |-> "b", impactValue |-> 5, collected |-> FALSE]

Environment == UNION {ToSet(l) : l \in ServerLists}

\* Step 1: the entries marked collected.
Collected(l) == {e \in ToSet(l) : e.collected}

\* Steps 2-3: nothing for no collected entry, else one with the maximum
\* impactValue (the tie-break is left open by the spec, so any maximum).
Candidates(l) ==
    {e \in Collected(l) : \A f \in Collected(l) : f.impactValue <= e.impactValue}

TypeOK ==
    /\ mounted \in BOOLEAN
    /\ enabled \in BOOLEAN
    /\ serverList \in ServerLists
    /\ inflight \in BOOLEAN
    /\ needsFetch \in BOOLEAN
    /\ refetches \in 0..MaxRefetches
    /\ data \in ServerLists \cup {None}
    /\ called \in Environment \cup {None}

Init ==
    /\ mounted = TRUE
    /\ enabled \in BOOLEAN
    /\ serverList \in ServerLists
    /\ inflight = FALSE
    /\ needsFetch = TRUE
    /\ refetches = 0
    /\ data = None
    /\ called = None

\* The query sends a request (no call in this step).
Send ==
    /\ inflight' = TRUE
    /\ called' = None
    /\ UNCHANGED <<mounted, enabled, serverList, data>>

\* The query fetches by itself when the observer mounts or becomes enabled
\* (the data is stale), never while disabled.
AutoFetch ==
    /\ mounted /\ enabled /\ needsFetch /\ ~inflight
    /\ Send
    /\ needsFetch' = FALSE
    /\ UNCHANGED refetches

\* A refetch from an invalidation of the query by the data layer.
Refetch ==
    /\ mounted /\ enabled /\ ~inflight
    /\ refetches < MaxRefetches
    /\ Send
    /\ refetches' = refetches + 1
    /\ UNCHANGED needsFetch

\* The answer arrives: the query stores the list `stored`; if `live`, the
\* hook runs its selection on the answer (step 4: one call when there is a
\* candidate).
Answer(stored, live) ==
    /\ inflight
    /\ inflight' = FALSE
    /\ data' = stored
    /\ called' \in IF live /\ Candidates(serverList) # {}
                   THEN Candidates(serverList) ELSE {None}
    /\ UNCHANGED <<mounted, enabled, serverList, needsFetch, refetches>>

\* A variant of Resolve that keeps only the collected entries as the query's
\* data (the filter moved into the query's select).
ResolveStoresCollected ==
    Answer(SelectSeq(serverList, LAMBDA e : e.collected), mounted)

\* The answer arrives; a hook that is still mounted runs its selection.
Resolve == Answer(serverList, mounted)

\* The fetch fails: no retry or report by the hook, no call (spec 4.2, 7).
FetchFail ==
    /\ inflight
    /\ inflight' = FALSE
    /\ called' = None
    /\ UNCHANGED <<mounted, enabled, serverList, needsFetch, refetches, data>>

\* The caller flips queryOptions.enabled; turning it on makes the stale
\* query fetch.  An in-flight fetch is not cancelled by turning it off.
ToggleEnabled ==
    /\ enabled' = ~enabled
    /\ needsFetch' = (needsFetch \/ ~enabled)
    /\ called' = None
    /\ UNCHANGED <<mounted, serverList, inflight, refetches, data>>

\* The calling component unmounts or mounts again.
Unmount ==
    /\ mounted
    /\ mounted' = FALSE
    /\ called' = None
    /\ UNCHANGED <<enabled, serverList, inflight, needsFetch, refetches, data>>

Remount ==
    /\ ~mounted
    /\ mounted' = TRUE
    /\ needsFetch' = TRUE
    /\ called' = None
    /\ UNCHANGED <<enabled, serverList, inflight, refetches, data>>

\* The environments held by the server change between fetches.
ServerChange(l) ==
    /\ l # serverList
    /\ serverList' = l
    /\ called' = None
    /\ UNCHANGED <<mounted, enabled, inflight, needsFetch, refetches, data>>

Next ==
    \/ AutoFetch
    \/ Refetch
    \/ Resolve
    \/ FetchFail
    \/ ToggleEnabled
    \/ Unmount
    \/ Remount
    \/ \E l \in ServerLists : ServerChange(l)

Spec == Init /\ [][Next]_vars

=============================================================================
