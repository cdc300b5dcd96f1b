----------------------------- MODULE InfoHeader -----------------------------
(***************************************************************************)
(* The Zone Management header (InfoHeader.tsx): a Create Selector link     *)
(* whose target tag comes from the route params tierId / labelId, with     *)
(* tierId defaulting to the highest-privilege tag, loaded asynchronously   *)
(* by useHighestPrivilegeTagId.  The component itself keeps no state; the  *)
(* model's state is its inputs, and the link is derived from them as on    *)
(* every render.                                                           *)
(***************************************************************************)
EXTENDS Integers, Sequences

CONSTANTS
    TierParams,   \* values the :tierId route segment may take (strings)
    LabelParams,  \* values the :labelId route segment may take (strings)
    TagIds,       \* tag ids the highest-privilege query may answer (numbers)
    NumToString,  \* Number.prototype.toString on TagIds
    Undefined

VARIABLES
    tierParam,    \* useParams().tierId, or Undefined
    labelParam,   \* useParams().labelId, or Undefined
    topTagId      \* useHighestPrivilegeTagId().tagId, Undefined while loading

vars == <<tierParam, labelParam, topTagId>>

\* JavaScript truthiness of a string or undefined.
Truthy(s) == s # Undefined /\ s # ""

\* A template literal ${x}: undefined is written as the string "undefined".
Template(x) == IF x = Undefined THEN "undefined" ELSE x

\* A variant of the tierId destructuring without the topTagId default.
TierIdNoDefault == tierParam

\* const { tierId = topTagId?.toString(), labelId } = useParams();
TierId == IF tierParam # Undefined THEN tierParam
          ELSE IF topTagId = Undefined THEN Undefined
          ELSE NumToString[topTagId]

\* A variant of the tagId choice with the two branches swapped.
TagIdSwapped == IF labelParam = Undefined THEN labelParam ELSE TierId

\* const tagId = labelId === undefined ? tierId : labelId;
TagId == IF labelParam = Undefined THEN TierId ELSE labelParam

\* getTagUrlValue(labelId): the URL kind of the target.
GetTagUrlValue(labelId) == IF labelId = Undefined THEN "tier" ELSE "label"

\* <Button disabled={!tagId}>
Disabled == ~Truthy(TagId)

\* to={`/zone-management/save/${getTagUrlValue(labelId)}/${tagId}/selector`}
Href == <<"zone-management", "save", GetTagUrlValue(labelParam),
          Template(TagId), "selector">>

Init ==
    /\ tierParam \in TierParams \cup {Undefined}
    /\ labelParam \in LabelParams \cup {Undefined}
    /\ topTagId = Undefined

\* The user navigates to another Zone Management route.
Navigate(t, l) ==
    /\ <<t, l>> # <<tierParam, labelParam>>
    /\ tierParam' = t
    /\ labelParam' = l
    /\ UNCHANGED topTagId

\* The highest-privilege tag query answers (first load or a refetch); the
\* query keeps its data, so it never returns to undefined.
TopTagAnswer(n) ==
    /\ topTagId' = n
    /\ UNCHANGED <<tierParam, labelParam>>

Next ==
    \/ \E t \in TierParams \cup {Undefined}, l \in LabelParams \cup {Undefined} :
          Navigate(t, l)
    \/ \E n \in TagIds : TopTagAnswer(n) /\ n # topTagId

\* The query's first answer arrives; later refetches and navigation may or
\* may not happen.
Spec == Init /\ [][Next]_vars
        /\ WF_vars(topTagId = Undefined /\ \E n \in TagIds : TopTagAnswer(n))

-----------------------------------------------------------------------------

\* An enabled Create Selector link always leads to the zone on screen: to
\* the label of the route when there is one, else to the route's tier, else
\* to the highest-privilege tier, and never to ".../undefined/selector".
LinkTargetsShownZone ==
    ~Disabled =>
        /\ Href[4] # "undefined"
        /\ labelParam # Undefined => Href[3] = "label" /\ Href[4] = labelParam
        /\ labelParam = Undefined =>
              /\ Href[3] = "tier"
              /\ Href[4] \in TierParams \cup {NumToString[n] : n \in TagIds}

\* Once the highest-privilege tag has loaded, the button stays enabled on
\* every route: the disabled state only covers the initial load.
EventuallyEnabled == <>[](~Disabled)

=============================================================================
