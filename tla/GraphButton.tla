----------------------------- MODULE GraphButton -----------------------------
(***************************************************************************)
(* GraphButton.tsx: an MUI Button that takes its label from the extra prop *)
(* displayText.  Each render copies the props, deletes displayText from    *)
(* the copy, and renders                                                   *)
(*   <Button {...attributes} disableRipple classes={{root}}>{displayText}  *)
(* The props are functions from prop names to values; a JSX attribute      *)
(* written after a spread overrides it, which is f @@ g with f on the left.*)
(* Styling (makeStyles) is abstracted to the one class name it yields.     *)
(***************************************************************************)
EXTENDS TLC, Functions

CONSTANTS
    ButtonPropNames, \* props of MUI's Button a caller may pass (ButtonProps)
    Values,          \* the values a caller may give them
    RootClass,       \* styles.button, the class makeStyles generates
    Undefined

VARIABLES
    props,           \* the props of the latest render
    buttonProps      \* the props that render passed to MUI's Button

vars == <<props, buttonProps>>

\* Every props object a caller may pass: displayText plus any ButtonProps.
PropsObjects ==
    UNION {[D -> Values] : D \in SUBSET (ButtonPropNames \cup {"displayText"})}

\* const { displayText } = props;
DisplayText(p) == IF "displayText" \in DOMAIN p THEN p["displayText"] ELSE Undefined

\* A variant of the copy without the delete of displayText.
AttributesKeepDisplayText(p) == p

\* const attributes = { ...props }; delete attributes.displayText;
Attributes(p) == Restrict(p, DOMAIN p \ {"displayText"})

RootClasses == [root |-> RootClass]

\* A variant of the element with the spread written after the explicit
\* props: <Button disableRipple classes={..} {...attributes}>.
ButtonPropsSpreadLast(p) ==
    Attributes(p) @@ ("children" :> DisplayText(p))
                  @@ ("disableRipple" :> TRUE) @@ ("classes" :> RootClasses)

\* <Button {...attributes} disableRipple classes={{ root: styles.button }}>
\*     {displayText}</Button>: the explicit props and the child override the
\* spread.
ButtonProps(p) ==
    ("children" :> DisplayText(p)) @@ ("disableRipple" :> TRUE)
        @@ ("classes" :> RootClasses) @@ Attributes(p)

TypeOK ==
    /\ props \in PropsObjects
    /\ DOMAIN buttonProps \subseteq ButtonPropNames \cup {"children", "disableRipple", "classes"}

Init ==
    /\ props \in PropsObjects
    /\ buttonProps = ButtonProps(props)

\* The parent renders GraphButton with new props.
Render(p) ==
    /\ p # props
    /\ props' = p
    /\ buttonProps' = ButtonProps(p)

Next == \E p \in PropsObjects : Render(p)

Spec == Init /\ [][Next]_vars

-----------------------------------------------------------------------------

\* What a GraphButton is, key by key: every prop the caller passes reaches
\* MUI's Button unchanged, except that displayText becomes the content (the
\* caller's children is replaced by it), the ripple is always off and the
\* root class is always GraphButton's own, whatever the caller passed.
ButtonGetsCallerProps ==
    /\ buttonProps["children"] = DisplayText(props)
    /\ buttonProps["disableRipple"] = TRUE
    /\ buttonProps["classes"] = RootClasses
    /\ \A k \in DOMAIN props \ {"displayText", "children", "disableRipple", "classes"} :
          k \in DOMAIN buttonProps /\ buttonProps[k] = props[k]

=============================================================================
