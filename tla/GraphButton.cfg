CONSTANTS
    ButtonPropNames = {"onClick", "disabled", "children", "disableRipple", "classes"}
    Values = {v1, v2}
    RootClass = RootClass
    Undefined = Undefined
SPECIFICATION Spec
INVARIANT TypeOK
INVARIANT ButtonGetsCallerProps
