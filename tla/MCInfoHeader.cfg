CONSTANTS
    TierParams = {"1", "2", "4", "5"}
    LabelParams = {"7", "8", "9"}
    TagIds <- MCTagIds
    NumToString <- MCNumToString
    Undefined = Undefined
SPECIFICATION Spec
INVARIANT LinkTargetsShownZone
PROPERTY EventuallyEnabled
