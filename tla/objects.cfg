SPECIFICATION Spec
CONSTANTS
    Objects <- MCObjects
    Values <- MCValues
    Members <- MCMembers
    Designations <- MCDesignations
    CastTo <- ImplicitCastTo
    Nesting = 4
    MaxItems = 5
    TypeDepth = 3
    TagIds = {1, 2, 3}
    EnumIds = {4}
    VoidQualifiers <- MCVoidQualifiers
    EnumQualifiers <- MCEnumQualifiers
INVARIANT SizeIsExact
PROPERTY FillsInOrder
CHECK_DEADLOCK FALSE
