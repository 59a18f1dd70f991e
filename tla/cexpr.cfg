SPECIFICATION Spec
CONSTANTS
    Leaves <- MCLeaves
    UnaryOps <- MCUnaryOps
    BinaryOps <- MCBinaryOps
    CastTypes <- MCCastTypes
    Fields <- MCFields
    Members <- MCMembers
    MaxDepth = 3
    TypeDepth = 4
    TagIds = {1}
    EnumIds = {2}
    VoidQualifiers <- MCVoidQualifiers
    EnumQualifiers <- MCEnumQualifiers
INVARIANTS ConstSafe ConstVisible Balanced
CHECK_DEADLOCK FALSE
