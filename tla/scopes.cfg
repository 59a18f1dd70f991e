CONSTANTS
    x = x
    f = f
    L = L
    one = one
    NoDef = NoDef
    NoReturn <- MCNoReturn
    Names <- MCNames
    Functions <- MCFunctions
    Labels <- MCLabels
    CaseValues <- MCCases
    Basics <- MCBasics
    Void <- MCVoid
    Bool <- MCBool
    Specs <- MCSpecs
    ParameterLists <- MCParameterLists
    TagType <- MCTagType
    CompatibleTypes <- MCCompatibleTypes
    Casts <- MCCasts
    UnknownId <- MCUnknownId
    Budgets <- MCBudgets
    MaxUnits = 2
SPECIFICATION Spec
INVARIANTS  FunctionStateMirrorsWalk DuplicatesExact TypeIdsUnique
PROPERTY TagsStable
CHECK_DEADLOCK FALSE
