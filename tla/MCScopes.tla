------------------------------- MODULE MCScopes -------------------------------
(****************************************************************************)
(* Small instance of CStatements, with the types of CTypes: a variable, a     *)
(* function, a label, a case value, a struct and an enum of one enumerator.   *)
(****************************************************************************)
EXTENDS CStatements

CONSTANTS x, f, L, one

Types == INSTANCE CTypes WITH
            TypeDepth <- 2, TagIds <- Int, EnumIds <- Int, VoidQualifiers <- {{}},
    EnumQualifiers <- {{}}

MCNames     == {x}
MCFunctions == {f}
MCLabels    == {L}
MCCases     == {one}

Integer  == Types!INT(4, FALSE)
MCVoid   == Types!VOID
MCBool   == Types!INT(1, FALSE)
MCBasics == {Integer, MCVoid}
MCNoReturn == Types!NoType

Struct == << "STRUCT", "S" >>
Enum   == << "ENUM", "E" >>
MCSpecs ==
    {[basic |-> Integer],
     [tag |-> Struct, def |-> NoDef, enumerators |-> {}],
     [tag |-> Struct, def |-> "members", enumerators |-> {}],
     [tag |-> Enum, def |-> "members", enumerators |-> {x}]}

MCParameterLists == {<< >>, << [name |-> x, type |-> Integer] >>}

Verdict(t) == IF t = Types!NoType THEN "no" ELSE IF t = Types!AssertFails THEN "fails" ELSE "yes"
MCCompatibleTypes(a, b) == Verdict(Types!CompatibleWith(a, b))
MCCasts(a, b)      == Verdict(Types!ImplicitCastTo(a, b))
MCTagType(kind, id, def) == Types!TAGGED(kind, id, def # NoDef)
\* Trees with many declarations, with many labels, with branches, and units
\* of two functions.
Budget(d, f1, l, b, n) ==
    [declaration |-> d, function |-> f1, leaf |-> l, branch |-> b, nest |-> n]
MCBudgets ==
    {Budget(3, 1, 0, 0, 1), Budget(2, 1, 1, 0, 1), Budget(0, 1, 0, 0, 5), Budget(0, 1, 2, 0, 3),
     Budget(1, 1, 1, 1, 1), Budget(1, 2, 1, 0, 2)}
MCUnknownId == Types!NoId
==============================================================================
