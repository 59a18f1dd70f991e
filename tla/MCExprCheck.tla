----------------------------- MODULE MCExprCheck ------------------------------
(****************************************************************************)
(* Small instance of CExprCheck: variables of the types the rules tell apart, *)
(* a struct with a const member, and a function of a pointer.  Left out are   *)
(* the places where the code itself loses a const: pointers to const void,    *)
(* const enums, array members, and ASSIGNMENT_BITWISE_XOR.                    *)
(****************************************************************************)
EXTENDS CExprCheck

Variable_(t) == Operand(t, TRUE, ConstsOf(t))
Const(t)     == [t EXCEPT !.q = {"const"}]

MCInt  == INT(4, FALSE)
Struct == TAGGED("STRUCT", 1, TRUE)

MCMembers(id) == [a |-> MCInt, b |-> Const(MCInt), p |-> POINTER(MCInt)]
MCVoidQualifiers == {{}}
MCEnumQualifiers == {{}}

MCFields      == {"a", "b", "p"}

Numbers ==
    {Operand(MCInt, FALSE, << FALSE >>),
     Variable_(MCInt), Variable_(Const(MCInt)),
     Variable_(INT(4, TRUE)),
     Operand(TAGGED("ENUM", 2, TRUE), FALSE, << FALSE >>)}
Pointers ==
    {Variable_(POINTER(Const(MCInt))), Variable_(POINTER(VOID)),
     Variable_(POINTER(POINTER(MCInt))),
     Variable_(ARRAY(Const(MCInt), 3))}
Structs == {Variable_(Struct), Variable_(POINTER(Const(Struct)))}
Functions_ == {Variable_(POINTER(FUNCTION(MCInt, << POINTER(MCInt) >>, FALSE)))}

MCLeaves    == Numbers \cup Pointers \cup Structs \cup Functions_
MCCastTypes == {MCInt, POINTER(MCInt)}
MCUnaryOps  ==
    {"POSFIX_INC", "PREFIX_DEC", "REFERENCE", "DEREFERENCE", "LOGICAL_NOT",
     "BITWISE_NOT", "MINUS"}
MCBinaryOps ==
    {"PLUS", "MINUS", "MULTIPLY", "BITWISE_AND", "BITWISE_XOR", "LESS_THAN", "EQUAL",
     "LOGICAL_AND", "ASSIGNMENT", "ASSIGNMENT_PLUS", "ASSIGNMENT_MULTIPLY"}

\* The instance is one of those the theorems about const are about.
ASSUME ConstsAssumption == KeepsConst /\ NoXorAssignment
==============================================================================
