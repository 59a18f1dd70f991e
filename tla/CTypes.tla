-------------------------------- MODULE CTypes --------------------------------
(****************************************************************************)
(* The relations between the types of cparser that the checks of declarations *)
(* and expressions are made of (cparser/lib/c_ast_type.cpp, c_ast_utils.cpp): *)
(* compatible_with and the composite type it returns, the implicit and        *)
(* explicit casts, and the balancing of operands.                             *)
(****************************************************************************)
EXTENDS CTypeKinds

CONSTANTS
    TypeDepth,        \* how deep types are nested: pointers, arrays and functions
    TagIds, EnumIds,  \* the ids of the structs and unions, and of the enums
    VoidQualifiers,   \* the sets of qualifiers that void is named with
    EnumQualifiers    \* the sets of qualifiers that enums are named with

ASSUME TypesAssumption ==
    /\ TypeDepth \in Nat \ {0}
    /\ TagIds \subseteq Int /\ EnumIds \subseteq Int
    /\ VoidQualifiers \subseteq SUBSET Qualifiers /\ {} \in VoidQualifiers
    /\ EnumQualifiers \subseteq SUBSET Qualifiers /\ {} \in EnumQualifiers

\* The types that are made of no others, and those made of types of T.  Nothing
\* gives a function qualifiers of its own.
BasicTypes ==
    [basic : {"INT"}, size : Nat, unsigned : BOOLEAN, q : SUBSET Qualifiers]
    \cup [basic : {"FLOAT"}, size : Nat, q : SUBSET Qualifiers]
    \cup [basic : {"VOID"}, q : VoidQualifiers]
    \cup [basic : {"STRUCT", "UNION"}, id : TagIds, def : BOOLEAN, q : SUBSET Qualifiers]
    \cup [basic : {"ENUM"}, id : EnumIds, def : BOOLEAN, q : EnumQualifiers]
TypesMadeOf(T) ==
    [basic : {"POINTER"}, to : T, q : SUBSET Qualifiers]
    \cup [basic : {"ARRAY"}, to : T, size : Int, static : BOOLEAN, q : SUBSET Qualifiers]
    \cup [basic : {"FUNCTION"}, ret : T, params : Seq(T), variadic : BOOLEAN, q : {{}}]

\* The types that are nested at most n deep.
TypesUpTo[n \in 0..TypeDepth] ==
    IF n = 0 THEN BasicTypes ELSE BasicTypes \cup TypesMadeOf(TypesUpTo[n - 1])
Types == TypesUpTo[TypeDepth]

\* ENUM_COMPATIBLE_INT_BYTE_WIDTH and ENUM_COMPATIBLE_INT_IS_UNSIGNED.
EnumInt == INT(4, TRUE)
IsEnumInt(t) == t.basic = "INT" /\ t.size = EnumInt.size /\ t.unsigned = EnumInt.unsigned

------------------------------------------------------------------------------
(* compatible_with: the composite of two compatible types, or NoType *)

\* The size of the composite of two array types; a mismatch is ruled out before.
CompositeSize(a, b) ==
    IF a.size # NoSize /\ b.size # NoSize THEN a.size
    ELSE IF a.size >= 0 THEN a.size
    ELSE IF b.size >= 0 THEN b.size
    ELSE NoSize

PointsTo(t)   == t.basic \in {"POINTER", "ARRAY"}
Prototyped(f) == f.params # << >> \/ f.variadic

\* t if the condition holds.
Provided(t, condition) == IF condition THEN t ELSE NoType

\* Structs and unions compare the id of the first with itself, so that any two
\* with the same qualifiers are compatible.
CompatibleStruct(a, b) == Provided(b, b.basic = "STRUCT" /\ SameQualifiers(a, b))
CompatibleUnion(a, b)  == Provided(b, b.basic = "UNION" /\ SameQualifiers(a, b))

CompatibleEnum(a, b) ==
    IF ~SameQualifiers(a, b) THEN NoType
    ELSE IF b.basic # "ENUM" THEN Provided(b, IsEnumInt(b))
    ELSE IF NoId \in {a.id, b.id} THEN AssertFails
    ELSE Provided(b, a.id = b.id)

CompatibleVoid(a, b) == Provided(b, b.basic = "VOID")

CompatibleInt(a, b) ==
    IF ~SameQualifiers(a, b) THEN NoType
    ELSE IF b.basic = "INT" THEN Provided(b, a.size = b.size /\ a.unsigned = b.unsigned)
    ELSE Provided(ResetQualifies(a), b.basic = "ENUM" /\ IsEnumInt(a))

CompatibleFloat(a, b) ==
    Provided(b, b.basic = "FLOAT" /\ a.size = b.size /\ SameQualifiers(a, b))

\* Of two types that are made of others: inner answers for those.
CompatiblePointer(a, b, inner) ==
    IF ~PointsTo(b) \/ ~SameQualifiers(a, b) THEN NoType
    ELSE LET c == inner[<< a.to, b.to >>]
         IN  IF IsType(c) THEN Qualify(POINTER(c), a.q) ELSE c

CompatibleArray(a, b, inner) ==
    IF b.basic # "ARRAY" \/ ~SameQualifiers(a, b) THEN CompatiblePointer(a, b, inner)
    ELSE LET c == inner[<< a.to, b.to >>]
         IN  IF ~IsType(c) THEN c
             ELSE Provided(Qualify([ARRAY(c, CompositeSize(a, b)) EXCEPT
                                      !.static = a.static /\ b.static], a.q),
                           a.size < 0 \/ b.size < 0 \/ a.size = b.size)

CompatibleFunction(a, b, inner) ==
    IF b.basic # "FUNCTION" THEN NoType
    ELSE LET r == inner[<< a.ret, b.ret >>] IN
         IF ~IsType(r) THEN r
         ELSE IF ~Prototyped(a) THEN b
         ELSE IF ~Prototyped(b) THEN FUNCTION(a.ret, a.params, a.variadic)
         ELSE IF a.variadic # b.variadic \/ Len(a.params) # Len(b.params) THEN NoType
         ELSE LET ps == [i \in DOMAIN a.params |-> inner[<< a.params[i], b.params[i] >>]]
              IN  Provided(FUNCTION(r, ps, FALSE), \A i \in DOMAIN ps : IsType(ps[i]))

CompositeType(a, b, inner) ==
    CASE a.basic = "STRUCT"  -> CompatibleStruct(a, b)
      [] a.basic = "UNION"   -> CompatibleUnion(a, b)
      [] a.basic = "ENUM"    -> CompatibleEnum(a, b)
      [] a.basic = "VOID"    -> CompatibleVoid(a, b)
      [] a.basic = "INT"     -> CompatibleInt(a, b)
      [] a.basic = "FLOAT"   -> CompatibleFloat(a, b)
      [] a.basic = "POINTER" -> CompatiblePointer(a, b, inner)
      [] a.basic = "ARRAY"   -> CompatibleArray(a, b, inner)
      [] OTHER               -> CompatibleFunction(a, b, inner)

CompatibleUpTo[n \in 0..TypeDepth] ==
    [p \in TypesUpTo[n] \X TypesUpTo[n] |->
        CompositeType(p[1], p[2], IF n = 0 THEN << >> ELSE CompatibleUpTo[n - 1])]
CompatibleWith(a, b) == CompatibleUpTo[TypeDepth][<< a, b >>]

Compatible(a, b) == IsType(CompatibleWith(a, b))

------------------------------------------------------------------------------
(* Casts: the type cast to, or NoType *)

ImplicitStruct(a, b) == Provided(b, b.basic = "STRUCT" /\ a.id = b.id)
ImplicitUnion(a, b)  == CompatibleWith(a, b)
\* The target is read as an enum before it is asked whether it is one.
ImplicitEnum(a, b)   == IF b.basic # "ENUM" THEN AssertFails ELSE Provided(b, a.id = b.id)
ImplicitVoid(a, b)   == Provided(b, b.basic = "VOID")
ImplicitInt(a, b)    == Provided(b, IsArithmetic(b) \/ b.basic = "ENUM")
\* A float goes to anything: it is the float that is asked to be arithmetic.
ImplicitFloat(a, b)  == b

\* The qualifiers a conversion of pointers may not drop.
DropsQualifier(from, to) == \E x \in {"const", "volatile"} : x \in from.q /\ x \notin to.q

ImplicitPointerDropping(a, b) ==                                   \* fault
    IF b.basic = "FUNCTION" THEN AssertFails
    ELSE Provided(b, /\ PointsTo(b)
                     /\ \/ a.to.basic = "VOID"
                        \/ b.basic = "POINTER" /\ b.to.basic = "VOID"
                        \/ Compatible(a.to, b.to))
ImplicitPointer(a, b) ==
    IF b.basic = "FUNCTION" THEN AssertFails
    ELSE Provided(b, /\ PointsTo(b)
                     /\ ~DropsQualifier(a.to, b.to)
                     /\ \/ a.to.basic = "VOID"
                        \/ b.basic = "POINTER" /\ b.to.basic = "VOID"
                        \/ Compatible(a.to, b.to))

ImplicitArray(a, b) ==
    Provided(b,
        CASE b.basic = "POINTER" ->
               \/ b.to.basic = "VOID" /\ ~DropsQualifier(a.to, b.to)
               \/ Compatible(a.to, b.to)
          [] b.basic = "ARRAY" ->
               /\ Compatible(a.to, b.to)
               /\ ~(b.static /\ a.size >= 0 /\ b.size >= 0 /\ b.size > a.size)
          [] OTHER -> FALSE)

ImplicitFunction(a, b) == Provided(b, b.basic = "POINTER" /\ Compatible(a, b.to))

ImplicitCastTo(a, b) ==
    CASE a.basic = "STRUCT"  -> ImplicitStruct(a, b)
      [] a.basic = "UNION"   -> ImplicitUnion(a, b)
      [] a.basic = "ENUM"    -> ImplicitEnum(a, b)
      [] a.basic = "VOID"    -> ImplicitVoid(a, b)
      [] a.basic = "INT"     -> ImplicitInt(a, b)
      [] a.basic = "FLOAT"   -> ImplicitFloat(a, b)
      [] a.basic = "POINTER" -> ImplicitPointer(a, b)
      [] a.basic = "ARRAY"   -> ImplicitArray(a, b)
      [] OTHER               -> ImplicitFunction(a, b)

ExplicitStruct(a, b)   == Provided(b, b.basic = "VOID" \/ (b.basic = "STRUCT" /\ a.id = b.id))
ExplicitUnion(a, b)    == Provided(b, b.basic = "VOID" \/ (b.basic = "UNION" /\ a.id = b.id))
ExplicitEnum(a, b)     == Provided(b, b.basic \in {"VOID", "ENUM"} \/ IsScalar(b))
ExplicitVoid(a, b)     == Provided(b, b.basic = "VOID")
ExplicitInt(a, b)      == Provided(b, IsScalar(b) \/ b.basic = "ENUM")
ExplicitFloat(a, b)    == Provided(b, IsArithmetic(b) \/ b.basic = "ENUM")
ExplicitPointer(a, b)  == Provided(b, b.basic \in {"POINTER", "ENUM", "INT", "ARRAY", "FUNCTION"})
ExplicitArray(a, b)    == Provided(b, b.basic \in {"POINTER", "ARRAY", "INT", "ENUM"})
ExplicitFunction(a, b) == Provided(b, b.basic \in {"POINTER", "ENUM", "INT", "ARRAY"})

ExplicitCastTo(a, b) ==
    CASE a.basic = "STRUCT"  -> ExplicitStruct(a, b)
      [] a.basic = "UNION"   -> ExplicitUnion(a, b)
      [] a.basic = "ENUM"    -> ExplicitEnum(a, b)
      [] a.basic = "VOID"    -> ExplicitVoid(a, b)
      [] a.basic = "INT"     -> ExplicitInt(a, b)
      [] a.basic = "FLOAT"   -> ExplicitFloat(a, b)
      [] a.basic = "POINTER" -> ExplicitPointer(a, b)
      [] a.basic = "ARRAY"   -> ExplicitArray(a, b)
      [] OTHER               -> ExplicitFunction(a, b)

------------------------------------------------------------------------------
(* Helpers of the expression checks *)

IntCompatible(t) ==
    CASE t.basic = "INT"  -> t
      [] t.basic = "ENUM" -> Qualify(EnumInt, t.q)
      [] OTHER            -> NoType

PtrCompatible(t) ==
    CASE t.basic = "POINTER" -> t
      [] t.basic = "ARRAY"   -> Qualify(POINTER(t.to), t.q)
      [] OTHER               -> NoType

\* Of two integers the longer one, of two of a length the unsigned one.
LongerIntFirst(a, b) == IF a.size >= b.size THEN a ELSE b           \* fault
LongerInt(a, b) ==
    IF a.size > b.size THEN a
    ELSE IF a.size < b.size THEN b
    ELSE IF a.unsigned THEN a ELSE b

CompositeOrPromote(a, b) ==
    LET i1 == IntCompatible(a)
        i2 == IntCompatible(b)
    IN  IF CompatibleWith(a, b) # NoType THEN CompatibleWith(a, b)
        ELSE IF IsType(i1) /\ IsType(i2) THEN LongerInt(i1, i2)
        ELSE IF IsType(i1) /\ b.basic = "FLOAT" THEN b
        ELSE IF a.basic = "FLOAT" /\ IsType(i2) THEN a
        ELSE IF a.basic = "FLOAT" /\ b.basic = "FLOAT"
             THEN IF a.size > b.size THEN a ELSE b
        ELSE NoType
==============================================================================
