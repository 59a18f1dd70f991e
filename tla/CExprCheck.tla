------------------------------ MODULE CExprCheck ------------------------------
(****************************************************************************)
(* check_constraints() of the expressions of cparser: the type every operator *)
(* gives its result, and what it refuses (cparser/lib/                        *)
(* c_ast_check_constraints.cpp, with is_lvalue() of c_ast_expr.cpp).          *)
(*                                                                            *)
(* A tree is checked from its leaves up, so a behaviour is the walk of one    *)
(* expression in postfix order: operands is the stack of the subexpressions   *)
(* that are checked, and an action is what one operator does when its         *)
(* operands are.  An operand has its type, whether it is an lvalue, and       *)
(* whether checking it has reported an error: the operators above it then     *)
(* return at once, without a type, while an operator that reports has the     *)
(* type void.  The casts the checks insert into the tree are left out.        *)
(*                                                                            *)
(* consts is not in the code.  It is what the declarations say of the object  *)
(* an operand designates, then of the object that one points to, and so on:   *)
(* TRUE where the object was declared const.                                *)
(****************************************************************************)
EXTENDS CTypes

CONSTANTS
    Leaves,         \* constants, strings and names: records as in operands
    UnaryOps, BinaryOps,
    CastTypes,      \* the types of cast expressions
    Fields,         \* the names of members
    Members(_),     \* of a struct or union: from the names it has to types
    MaxDepth        \* the operands an expression may keep waiting

ASSUME MembersAssumption ==
    \A id \in TagIds : \A f \in DOMAIN Members(id) : \A q \in SUBSET Qualifiers :
        /\ Members(id)[f] \in TypesUpTo[TypeDepth - 1]
        /\ Qualify(Members(id)[f], q) \in TypesUpTo[TypeDepth - 1]

VARIABLES
    operands,       \* the checked operands of the operators to come
    failed,         \* an assertion has failed or a null pointer was read
    wrote           \* an accepted operator writes to an object declared const
vars == << operands, failed, wrote >>

Operand(t, lvalue, consts) ==
    [type |-> t, lvalue |-> lvalue, err |-> FALSE, consts |-> consts]
Refused(t) == [type |-> t, lvalue |-> FALSE, err |-> TRUE, consts |-> << >>]

\* What an operator may answer in place of a type: NoType, an error is reported;
\* AssertFails; and an error is reported without a type.
Bare == [basic |-> "bare"]
Accepted(t) == t \notin {NoType, AssertFails, Bare}

Bool     == INT(1, FALSE)
SizeType == INT(8, TRUE)

\* What a type says of an object of it and of those it points to.
ConstsUpTo[n \in 0..TypeDepth] ==
    [t \in TypesUpTo[n] |->
        << "const" \in t.q >> \o IF PointsTo(t) THEN ConstsUpTo[n - 1][t.to] ELSE << >>]
ConstsOf(t) == ConstsUpTo[TypeDepth][t]

\* What a leaf names is declared const where its type says so, and what can be
\* pointed to is not nested as deep as types may be.
ASSUME LeavesAssumption ==
    \A o \in Leaves :
        /\ o = Operand(o.type, o.lvalue, o.consts)
        /\ o.type \in Types /\ o.lvalue \in BOOLEAN
        /\ o.lvalue => o.type \in TypesUpTo[TypeDepth - 1]
        /\ o.consts \in {ConstsOf(o.type), << FALSE >>}
ASSUME CastTypesAssumption == CastTypes \subseteq Types

\* What is known of the object that is designated, and of those pointed to.
Designated(o) == o.consts # << >> /\ Head(o.consts)
PointedTo(o)  == IF o.consts = << >> THEN << >> ELSE Tail(o.consts)

\* A value is no object.
AsValue(o) == << FALSE >> \o PointedTo(o)

Composed(l, r) == CompositeOrPromote(l, r)

\* copy() of a struct or union asserts that it is defined.
CopyOf(t) == IF t.basic \in {"STRUCT", "UNION"} /\ ~t.def THEN AssertFails ELSE t

------------------------------------------------------------------------------
(* Unary operators: the type, NoType where the operand is refused *)

Decrements == {"POSFIX_DEC", "PREFIX_DEC"}
Steps      == {"POSFIX_INC", "PREFIX_INC"} \cup Decrements

StepType(op, o) ==
    LET t == CASE o.type.basic \in {"INT", "POINTER"} -> o.type
               [] o.type.basic = "ARRAY" ->
                    Qualify(POINTER(o.type.to), o.type.q \cap {"const"})
               [] OTHER -> NoType
    IN  IF ~o.lvalue \/ "const" \in o.type.q THEN NoType
        ELSE IF op \in Decrements /\ IsType(t) THEN ResetQualifies(t) ELSE t

UnaryType(op, o) ==
    CASE op \in Steps -> StepType(op, o)
      [] op = "REFERENCE"   -> IF o.lvalue THEN POINTER(o.type) ELSE NoType
      [] op = "DEREFERENCE" -> IF PointsTo(o.type) THEN o.type.to ELSE NoType
      [] op = "LOGICAL_NOT" ->
           IF IsScalar(o.type) \/ o.type.basic = "ENUM" THEN Bool ELSE NoType
      [] op = "BITWISE_NOT" -> IntCompatible(o.type)
      [] op = "SIZEOF"      -> SizeType
      [] OTHER              -> IF IsArithmetic(o.type) THEN o.type ELSE NoType

UnaryLvalue(op) == op \in {"DEREFERENCE", "PREFIX_INC", "PREFIX_DEC"}

UnaryConsts(op, o) ==
    CASE op = "REFERENCE"   -> << FALSE >> \o o.consts
      [] op = "DEREFERENCE" -> PointedTo(o)
      [] op \in Steps       -> AsValue(o)
      [] OTHER              -> << FALSE >>

------------------------------------------------------------------------------
(* Binary operators *)

\* BITWISE_XOR stands in the list of assignments for ASSIGNMENT_BITWISE_XOR.
Assignments ==
    {"ASSIGNMENT", "ASSIGNMENT_MULTIPLY", "ASSIGNMENT_DIVISION", "ASSIGNMENT_PLUS",
     "ASSIGNMENT_MINUS", "ASSIGNMENT_REMAINDER", "ASSIGNMENT_BITWISE_AND", "BITWISE_XOR",
     "ASSIGNMENT_BITWISE_OR", "ASSIGNMENT_LEFT_SHIFT", "ASSIGNMENT_RIGHT_SHIFT"}
Writes == (Assignments \ {"BITWISE_XOR"}) \cup {"ASSIGNMENT_BITWISE_XOR"}

Factors      == {"MULTIPLY", "DIVISION", "ASSIGNMENT_MULTIPLY", "ASSIGNMENT_DIVISION"}
Comparisons  == {"GREATER_THAN", "LESS_THAN", "GREATER_THAN_EQUAL", "LESS_THAN_EQUAL"}
Equalities   == {"EQUAL", "NOT_EQUAL"}
Logicals     == {"LOGICAL_AND", "LOGICAL_OR"}
Accumulates  == {"ASSIGNMENT_PLUS", "ASSIGNMENT_MINUS"}

\* t if it is of one of the kinds; a failed assertion stays one.
OfKind(t, kinds) == IF t = AssertFails \/ t.basic \in kinds THEN t ELSE NoType
Arithmetic == {"INT", "FLOAT"}

\* A pointer the arithmetic of pointers is done with.
Steppable(t) == t.basic = "POINTER" /\ ~IsIncomplete(t.to)
Decayed(t)   == IF PointsTo(t) THEN PtrCompatible(t) ELSE t

PlusType(l, r) ==
    CASE Steppable(l) -> IF IsType(IntCompatible(r)) THEN l ELSE NoType
      [] ~Steppable(l) /\ Steppable(r) -> IF IsType(IntCompatible(l)) THEN r ELSE NoType
      [] OTHER -> OfKind(Composed(l, r), Arithmetic)

MinusType(l, r) ==
    IF ~Steppable(l) THEN OfKind(Composed(l, r), Arithmetic)
    ELSE IF CompatibleWith(l, r) # NoType THEN CompatibleWith(l, r)
    ELSE IF IsType(IntCompatible(r)) THEN l ELSE NoType

\* Any pointer may be compared with anything; tl is only what it is cast to.
EqualType(l, r) ==
    LET c == OfKind(Composed(l, r), {"INT", "POINTER"})
    IN  IF c = AssertFails THEN c
        ELSE IF IsType(c) THEN Bool
        ELSE IF l.basic # "POINTER" THEN NoType
        ELSE IF ImplicitCastTo(l, r) = AssertFails THEN AssertFails ELSE Bool

AccumulateType(l, r) ==
    IF IsType(PtrCompatible(l)) /\ IsType(IntCompatible(r)) THEN l
    ELSE OfKind(ImplicitCastTo(r, l), Arithmetic)

FactorType(l, r)     == OfKind(Composed(l, r), Arithmetic)
IntegralType(l, r)   == OfKind(Composed(l, r), {"INT"})   \* remainders, shifts, bits
ComparisonType(l, r) ==
    LET c == OfKind(Composed(l, r), {"INT", "POINTER"}) IN IF IsType(c) THEN Bool ELSE c

IsTruth(t)        == IsScalar(t) \/ t.basic = "ENUM"
LogicalType(l, r) == IF IsTruth(l) /\ IsTruth(r) THEN Bool ELSE NoType

\* The type of op before it is known whether op writes to its left operand.
PlainType(op, l, r) ==
    CASE op \in Factors     -> FactorType(l, r)
      [] op = "PLUS"         -> PlusType(Decayed(l), Decayed(r))
      [] op = "MINUS"       -> MinusType(Decayed(l), r)
      [] op \in Comparisons -> ComparisonType(l, r)
      [] op \in Equalities  -> EqualType(l, r)
      [] op \in Logicals    -> LogicalType(l, r)
      [] op = "ASSIGNMENT"  -> ImplicitCastTo(r, l)
      [] op \in Accumulates -> AccumulateType(l, r)
      [] OTHER              -> IntegralType(l, r)

BinaryType(op, l, r) ==
    LET t      == PlainType(op, l.type, r.type)
        result == CopyOf(IF op \in Assignments THEN l.type ELSE t)
    IN  IF op \in Assignments /\ CopyOf(l.type) = AssertFails THEN AssertFails
        ELSE IF op \in Assignments /\ (~l.lvalue \/ "const" \in l.type.q) THEN NoType
        ELSE IF ~IsType(t) THEN t
        ELSE IF IsType(result) THEN ResetQualifies(result) ELSE result

EitherConst(s, t) ==
    [i \in 1..(IF Len(s) > Len(t) THEN Len(s) ELSE Len(t)) |->
        (i \in DOMAIN s /\ s[i]) \/ (i \in DOMAIN t /\ t[i])]

\* What the type t still says of: nothing beyond a pointer to void.
Visible(t, consts) == [i \in DOMAIN consts \cap DOMAIN ConstsOf(t) |-> consts[i]]

\* What the result points to: that of the operand that is the pointer.
BinaryConsts(op, l, r) ==
    CASE op \in Writes -> EitherConst(AsValue(l), AsValue(r))
      [] op \in {"PLUS", "MINUS"} -> IF PointsTo(l.type) THEN AsValue(l) ELSE AsValue(r)
      [] OTHER -> << FALSE >>

------------------------------------------------------------------------------
(* Members, calls, casts and conditionals *)

\* A member of a const object is const, and volatile too; one of a volatile
\* object is not.
MemberQualifiersKept(t, q) == t.q                                  \* fault
MemberQualifiers(t, q) ==
    t.q \cup (q \cap {"const", "restrict"}) \cup (IF "const" \in q THEN {"volatile"} ELSE {})

MemberType(t, f) ==
    IF t.basic \notin {"STRUCT", "UNION"} THEN Bare
    ELSE IF ~t.def THEN AssertFails
    ELSE IF f \notin DOMAIN Members(t.id) THEN NoType
    ELSE Qualify(CopyOf(Members(t.id)[f]), MemberQualifiers(Members(t.id)[f], t.q))

\* The members of an object that is const are const, the elements of arrays too.
MemberConsts(t, isConst, f) ==
    LET m == Members(t.id)[f]
    IN  [i \in DOMAIN ConstsOf(m) |->
            ConstsOf(m)[i] \/ (isConst /\ (i = 1 \/ (i = 2 /\ m.basic = "ARRAY")))]

Callee(t) ==
    LET f == IF t.basic = "POINTER" THEN t.to ELSE t
    IN  IF f.basic = "FUNCTION" THEN f ELSE NoType

\* The type of a call with the arguments args.  What is no function is asked for
\* a cast to a null pointer, and a function has no cast to itself.  A variadic
\* function reads as many arguments as it has parameters.
CallType(t, args) ==
    LET f    == Callee(t)
        cast == [i \in DOMAIN f.params |-> ImplicitCastTo(args[i], f.params[i])]
    IN  IF f = NoType THEN AssertFails
        ELSE IF ImplicitCastTo(t, f) = AssertFails THEN AssertFails
        ELSE IF ImplicitCastTo(t, f) = NoType THEN Bare
        ELSE IF Len(f.params) # Len(args) /\ ~f.variadic THEN Bare
        ELSE IF Len(f.params) > Len(args) THEN AssertFails
        ELSE IF \E i \in DOMAIN cast : cast[i] = AssertFails THEN AssertFails
        ELSE IF \E i \in DOMAIN cast : cast[i] = NoType THEN NoType
        ELSE f.ret

\* Both branches are turned into pointers, and a null pointer is read where that
\* fails: of the cases of the code only the one of two pointers is reached.
ConditionalType(c, a, b) ==
    LET p == PtrCompatible(a)
        r == PtrCompatible(b)
    IN  IF ~IsType(p) \/ ~IsType(r) THEN AssertFails
        ELSE IF CompatibleWith(p.to, r.to) = AssertFails THEN AssertFails
        ELSE IF ~IsTruth(c) THEN NoType
        ELSE IF IsType(CompatibleWith(p.to, r.to)) THEN ResetQualifies(p)
        ELSE IF p.to.basic = "VOID" THEN ResetQualifies(r)
        ELSE IF r.to.basic = "VOID" THEN ResetQualifies(p)
        ELSE NoType

------------------------------------------------------------------------------
(* The walk *)

Depth       == Len(operands)
Nth(i)      == operands[Depth - i + 1]           \* the i-th operand from the top
Replaced(n, o) == Append(SubSeq(operands, 1, Depth - n), o)

\* A node over n operands: t is the answer of its operator, o the operand it is
\* then, and writes whether it would write to an object declared const.
Node(n, t, o, writes) ==
    /\ ~failed
    /\ Depth >= n /\ Depth - n < MaxDepth
    /\ LET erred == \E i \in 1..n : Nth(i).err IN
       /\ operands' = Replaced(n, IF erred \/ t = Bare THEN Refused(NoType)
                                  ELSE IF Accepted(t) THEN o ELSE Refused(VOID))
       /\ failed' = (~erred /\ t = AssertFails)
       /\ wrote' = (wrote \/ (~erred /\ Accepted(t) /\ writes))

\* An object of the type t is made to point where the value o does.
Launders(o, t) ==
    \E i \in 2..Len(ConstsOf(t)) : i \in DOMAIN AsValue(o) /\ AsValue(o)[i] /\ ~ConstsOf(t)[i]

\* An array is no object that can be written to as a whole: that the checks let
\* a++ and a += 1 pass for one is left aside.
WritesConst(o) == o.type.basic # "ARRAY" /\ Designated(o)

\* The answer of an operator whose operands have no errors.
Answer(n, t) == IF \E i \in 1..n : Nth(i).err THEN NoType ELSE t

Leaf(o)    == Node(0, o.type, o, FALSE)
Undeclared == Node(0, NoType, Refused(VOID), FALSE)

Unary(op) ==
    /\ Depth >= 1
    /\ LET o == Nth(1)
           t == Answer(1, UnaryType(op, o))
       IN  Node(1, t, Operand(t, UnaryLvalue(op), UnaryConsts(op, o)),
                op \in Steps /\ WritesConst(o))

Binary(op) ==
    /\ Depth >= 2
    /\ LET l == Nth(2)
           r == Nth(1)
           t == Answer(2, BinaryType(op, l, r))
       IN  Node(2, t, Operand(t, FALSE, Visible(t, BinaryConsts(op, l, r))),
                op \in Writes /\ (WritesConst(l) \/ Launders(r, l.type)))

Indexing ==
    /\ Depth >= 2
    /\ LET a == Nth(2)
           i == Nth(1)
           t == Answer(2, IF PointsTo(a.type) /\ IsType(IntCompatible(i.type))
                          THEN CopyOf(a.type.to) ELSE NoType)
       IN  Node(2, t, Operand(t, TRUE, PointedTo(a)), FALSE)

MemberAccess(f) ==
    /\ Depth >= 1
    /\ LET o == Nth(1)
           t == Answer(1, MemberType(o.type, f))
       IN  Node(1, t, Operand(t, o.lvalue, MemberConsts(o.type, Designated(o), f)), FALSE)

PointerMemberAccess(f) ==
    /\ Depth >= 1
    /\ LET o == Nth(1)
           t == Answer(1, IF o.type.basic = "POINTER" THEN MemberType(o.type.to, f) ELSE Bare)
           c == PointedTo(o) # << >> /\ Head(PointedTo(o))
       IN  Node(1, t, Operand(t, TRUE, MemberConsts(o.type.to, c, f)), FALSE)

Cast(to) ==
    /\ Depth >= 1
    /\ LET t == Answer(1, ExplicitCastTo(Nth(1).type, to))
       IN  Node(1, t, Operand(t, FALSE, << FALSE >>), FALSE)

\* A call with n arguments.
Call(n) ==
    /\ Depth >= n + 1
    /\ LET f    == Nth(n + 1)
           args == [i \in 1..n |-> Nth(n - i + 1)]
           t    == Answer(n + 1, CallType(f.type, [i \in 1..n |-> args[i].type]))
       IN  Node(n + 1, t, Operand(t, FALSE, << FALSE >>),
                \E i \in DOMAIN Callee(f.type).params : Launders(args[i], Callee(f.type).params[i]))

Conditional ==
    /\ Depth >= 3
    /\ LET c == Nth(3)
           a == Nth(2)
           b == Nth(1)
           t == Answer(3, ConditionalType(c.type, a.type, b.type))
       IN  Node(3, t, Operand(t, FALSE, EitherConst(AsValue(a), AsValue(b))), FALSE)

\* A list of n expressions has the type of the last of them, and asserts that it
\* has one.  Every whole expression is such a list.  Of an operand with an error
\* only that it has a type is ever read.
ExprList(n) ==
    /\ ~failed /\ Depth >= n
    /\ failed' = (Nth(1).type = NoType)
    /\ operands' = Replaced(n, IF Nth(1).type = NoType THEN Refused(NoType)
                               ELSE IF \E i \in 1..n : Nth(i).err THEN Refused(VOID)
                               ELSE [Nth(1) EXCEPT !.lvalue = FALSE])
    /\ UNCHANGED wrote

Init ==
    /\ operands = << >>
    /\ failed = FALSE
    /\ wrote = FALSE

Next ==
    \/ \E o \in Leaves : Leaf(o)
    \/ Undeclared
    \/ \E op \in UnaryOps : Unary(op)
    \/ \E op \in BinaryOps : Binary(op)
    \/ Indexing
    \/ \E f \in Fields : MemberAccess(f) \/ PointerMemberAccess(f)
    \/ \E t \in CastTypes : Cast(t)
    \/ \E n \in 0..1 : Call(n)
    \/ Conditional
    \/ \E n \in 1..2 : ExprList(n)

Spec == Init /\ [][Next]_vars

------------------------------------------------------------------------------
(* Properties *)

\* The code loses a const, and with it the two properties below, in four places:
\* the other branch of a conditional beside a pointer to const void, which decides
\* its type alone; the composite type of the difference of pointers to const integers
\* and const enums; the elements of an array that is a member of a const struct; and
\* ^=, which is not in its list of assignments.
NoConst(qs) == \A q \in qs : "const" \notin q
KeepsConst ==
    /\ NoConst(VoidQualifiers)
    /\ "MINUS" \notin BinaryOps \/ NoConst(EnumQualifiers)
    /\ \A id \in TagIds : \A f \in DOMAIN Members(id) : Members(id)[f].basic # "ARRAY"
NoXorAssignment == "ASSIGNMENT_BITWISE_XOR" \notin BinaryOps

\* No operator of an accepted expression writes to an object declared const, or
\* makes a pointer that allows it: assignments, ++ and --, and the arguments of
\* calls.  A cast may take the const away; without one it stays visible.
ConstSafe == ~wrote

\* The type of a checked operand shows every const of the declarations it was
\* reached through: an operator that loses one on the way, through members,
\* indices, pointers and conditionals, would let a later one write.
ConstVisible ==
    \A o \in {operands[i] : i \in 1..Depth} :
        ~o.err /\ IsType(o.type) =>
            \A i \in DOMAIN o.consts :
                o.consts[i] /\ (i > 1 \/ o.lvalue) =>
                    i \in DOMAIN ConstsOf(o.type) /\ ConstsOf(o.type)[i]

\* The operators of arithmetic balance their operands: they accept two operands
\* in both orders or in none, give the same type in both, and the integer type
\* they give holds the values of both operands, as far as one of the two does.
Holds(t, s) == t.size > s.size \/ (t.size = s.size /\ (s.unsigned => t.unsigned))
Balanced ==
    Depth = 2 /\ ~Nth(1).err /\ ~Nth(2).err =>
        LET l == Nth(2)
            r == Nth(1)
        IN  \A op \in {"PLUS", "MULTIPLY", "BITWISE_AND", "LESS_THAN"} :
              LET t == BinaryType(op, l, r) IN
              /\ BinaryType(op, r, l) = t
              /\ op # "LESS_THAN" /\ t.basic = "INT" =>
                    \A o \in {l, r} : IsType(IntCompatible(o.type)) => Holds(t, IntCompatible(o.type))

==============================================================================
