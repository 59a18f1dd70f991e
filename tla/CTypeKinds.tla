------------------------------ MODULE CTypeKinds ------------------------------
(****************************************************************************)
(* The types of cparser (cparser/include/c_ast.h).                            *)
(*                                                                            *)
(* A type is a record whose field basic is its variable_basic_type and whose  *)
(* field q is the set of its own qualifiers.  A struct, union or enum is      *)
(* known by the id its scope gave it.                                         *)
(****************************************************************************)
EXTENDS Integers, Sequences, FiniteSets

Qualifiers == {"const", "volatile", "restrict"}

INT(size, unsigned) == [basic |-> "INT", size |-> size, unsigned |-> unsigned, q |-> {}]
FLOAT(size)         == [basic |-> "FLOAT", size |-> size, q |-> {}]
VOID                == [basic |-> "VOID", q |-> {}]
POINTER(t)          == [basic |-> "POINTER", to |-> t, q |-> {}]
ARRAY(t, n)         == [basic |-> "ARRAY", to |-> t, size |-> n, static |-> FALSE, q |-> {}]
FUNCTION(r, ps, v)  == [basic |-> "FUNCTION", ret |-> r, params |-> ps, variadic |-> v, q |-> {}]
TAGGED(b, id, def)  == [basic |-> b, id |-> id, def |-> def, q |-> {}]

\* m_size of an array: absent, or not an integer constant.
NoSize     == -1
Variable   == -2
\* m_type_id before a declaration is checked.
NoId       == -1

NoType      == [basic |-> "none"]     \* nullptr
AssertFails == [basic |-> "assert"]   \* an assertion of the code fails
IsType(t)   == t \notin {NoType, AssertFails}

Qualify(t, q)    == [t EXCEPT !.q = q]
ResetQualifies(t) == [t EXCEPT !.q = {}]
SameQualifiers(a, b) == a.q = b.q

IsArithmetic(t) == t.basic \in {"INT", "FLOAT"}
IsScalar(t)     == IsArithmetic(t) \/ t.basic = "POINTER"
IsObject(t)     ==
    CASE t.basic \in {"STRUCT", "UNION", "ENUM"} -> t.def
      [] t.basic = "ARRAY"                       -> t.size # NoSize
      [] OTHER                                   -> IsScalar(t)
IsIncomplete(t) == t.basic = "VOID" \/ (t.basic # "FUNCTION" /\ ~IsObject(t))
==============================================================================
