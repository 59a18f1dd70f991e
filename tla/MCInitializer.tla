---------------------------- MODULE MCInitializer -----------------------------
(****************************************************************************)
(* Small instance of CInitializer: a struct with an array and a union in it,  *)
(* arrays of arrays and of structs, with and without a size.                  *)
(****************************************************************************)
EXTENDS CInitializerOrder, CTypes

Member(name, t) == [name |-> name, type |-> t]

Number    == INT(4, FALSE)
Pair   == TAGGED("STRUCT", 1, TRUE)
Either == TAGGED("UNION", 2, TRUE)
Colour == TAGGED("ENUM", 4, TRUE)
Nested == TAGGED("STRUCT", 3, TRUE)

MCMembers ==
    << << Member("x", Number), Member("y", Colour) >>,
       << Member("i", Number), Member("p", Pair) >>,
       << Member("a", Number), Member("", Number), Member("b", ARRAY(Number, 2)),
          Member("u", Either), Member("e", ARRAY(Number, NoSize)) >> >>

MCVoidQualifiers == {{}}
MCEnumQualifiers == {{}}

MCObjects ==
    {Number, Nested, ARRAY(ARRAY(Number, 2), 2), ARRAY(Pair, NoSize), ARRAY(Number, NoSize),
     Either, ARRAY(Nested, 2)}
MCValues  == {Number, Pair, POINTER(Number)}

Dot(name) == [name |-> name, index |-> 0]
At(i)     == [name |-> "", index |-> i]
MCDesignations ==
    {<< >>, << Dot("a") >>, << Dot("b") >>, << Dot("u"), Dot("p") >>, << Dot("p"), Dot("y") >>,
     << Dot("b"), At(1) >>, << At(1) >>, << At(1), Dot("x") >>}
==============================================================================
