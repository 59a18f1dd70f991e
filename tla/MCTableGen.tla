------------------------------ MODULE MCTableGen ------------------------------
(****************************************************************************)
(* Grammars of up to MaxCalls of these definitions, in every order: rules     *)
(* that recur to the left and to the right, a chain of nonterminals, optional *)
(* symbols with decisions, and two rules that conflict without priorities.    *)
(****************************************************************************)
EXTENDS DCTableGen

Symbol(c)   == [sym |-> c, optional |-> FALSE]
Optional(c) == [sym |-> c, optional |-> TRUE]
Definition(lhs, rhs, right, asks) == [lhs |-> lhs, rhs |-> rhs, right |-> right, asks |-> asks]

MCDefinitions ==
    {Definition("E", << Symbol("i") >>, FALSE, {}),
     Definition("E", << Symbol("E"), Symbol("+"), Symbol("E") >>, FALSE, {}),
     Definition("E", << Symbol("E"), Symbol("="), Symbol("E") >>, TRUE, {}),
     Definition("E", << Symbol("("), Symbol("E"), Symbol(")") >>, FALSE, {}),
     Definition("S", << Symbol("i"), Optional("T"), Symbol(";") >>, FALSE, {}),
     Definition("S", << Optional("i"), Symbol("E"), Optional("i") >>, FALSE, {2, 3}),
     Definition("T", << Symbol("i") >>, FALSE, {})}
MCStarts == {"S", "E"}
==============================================================================
