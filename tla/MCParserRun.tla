------------------------------ MODULE MCParserRun ------------------------------
(****************************************************************************)
(* Grammars of the repository's tests, the tables DCGrammar builds for them, *)
(* and the constants of DCParserRun for TLC.  A state is its item set: the   *)
(* numbers SetStateAllocator gives out are one-to-one with them.             *)
(****************************************************************************)
EXTENDS DCParserRefinement, TLC

Rule(lhs, rhs, prio, right, dpos) ==
    [lhs |-> lhs, rhs |-> rhs, prio |-> prio, right |-> right, dpos |-> dpos]
Plain(lhs, rhs, prio) == Rule(lhs, rhs, prio, FALSE, {})

\* The item sets the table has a row for: the worklist loop of generate_table,
\* run to its end.
ReachableStates ==
    LET grow[seen, new \in SUBSET SUBSET Item] ==
          LET next == UNION {Targets(StatesetMove(s, c)) : s \in new, c \in Symbols}
          IN  IF new = {} THEN seen ELSE grow[seen \cup next, next \ seen]
    IN  grow[{StartItems}, {StartItems}]

\* The same function with its values computed once and for all: TLC evaluates
\* [x \in S |-> e] anew at every application.
Tabulated(f) == f @@ << >>

PlainEntry(e) == IF e.type = "LOOKAHEAD" THEN LOOKAHEAD(Tabulated(e.next)) ELSE e
TableEntry(e) ==
    IF e.type = "DECISION"
    THEN [e EXCEPT !.action =
             Tabulated([D \in SUBSET e.evals |-> PlainEntry(e.action[D])])]
    ELSE PlainEntry(e)

BuiltTable ==
    Tabulated([s \in ReachableStates |->
       Tabulated([c \in Symbols |-> TableEntry(StateAction(StatesetMove(s, c)))])])

\* Named once more because TLC evaluates a definition once, but what a cfg
\* substitutes for a constant again at every use.
MCStates == ReachableStates
MCTable  == BuiltTable
MCItems  == [s \in ReachableStates |-> s]
MCStart  == StartItems

------------------------------------------------------------------------------
\* test/parser.cpp, ExprParserTest, with one operator of each class.
ExprTerms    == {"i", "*", "+", "=", "(", ")", ";"}
ExprNonterms == {"STATEMENT", "EXPR", "OP1", "OP2", "RealStart"}
ExprRules    == <<
    Plain("EXPR", <<"EXPR", "OP2", "EXPR">>, 0),
    Plain("OP2", <<"*">>, 0),
    Plain("EXPR", <<"EXPR", "OP1", "EXPR">>, 1),
    Plain("OP1", <<"+">>, 1),
    Rule("EXPR", <<"EXPR", "=", "EXPR">>, 2, TRUE, {}),
    Plain("EXPR", <<"(", "EXPR", ")">>, 3),
    Plain("EXPR", <<"(", ")">>, 3),
    Plain("EXPR", <<"i">>, 4),
    Plain("STATEMENT", <<"EXPR", ";">>, 5),
    Plain("RealStart", <<"STATEMENT">>, 6) >>

\* test/parser_typedef.cpp: whether an ID is a type is for the decision
\* callbacks to say.  The optional ID of the second rule makes two rules of it.
TypedefTerms    == {"d", "ID", "+", ";", "(", ")"}
TypedefNonterms == {"Unit", "Decl", "Expr", "Type", "Stat", "Typedef",
                    "RealStart"}
TypedefRules    == <<
    Rule("Type", <<"ID">>, 0, FALSE, {1}),
    Rule("Expr", <<"Expr", "ID", "ID">>, 1, TRUE, {3}),
    Rule("Expr", <<"Expr", "ID">>, 1, TRUE, {2}),
    Plain("Expr", <<"ID">>, 1),
    Plain("Expr", <<"Expr", "+", "Expr">>, 1),
    Plain("Expr", <<"(", "Type", ")", "Expr">>, 1),
    Plain("Expr", <<"(", "Expr", ")", "Expr">>, 1),
    Plain("Stat", <<"Expr", ";">>, 1),
    Plain("Decl", <<"Type", "ID", ";">>, 1),
    Plain("Typedef", <<"d", "ID", ";">>, 1),
    Plain("Unit", <<"Unit", "Typedef">>, 2),
    Plain("Unit", <<"Unit", "Stat">>, 2),
    Plain("Unit", <<"Unit", "Decl">>, 2),
    Plain("Unit", <<"Typedef">>, 2),
    Plain("Unit", <<"Stat">>, 2),
    Plain("Unit", <<"Decl">>, 2),
    Plain("RealStart", <<"Unit">>, 3) >>

\* What the theorems about tokens assume of the table, told of the tables built here.
ASSUME GotoAssumption == GotoDefined
==============================================================================
