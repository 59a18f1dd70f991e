------------------------------ MODULE MCLexerRules -----------------------------
(****************************************************************************)
(* Small rule sets of the shapes the repository's lexers have.               *)
(****************************************************************************)
EXTENDS LexerRules, TLC

\* The automaton with the given moves; every other move leads to "dead".  The
\* @@ makes TLC compute the table once.
Automaton(start, moves, final) ==
    LET states == {start, "dead"} \cup {m[3] : m \in moves}
        to(q, c) == LET ms == {m \in moves : m[1] = q /\ m[2] = c}
                    IN  IF ms = {} THEN "dead" ELSE (CHOOSE m \in ms : TRUE)[3]
    IN  [states |-> states, start |-> start,
         next |-> [qc \in states \X Char |-> to(qc[1], qc[2])] @@ << >>,
         final |-> final, dead |-> {"dead"}, spare |-> {}]

Regex(a, kind, isfirst, after) ==
    a @@ [kind |-> kind, first |-> isfirst, after |-> after]

Anywhere == Kind \cup {NoToken}

OneChar(c, kind) == Regex(Automaton("0", {<<"0", c, "1">>}, {"1"}), kind, FALSE, Anywhere)

(****************************************************************************)
(* Of CalcLexer: a number may have a sign and an exponent, and is looked for *)
(* only where an operand may stand.  "1" is any digit, "e" any letter.       *)
(****************************************************************************)
Number ==
    Regex(Automaton("0", {<<"0", "-", "1">>, <<"0", "1", "2">>, <<"1", "1", "2">>,
                          <<"2", "1", "2">>, <<"2", "e", "3">>, <<"3", "1", "4">>,
                          <<"4", "1", "4">>}, {"2", "4"}),
          "NUM", FALSE, {NoToken, "MINUS", "NL"})
Identifier ==
    Regex(Automaton("0", {<<"0", "e", "1">>, <<"1", "e", "1">>, <<"1", "1", "1">>}, {"1"}),
          "ID", FALSE, Anywhere)

(****************************************************************************)
(* As CLexer and CalcLexer: comments first and at their first match, then    *)
(* keywords before identifiers, then spaces; and the number.  A comment is   *)
(* opened by two signs and ends with its line; the keyword is "ee".          *)
(****************************************************************************)
Comment ==
    Regex(Automaton("0", {<<"0", "-", "1">>, <<"1", "-", "2">>, <<"2", "nl", "3">>}
                         \cup {<<"2", c, "2">> : c \in Char \ {"nl"}}
                         \cup {<<"3", c, "2">> : c \in Char},
                    {"3"}), Skip, TRUE, Anywhere)
Keyword == Regex(Automaton("0", {<<"0", "e", "1">>, <<"1", "e", "2">>}, {"2"}),
                 "KW", FALSE, Anywhere)
Spaces  == Regex(Automaton("0", {<<"0", "nl", "1">>, <<"1", "nl", "1">>}, {"1"}),
                 Skip, FALSE, Anywhere)

CalcShape == [comment |-> Comment, kw |-> Keyword, minus |-> OneChar("-", "MINUS"),
              id |-> Identifier, num |-> Number, sp |-> Spaces]
CalcSetup == <<"comment", "major", "kw", "minus", "minor", "id", "num", "major", "sp">>

(****************************************************************************)
(* As the lexer of test/lexer.cpp: string literals, with the number and its  *)
(* sign.  No rule begins with "?".                                           *)
(****************************************************************************)
LiteralRules ==
    [num |-> Number, minus |-> OneChar("-", "MINUS"),
     lit |-> LiteralShape("LIT", "q", "b", "nl", {"q", "b"})]
LiteralSetup == <<"lit", "major", "minus", "minor", "num">>

\* One character in two bytes.
Bytes == [c \in Char |-> IF c \in {"i", "e"} THEN 2 ELSE 1]
==============================================================================
