------------------------------ MODULE MCExprParser ------------------------------
(****************************************************************************)
(* What the expression parser of test/parser.cpp must accept, stated without *)
(* the table: a scanner for the token sequences of the ambiguous grammar,    *)
(* and the shape the priorities and associativities give its trees.          *)
(****************************************************************************)
EXTENDS MCParserRun, DCExpectedChars, SequencesExt

Operators == {"*", "+", "="}

\* A scanner for sequences of statements.  `need' says that an operand must
\* follow, `opened' that a parenthesis has just been opened.
NoStatement == [ok |-> TRUE, need |-> TRUE, opened |-> FALSE, depth |-> 0, done |-> 0]

ScanToken(t, q) ==
    CASE t = "i" /\ q.need ->
           [q EXCEPT !.need = FALSE, !.opened = FALSE]
      [] t = "(" /\ q.need ->
           [q EXCEPT !.depth = @ + 1, !.opened = TRUE]
      [] t = ")" /\ (q.opened \/ (~q.need /\ q.depth > 0)) ->
           [q EXCEPT !.depth = @ - 1, !.need = FALSE, !.opened = FALSE]
      [] t \in Operators /\ ~q.need ->
           [q EXCEPT !.need = TRUE]
      [] t = ";" /\ ~q.need /\ q.depth = 0 ->
           [q EXCEPT !.need = TRUE, !.done = @ + 1]
      [] OTHER -> [q EXCEPT !.ok = FALSE]

Scan(tokens) == FoldLeft(LAMBDA q, t : ScanToken(t, q), NoStatement, tokens)

\* Whether tokens are one statement and nothing else.
IsStatement(tokens) ==
    LET q == Scan(tokens) IN q.ok /\ q.done = 1 /\ tokens[Len(tokens)] = ";"

\* feed() takes a token if and only if some input goes on with it, and end()
\* accepts the statements and nothing else: neither the priorities nor the one
\* token of lookahead ever cost a sentence of the grammar.
ExprLanguage ==
    pc = "idle" =>
       /\ outcome = "fed"    => Scan(fed).ok
       /\ outcome = "reject" => ~Scan(fed).ok
       /\ outcome = "accept" => IsStatement(fed)
       /\ outcome = "syntax" => ~IsStatement(fed)

\* Between two calls get_expected_chars() names a token if and only if feed()
\* would take it now: it foresees all the reductions that a pending lookahead
\* may still set off, on stacks that it only reads.
ExpectedExact ==
    (pc = "idle" /\ outcome = "fed") =>
       ExpectedChars = {t \in ExprTerms : Scan(Append(fed, t)).ok}

------------------------------------------------------------------------------
(* Trees.  A node is <<rule, positions>>, as in the parts of a char. *)

Begin(n) == CHOOSE p \in n[2] : \A q \in n[2] : p <= q
End(n)   == CHOOSE p \in n[2] : \A q \in n[2] : p >= q

IsBinary(n) == Len(Rhs(n[1])) = 3 /\ Lhs(n[1]) = "EXPR" /\ Rhs(n[1])[1] = "EXPR"

Inside(n, nodes) == {m \in nodes : m[2] \subseteq n[2] /\ m[2] # n[2]}

\* The binary nodes that begin with the left operand of n, or end with the right.
LeftOf(n, nodes)  == {m \in Inside(n, nodes) : IsBinary(m) /\ Begin(m) = Begin(n)}
RightOf(n, nodes) == {m \in Inside(n, nodes) : IsBinary(m) /\ End(m) = End(n)}

\* An operand of a binary operator binds tighter than the operator, or as tight
\* and the operators group to its side: no tree is built against the priorities
\* and associativities of the rules.
PriorityRespected ==
    \A k \in DOMAIN p_char_stack :
       LET nodes == p_char_stack[k].parts IN
       \A n \in {m \in nodes : IsBinary(m)} :
          /\ \A m \in LeftOf(n, nodes) :
                \/ Prio(m) < Prio(n)
                \/ Prio(m) = Prio(n) /\ ~Rules[n[1]].right
          /\ \A m \in RightOf(n, nodes) :
                \/ Prio(m) < Prio(n)
                \/ Prio(m) = Prio(n) /\ Rules[n[1]].right
==============================================================================
