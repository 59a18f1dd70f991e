---------------------------- MODULE DCExpectedChars ----------------------------
(****************************************************************************)
(* DCParser::get_expected_chars(): the tokens the parser could take next, as  *)
(* an error message or a completion would list them, found without touching   *)
(* the stacks.                                                                *)
(****************************************************************************)
EXTENDS DCParserRun

\* collect_expected_next_chars
NextTokens(s) == {AfterDot(i) : i \in StateItems[s]} \cap Terms

\* handle_la: the entries of a lookahead table.  EOF is not in h_charinfo and
\* is passed over.
LookaheadOnlyShifts(next) == {next[t] : t \in {t \in DOMAIN next \ {EOF} :    \* fault
                                                  next[t].type = "SHIFT"}}
LookaheadCases(next) == {next[t] : t \in DOMAIN next \ {EOF}}

\* handle_feed: the cases of the entry for c when rm symbols are taken off the
\* stack.  An entry that asks a decision leads nowhere.
EntryCases(e) == IF e.type = "LOOKAHEAD" THEN LookaheadCases(e.next) ELSE {e}
FeedCases(rm, c) ==
    {rm} \X EntryCases(Table[p_state_stack[Len(p_state_stack) - rm]][c])

\* C with the cases that its reductions lead to.
AfterReductions(C) ==
    C \cup UNION {FeedCases(p[1] + Len(Rhs(p[2].rule)) - 1, Lhs(p[2].rule)) :
                     p \in {p \in C : p[2].type = "REDUCE"}}

\* The cases the two functions come to by calling each other, one reduction per
\* round.  No reduction of one symbol comes twice with the same rm.
Cases ==
    LET round[k \in Nat] ==
          IF k = 0 THEN {0} \X LookaheadCases(p_not_finished.next)
                   ELSE AfterReductions(round[k - 1])
    IN  round[(Len(p_state_stack) + 1) * Cardinality(Nonterms)]

ExpectedStates == IF IsPending THEN {p[2].state : p \in {p \in Cases : p[2].type = "SHIFT"}}
                               ELSE {Top}
ExpectedChars == UNION {NextTokens(s) : s \in ExpectedStates}
==============================================================================
