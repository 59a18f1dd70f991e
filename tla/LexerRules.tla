------------------------------- MODULE LexerRules ------------------------------
(****************************************************************************)
(* The rules of a Lexer: the set-up that puts them into classes              *)
(* (include/lexer/lexer.hpp), and one rule as the lexer drives it, through   *)
(* reset(), feed(), dead() and match() of LexerRuleRegex and                 *)
(* LexerRuleCStringLiteral.  The automaton of a regular expression is a      *)
(* table given as a constant.                                                *)
(****************************************************************************)
EXTENDS Integers, Sequences, FiniteSets

CONSTANTS
    Char,     \* the characters a text is made of
    Kind,     \* the kinds of tokens the factories make
    Skip,     \* what a factory that returns nullptr makes: no token
    NoToken,  \* the value of m_notnull_last_token before the first token
    Setup,    \* the calls that set the lexer up: rules, "major" and "minor"
    Shape     \* Rule -> what the rule is made of, see ShapeOK

Breaks == {"major", "minor"}
Rule   == DOMAIN Shape

(****************************************************************************)
(* A rule is the automaton `next' over the states `states'; `spare' holds    *)
(* the states in which a character is taken but not stored.  `first' is the  *)
(* option first_match, `after' the answers of the determination function:    *)
(* the kinds of last token after which the rule may match at all.            *)
(****************************************************************************)
ShapeOK(s) ==
    /\ s.start \in s.states
    /\ s.next \in [s.states \X Char -> s.states]
    /\ s.final \subseteq s.states /\ s.dead \subseteq s.states
    /\ s.final \cap s.dead = {}
    /\ \A q \in s.dead, c \in Char : s.next[q, c] \in s.dead
    /\ s.spare \subseteq s.states
    /\ s.first \in BOOLEAN
    /\ s.after \subseteq Kind \cup {NoToken}
    /\ s.kind \in Kind \cup {Skip}

ASSUME RulesAssumption ==
    /\ Skip \notin Kind /\ NoToken \notin Kind
    /\ \A r \in Rule : ShapeOK(Shape[r])
    /\ Setup \in Seq(Rule \cup Breaks) /\ Rule \cap Breaks = {}
    /\ \A r \in Rule : \E i \in DOMAIN Setup : Setup[i] = r

------------------------------------------------------------------------------
(* Classes: add_rule(), dec_priority_major() and dec_priority_minor() *)

PlaceOf(r) == CHOOSE i \in DOMAIN Setup : Setup[i] = r

\* Number of breaks of one kind before place i of the set-up.
BreaksBefore(b, i) == Cardinality({j \in DOMAIN Setup : j < i /\ Setup[j] = b})

Classes    == 1 .. (BreaksBefore("major", Len(Setup) + 1) + 1)
ClassOf(r) == BreaksBefore("major", PlaceOf(r)) + 1

\* Minor classes are compared within one major class only.
MinorOf(r) == BreaksBefore("minor", PlaceOf(r))

------------------------------------------------------------------------------
(* One rule *)

\* The lengths count the characters since the last reset; `stored' is the
\* length of m_string.
RuleState(r) == [q : Shape[r].states, off : BOOLEAN,
                 feed_len : Nat, match_len : Nat, stored : Nat]

RuleReset(r, lasttok) ==
    [q |-> Shape[r].start, off |-> lasttok \notin Shape[r].after,
     feed_len |-> 0, match_len |-> 0, stored |-> 0]

Dead(r, s)  == s.off \/ s.q \in Shape[r].dead
Match(r, s) == ~s.off /\ s.q \in Shape[r].final

Feed(r, s, c) ==
    LET q == Shape[r].next[s.q, c]
        keep == q \notin Shape[r].dead /\ s.q \notin Shape[r].spare
    IN  IF Shape[r].first /\ Match(r, s)
        THEN [s EXCEPT !.off = TRUE]
        ELSE [s EXCEPT !.q = q, !.stored = IF keep THEN @ + 1 ELSE @]

\* What feed_char_internal() does with one rule: dead ones are left alone.
Fed(r, s, c) ==
    LET f == Feed(r, [s EXCEPT !.feed_len = @ + 1], c)
    IN  IF Dead(r, s) THEN s
        ELSE IF Match(r, f) THEN [f EXCEPT !.match_len = f.feed_len]
        ELSE f

(****************************************************************************)
(* The automaton of LexerRuleCStringLiteral for the characters the caller    *)
(* says are a quote, a backslash, a newline and escapable.  feed() returns   *)
(* at once in state END, so the state stays and nothing is stored.           *)
(****************************************************************************)
LiteralMove(q, c, quote, backslash, newline, escapable) ==
    CASE q = "NONE"     -> IF c = quote THEN "NORMAL" ELSE "DEAD"
      [] q = "NORMAL"   -> IF c = quote THEN "END"
                           ELSE IF c = backslash THEN "ESCAPING"
                           ELSE IF c = newline THEN "DEAD" ELSE "NORMAL"
      [] q = "ESCAPING" -> IF c \in escapable THEN "NORMAL" ELSE "DEAD"
      [] q = "END"      -> "END"
      [] q = "DEAD"     -> "DEAD"

LiteralStates == {"NONE", "NORMAL", "ESCAPING", "END", "DEAD"}

LiteralShape(kind, quote, backslash, newline, escapable) ==
    [states |-> LiteralStates, start |-> "NONE",
     next  |-> [qc \in LiteralStates \X Char |->
                  LiteralMove(qc[1], qc[2], quote, backslash, newline, escapable)],
     final |-> {"END"}, dead |-> {"DEAD"}, spare |-> {"END"},
     first |-> FALSE, after |-> Kind \cup {NoToken}, kind |-> kind]
==============================================================================
