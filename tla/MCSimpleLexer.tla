----------------------------- MODULE MCSimpleLexer -----------------------------
(****************************************************************************)
(* A SimpleLexer with the rule sets of MCLexerRules.                         *)
(****************************************************************************)
EXTENDS SimpleLexer, MCLexerRules

\* Every text of one to five characters.
ShortTexts == UNION {[1 .. n -> Char] : n \in 1 .. 5}
==============================================================================
