-------------------------------- MODULE MCLexer --------------------------------
(****************************************************************************)
(* A Lexer with the rule sets of MCLexerRules.                               *)
(****************************************************************************)
EXTENDS DCLexer, MCLexerRules
==============================================================================
