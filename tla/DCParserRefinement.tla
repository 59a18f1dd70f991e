-------------------------- MODULE DCParserRefinement --------------------------
(****************************************************************************)
(* The pushdown machine of DCParser as an implementation of ShiftReduce: the *)
(* chars held are those stacked, the one that waits for a lookahead and the  *)
(* one being fed; a token is spent when the caller knows it to be given up.  *)
(****************************************************************************)
EXTENDS DCParserRun

Abstract == INSTANCE ShiftReduce WITH
    given   <- base + Len(fed),
    front   <- p_char_stack \o
               (IF IsPending THEN <<p_not_finished.char>> ELSE << >>) \o
               (IF arg # None THEN <<arg>> ELSE << >>),
    spent   <- (1..base) \cup gone,
    verdict <- IF outcome = "accept" THEN "accepted" ELSE "open"

\* Every step of feed(), end() and reset() is a step of a shift-reduce parser or
\* none: queues, lookahead, recovery and exceptions neither lose nor duplicate nor
\* reorder tokens, and nothing is accepted that is not a tree of the whole input.
IsShiftReduce == Abstract!Spec
==============================================================================
