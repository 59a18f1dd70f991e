----------------------------- MODULE TextPositions -----------------------------
(****************************************************************************)
(* Positions in a text, as KLexerPositionInfo of include/lexer/lexer.hpp and *)
(* TextInfo of lib/lexer/text_info.cpp compute them.  `linfo' is _linfo: the *)
(* position of the first byte of every line; `size' is the number of bytes.  *)
(* Positions count from 0, lines and columns from 1.                         *)
(****************************************************************************)
EXTENDS Integers, Sequences, FiniteSets

OutOfRange == [line |-> 0, column |-> 0]  \* LexerError

UpperBoundBefore(linfo, pos) ==                                 \* fault
    Cardinality({i \in DOMAIN linfo : i = 1 \/ linfo[i] < pos}) + 1

\* Index of the first line that begins after pos: std::upper_bound.
UpperBound(linfo, pos) ==
    Cardinality({i \in DOMAIN linfo : linfo[i] <= pos}) + 1

Query(linfo, size, pos) ==
    LET line == UpperBound(linfo, pos) - 1
    IN  IF pos >= size THEN OutOfRange
        ELSE [line |-> line, column |-> pos - linfo[line] + 1]

LineRange(linfo, size, line) ==
    <<linfo[line], IF line < Len(linfo) THEN linfo[line + 1] ELSE size>>

(****************************************************************************)
(* lines(): what of every line lies in from .. to - 1, as offsets into the   *)
(* line.                                                                     *)
(****************************************************************************)
Lines(linfo, size, from, to) ==
    LET b == Query(linfo, size, from)
        e == Query(linfo, size, to - 1)
    IN  IF from = to THEN {}
        ELSE {[line |-> l,
               beg  |-> IF l = b.line THEN b.column - 1 ELSE 0,
               end  |-> IF l = e.line THEN e.column
                        ELSE LineRange(linfo, size, l)[2] - LineRange(linfo, size, l)[1]]
              : l \in b.line .. e.line}
==============================================================================
