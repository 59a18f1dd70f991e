------------------------------ MODULE TokenCursor ------------------------------
(****************************************************************************)
(* What ISimpleLexer (include/lexer/simple_lexer.hpp) promises a parser: a   *)
(* stream of tokens that only grows, and a cursor that next() and back()     *)
(* move by one token.  A call may also be refused, and then moves nothing.   *)
(****************************************************************************)
EXTENDS Integers, Sequences, SequencesExt

VARIABLES
    stream,    \* the tokens of the text read so far
    complete,  \* nothing more will be read
    cursor,    \* tokens before the cursor
    answer     \* of the last call

vars == <<stream, complete, cursor, answer>>

Init == stream = << >> /\ complete = FALSE /\ cursor = 0 /\ answer = <<"none">>

\* More of the text is read.
Grow ==
    /\ IsPrefix(stream, stream')
    /\ complete => (complete' /\ stream' = stream)
    /\ UNCHANGED <<cursor, answer>>

NextToken ==
    /\ cursor < Len(stream)
    /\ answer' = <<"token", stream[cursor + 1]>>
    /\ cursor' = cursor + 1
    /\ UNCHANGED <<stream, complete>>

Back ==
    /\ cursor > 0
    /\ cursor' = cursor - 1 /\ answer' = <<"back">>
    /\ UNCHANGED <<stream, complete>>

\* end(): TRUE only behind the last token of a text that has been read.
End ==
    /\ answer' \in {<<"end">>, <<"more">>}
    /\ answer' = <<"end">>  => complete /\ cursor = Len(stream)
    /\ answer' = <<"more">> => cursor < Len(stream)
    /\ UNCHANGED <<stream, complete, cursor>>

Refuse ==
    /\ answer' \in {<<"no more tokens">>, <<"can't go backward">>, <<"lexer error">>}
    /\ answer' = <<"no more tokens">> => complete /\ cursor = Len(stream)
    /\ UNCHANGED <<stream, complete, cursor>>

\* While a call runs it has given no answer yet.
Begin == answer' = <<"none">> /\ UNCHANGED <<stream, complete, cursor>>

Next == Grow \/ NextToken \/ Back \/ End \/ Refuse \/ Begin

Spec == Init /\ [][Next]_vars
==============================================================================
