------------------------------ MODULE SimpleLexer ------------------------------
(****************************************************************************)
(* SimpleLexer<T> of include/lexer/simple_lexer.hpp on top of a Lexer: a     *)
(* whole text, read as far as the parser asks for tokens, and a window of    *)
(* the last tokens in which it may go back.  The Lexer's own steps are those *)
(* of DCLexer; they run while `at' is "fed" or "ended".                      *)
(****************************************************************************)
EXTENDS DCLexer

CONSTANTS
    Buffers,  \* the texts a SimpleLexer is made with
    Window,   \* tokens clean_token_buffer() keeps
    SizeMod   \* 2 to the width of size_t

ASSUME SimpleAssumption ==
    /\ Buffers \subseteq Seq(Char) /\ << >> \notin Buffers
    /\ Window \in Nat /\ SizeMod \in Nat /\ Window < SizeMod

VARIABLES
    buffer,        \* the text
    buf_pos,       \* characters of it fed to the lexer
    token_buffer,
    cur_pos,
    at,            \* "idle", or where in fill_one() the call stands
    call,          \* "end" or "next": what called fill_one()
    answer,        \* what the last call returned or threw
    dropped        \* tokens erased from token_buffer, for the properties

own   == <<buffer, buf_pos, token_buffer, cur_pos, at, call, answer, dropped>>
svars == <<vars, own>>

\* size_t arithmetic.
Minus(a, b) == (a - b) % SizeMod

------------------------------------------------------------------------------
(* fill_one() *)

\* end() and next() begin with fill_one().
Call(what) ==
    /\ at = "idle"
    /\ call' = what /\ answer' = <<"none">>
    /\ at' = IF cur_pos < Len(token_buffer) \/ buf_pos = Len(buffer)
             THEN "answer" ELSE "loop"
    /\ UNCHANGED <<vars, buffer, buf_pos, token_buffer, cur_pos, dropped>>

FillChar ==
    /\ at = "loop" /\ buf_pos < Len(buffer)
    /\ FeedChar(buffer[buf_pos + 1])
    /\ buf_pos' = buf_pos + 1
    /\ at' = "fed"
    /\ UNCHANGED <<buffer, token_buffer, cur_pos, call, answer, dropped>>

InsertKeepsCursor ==                                            \* fault
    LET all  == token_buffer \o batch
        over == IF Len(all) > Window THEN Len(all) - Window ELSE 0
    IN  /\ token_buffer' = SubSeq(all, over + 1, Len(all))
        /\ cur_pos' = cur_pos
        /\ dropped' = dropped + over

\* The tokens of the call are put behind the others, and clean_token_buffer()
\* erases from the front until Window are left.
Insert ==
    LET all  == token_buffer \o batch
        over == IF Len(all) > Window THEN Len(all) - Window ELSE 0
    IN  /\ token_buffer' = SubSeq(all, over + 1, Len(all))
        /\ cur_pos' = Minus(cur_pos, over)
        /\ dropped' = dropped + over

FillFedReadsOn ==                                               \* fault
    /\ at = "fed" /\ pc = "idle" /\ outcome \notin Errors
    /\ Insert
    /\ at' = IF buf_pos = Len(buffer) THEN "tail" ELSE "loop"
    /\ UNCHANGED <<vars, buffer, buf_pos, call, answer>>
FillFed ==
    /\ at = "fed" /\ pc = "idle" /\ outcome \notin Errors
    /\ Insert
    /\ at' = IF batch # << >> \/ buf_pos = Len(buffer) THEN "tail" ELSE "loop"
    /\ UNCHANGED <<vars, buffer, buf_pos, call, answer>>

FillEnd ==
    /\ at = "tail" /\ buf_pos = Len(buffer)
    /\ FeedEnd
    /\ at' = "ended"
    /\ UNCHANGED <<buffer, buf_pos, token_buffer, cur_pos, call, answer, dropped>>

FillMore ==
    /\ at = "tail" /\ buf_pos < Len(buffer)
    /\ at' = "answer"
    /\ UNCHANGED <<vars, buffer, buf_pos, token_buffer, cur_pos, call, answer, dropped>>

FillEnded ==
    /\ at = "ended" /\ pc = "idle" /\ outcome \notin Errors
    /\ Insert
    /\ at' = "answer"
    /\ UNCHANGED <<vars, buffer, buf_pos, call, answer>>

\* An exception of the lexer passes through the call.
FillFails ==
    /\ at \in {"fed", "ended"} /\ pc = "idle" /\ outcome \in Errors
    /\ at' = "idle" /\ answer' = <<"lexer error">>
    /\ UNCHANGED <<vars, buffer, buf_pos, token_buffer, cur_pos, call, dropped>>

LexerStep ==
    /\ at \in {"fed", "ended"} /\ Step
    /\ UNCHANGED own

------------------------------------------------------------------------------
(* end(), next() and back() *)

AnswerEnd ==
    /\ at = "answer" /\ call = "end"
    /\ answer' = IF cur_pos = Len(token_buffer) THEN <<"end">> ELSE <<"more">>
    /\ at' = "idle"
    /\ UNCHANGED <<vars, buffer, buf_pos, token_buffer, cur_pos, call, dropped>>

\* next() on a wrapped cursor reads behind the buffer: the model stops there.
AnswerNext ==
    /\ at = "answer" /\ call = "next" /\ cur_pos <= Len(token_buffer)
    /\ IF cur_pos = Len(token_buffer)
       THEN answer' = <<"no more tokens">> /\ UNCHANGED cur_pos
       ELSE answer' = <<"token", token_buffer[cur_pos + 1]>> /\ cur_pos' = cur_pos + 1
    /\ at' = "idle"
    /\ UNCHANGED <<vars, buffer, buf_pos, token_buffer, call, dropped>>

StepBack ==
    /\ at = "idle"
    /\ IF cur_pos = 0 THEN answer' = <<"can't go backward">> /\ UNCHANGED cur_pos
       ELSE answer' = <<"back">> /\ cur_pos' = cur_pos - 1
    /\ UNCHANGED <<vars, buffer, buf_pos, token_buffer, at, call, dropped>>

------------------------------------------------------------------------------

SInit ==
    /\ Init
    /\ buffer \in Buffers
    /\ buf_pos = 0 /\ token_buffer = << >> /\ cur_pos = 0
    /\ at = "idle" /\ call = "end" /\ answer = <<"none">> /\ dropped = 0

Inside ==
    \/ FillChar \/ FillFed \/ FillEnd \/ FillMore \/ FillEnded \/ FillFails
    \/ LexerStep \/ AnswerEnd \/ AnswerNext

SNext == Inside \/ Call("end") \/ Call("next") \/ StepBack

\* A call that has begun runs on.
SFairness == []<>(at = "idle") \/ []<><<at # "idle">>_svars

SSpec == SInit /\ [][SNext]_svars /\ SFairness

------------------------------------------------------------------------------
(* Properties *)

\* The text has been fed to its end, and if the lexer threw at the end the
\* rest of it is given up.
AllRead ==
    /\ buf_pos = Len(buffer)
    /\ at \in {"idle", "answer"} \/ (pc = "idle" /\ outcome \in Errors)

\* The assertions of fill_one() and end(): the cursor is in the buffer.  It is
\* moved back by every token erased, and nothing stops it at the first one.  And
\* between two calls the buffer is a window of the tokens the lexer has given,
\* and holds the last of them.
CursorInBuffer ==
    /\ cur_pos <= Len(token_buffer)
    /\ at = "idle" =>
        /\ Len(token_buffer) <= Window
        /\ token_buffer = SubSeq(out, dropped + 1, Len(out))

\* Refinement: to a parser this is a cursor over one stream of tokens, however
\* the reading, the erasing and the going back are mixed.
AsCursor == INSTANCE TokenCursor WITH
    stream   <- SubSeq(out, 1, dropped + Len(token_buffer)),
    complete <- AllRead,
    cursor   <- dropped + cur_pos,
    answer   <- answer

IsCursor == AsCursor!Spec

\* Every call comes back to the parser.
SCallReturns == (at # "idle") ~> (at = "idle")
==============================================================================
