---------------------------- MODULE DCRegexPattern ----------------------------
(****************************************************************************)
(* Reading a regular expression: RegexPatternEscaper and Regex2BasicConvertor *)
(* (regex_expr.hpp), which rewrites + ? {n,m} and . by the basic operators,   *)
(* and RegexNodeTreeGenerator (regex_expr_node.hpp), which builds the tree.   *)
(* The last two are fed one pattern character, [c, esc], at a time.           *)
(****************************************************************************)
EXTENDS DCRegexAutomata

VARIABLES
    phase,      \* "convert", "parse", "parsed", "match", "error" (thrown), "assert"
    wraps,      \* how the build compares MaxChar + 1
    text,       \* the pattern characters still to be fed
    conv,       \* the convertor: [out, parens, group, bracket, brace], brace
                \* being [on, comma, low, up, copy]
    stack,      \* _stack of the tree generator: a sequence of [node, complemented]
    bracket     \* its bracket mode: [on, eaten, reversed, state, ranges, low]
pattern == << phase, wraps, text, conv, stack, bracket >>

\* The characters of character_traits, in ASCII.
EXCLAMATION == 33
LPAREN == 40
RPAREN == 41
STAR == 42
PLUS == 43
COMMA == 44
DASH == 45
DOT == 46
Digits == 48..57
QUESTION == 63
LBRACKET == 91
BACKSLASH == 92
RBRACKET == 93
CARET == 94
LBRACE == 123
OR == 124
RBRACE == 125
Infinity == 2147483647      \* brace_infinity

Plain(c) == [c |-> c, esc |-> FALSE]
Escaped(c) == [c |-> c, esc |-> TRUE]
Plains(cs) == [i \in DOMAIN cs |-> Plain(cs[i])]

\* RegexPatternEscaper::convert; it throws when a backslash ends the string.
Unescape(str) ==
    LET Take(acc, c) ==
          IF acc.esc THEN [out |-> Append(acc.out, Escaped(c)), esc |-> FALSE]
          ELSE IF c = BACKSLASH THEN [acc EXCEPT !.esc = TRUE]
          ELSE [acc EXCEPT !.out = Append(@, Plain(c))]
    IN  FoldLeft(Take, [out |-> << >>, esc |-> FALSE], str)

NoBrace == [on |-> FALSE, comma |-> FALSE, low |-> 0, up |-> 0, copy |-> << >>]
NewConvertor ==
    [out |-> << >>, parens |-> << >>, group |-> 0, bracket |-> FALSE, brace |-> NoBrace]
NoBracket == [on |-> FALSE, eaten |-> FALSE, reversed |-> FALSE, state |-> "none",
              ranges |-> {}, low |-> EmptyChar]
Empty == [type |-> "empty", subs |-> << >>]
NoItem == [node |-> Empty, complemented |-> FALSE]

\* A pattern is handed to the convertor.
PatternInit(str, w) ==
    /\ phase = IF Unescape(str).esc THEN "error" ELSE "convert"
    /\ wraps = w
    /\ text = Unescape(str).out
    /\ conv = NewConvertor
    /\ stack = << NoItem >>
    /\ bracket = NoBracket

Ch == Head(text)
Throws(p) == phase = p /\ phase' = "error" /\ UNCHANGED << wraps, text, conv, stack, bracket >>
Asserts(p) == phase = p /\ phase' = "assert" /\ UNCHANGED << wraps, text, conv, stack, bracket >>

------------------------------------------------------------------------------
(* Regex2BasicConvertor.  m_last_group_pos, here group, is the position of     *)
(* the group that ends right before the next character, 0 if none does.       *)

Converts(new) ==
    /\ phase = "convert" /\ text # << >>
    /\ conv' = new
    /\ text' = Tail(text)
    /\ UNCHANGED << phase, wraps, stack, bracket >>

\* The convertor with no group before the next character, and the same with more output.
Ungrouped == [conv EXCEPT !.group = 0]
Emit(chars) == [Ungrouped EXCEPT !.out = @ \o chars]

\* get_last_node: the group that has just ended, or the last character; and the
\* output before it.
LastNodeFrom == IF conv.group = 0 THEN Len(conv.out) ELSE conv.group
LastNode == SubSeq(conv.out, LastNodeFrom, Len(conv.out))
BeforeLastNode == SubSeq(conv.out, 1, LastNodeFrom - 1)

Copies(n, chars) == FlattenSeq([i \in 1..n |-> chars])
Optional(chars) == Plains(<< LPAREN, OR >>) \o chars

RepeatedPlus(b) ==                                                           \* fault
    Copies(b.low, b.copy) \o
    (IF ~b.comma THEN << >>
     ELSE IF b.up = Infinity THEN b.copy \o << Plain(STAR) >>
     ELSE Copies(b.up - b.low, Optional(b.copy) \o << Plain(STAR), Plain(RPAREN) >>))
\* What stands for copy{low}, copy{low,} or copy{low,up}.
Repeated(b) ==
    Copies(b.low, b.copy) \o
    (IF ~b.comma THEN << >>
     ELSE IF b.up = Infinity THEN b.copy \o << Plain(STAR) >>
     ELSE Copies(b.up - b.low, Optional(b.copy)) \o Copies(b.up - b.low, << Plain(RPAREN) >>))

InBrace == phase = "convert" /\ text # << >> /\ conv.brace.on
BraceBad == \/ Ch.esc
            \/ Ch.c \notin Digits \cup {COMMA, RBRACE}
            \/ Ch.c = COMMA /\ conv.brace.comma
            \/ Ch.c = RBRACE /\ conv.brace.comma /\ conv.brace.up < conv.brace.low

ConvertBraceComma ==
    /\ InBrace /\ ~BraceBad /\ Ch.c = COMMA
    /\ Converts([Ungrouped EXCEPT !.brace.comma = TRUE, !.brace.up = Infinity])
ConvertBraceDigit ==
    /\ InBrace /\ ~BraceBad /\ Ch.c \in Digits
    /\ LET Grown(n) == 10 * n + Ch.c - 48
           up == conv.brace.up
       IN  Converts(IF conv.brace.comma
                    THEN [Ungrouped EXCEPT !.brace.up = Grown(IF up = Infinity THEN 0 ELSE up)]
                    ELSE [Ungrouped EXCEPT !.brace.low = Grown(@)])
ConvertBraceEnd ==
    /\ InBrace /\ ~BraceBad /\ Ch.c = RBRACE
    /\ Converts([Ungrouped EXCEPT
            !.out = SubSeq(@, 1, Len(@) - Len(conv.brace.copy)) \o Repeated(conv.brace),
            !.brace.on = FALSE])

Outside == phase = "convert" /\ text # << >> /\ ~conv.brace.on
Special == Outside /\ ~Ch.esc /\ (conv.bracket => Ch.c = RBRACKET)

\* The basic syntax has no use for these, and they lose their escape.
NotBasic == {LBRACE, COMMA, RBRACE, QUESTION, PLUS, DOT}
ConvertEscaped ==
    /\ Outside /\ Ch.esc
    /\ Converts(Emit(<< IF Ch.c \in NotBasic THEN Plain(Ch.c) ELSE Ch >>))
ConvertInBracket ==
    /\ Outside /\ ~Ch.esc /\ conv.bracket /\ Ch.c # RBRACKET
    /\ Converts(Emit(<< Ch >>))
ConvertOpen ==
    /\ Special /\ Ch.c \in {LPAREN, LBRACKET}
    /\ Converts([Emit(<< Ch >>) EXCEPT !.parens = Append(@, Len(conv.out) + 1),
                                       !.bracket = Ch.c = LBRACKET])
ClosedGroup == [Emit(<< Ch >>) EXCEPT !.parens = Front(@), !.group = Last(conv.parens)]
ConvertClose ==
    /\ Special /\ Ch.c \in {RPAREN, RBRACKET} /\ conv.parens # << >>
    /\ Converts([ClosedGroup EXCEPT !.bracket = @ /\ Ch.c # RBRACKET])
ConvertOpenBrace ==
    /\ Special /\ Ch.c = LBRACE /\ conv.out # << >>
    /\ Converts([Ungrouped EXCEPT !.brace = [NoBrace EXCEPT !.on = TRUE, !.copy = LastNode]])
ConvertQuestion ==
    /\ Special /\ Ch.c = QUESTION /\ conv.out # << >>
    /\ Converts([Ungrouped EXCEPT !.out = BeforeLastNode \o Optional(LastNode) \o Plains(<< RPAREN >>)])
ConvertPlus ==
    /\ Special /\ Ch.c = PLUS /\ conv.out # << >>
    /\ Converts(Emit(LastNode \o Plains(<< STAR >>)))
DotBracket   == Plains(<< LBRACKET, MinChar, DASH, MaxChar, RBRACKET >>)
ConvertDot ==
    /\ Special /\ Ch.c = DOT
    /\ Converts(Emit(DotBracket))
ConvertOther ==
    /\ Special
    /\ Ch.c \notin {LPAREN, LBRACKET, RPAREN, RBRACKET, LBRACE, RBRACE, QUESTION, PLUS, DOT}
    /\ Converts(Emit(<< Ch >>))
ConvertThrows ==
    /\ \/ InBrace /\ BraceBad
       \/ Special /\ Ch.c \in {RPAREN, RBRACKET} /\ conv.parens = << >>
       \/ Special /\ Ch.c \in {LBRACE, QUESTION, PLUS} /\ conv.out = << >>
       \/ Special /\ Ch.c = RBRACE
    /\ Throws("convert")

\* convertback writes the escapes into a string and parse() reads them out of
\* it again; no unescaped backslash is left to come between.
ConvertEnd ==
    /\ phase = "convert" /\ text = << >>
    /\ phase' = "parse"
    /\ text' = conv.out
    /\ UNCHANGED << wraps, conv, stack, bracket >>

Convert == \/ ConvertBraceComma \/ ConvertBraceDigit \/ ConvertBraceEnd
           \/ ConvertEscaped \/ ConvertInBracket \/ ConvertOpen \/ ConvertClose
           \/ ConvertOpenBrace \/ ConvertQuestion \/ ConvertPlus \/ ConvertDot
           \/ ConvertOther \/ ConvertThrows \/ ConvertEnd

------------------------------------------------------------------------------
(* RegexNodeTreeGenerator *)

CharRange(low, high) == [type |-> "range", low |-> low, high |-> high, subs |-> << >>]
Group(node, complemented) ==
    [type |-> "group", complemented |-> complemented, subs |-> << node >>]
Node(type, subs) == [type |-> type, subs |-> subs]
WithLast(node, sub) == [node EXCEPT !.subs[Len(node.subs)] = sub]

\* push_node_to_node
RECURSIVE PushNode(_, _)
PushNode(old, node) ==
    CASE old.type = "empty"  -> node
      [] old.type = "concat" -> [old EXCEPT !.subs = Append(@, node)]
      [] old.type = "union"  -> WithLast(old, PushNode(Last(old.subs), node))
      [] OTHER               -> Node("concat", << old, node >>)

\* node_to_kleen_start_node: the star takes the last child; a node that comes
\* down to an empty one cannot have it.
RECURSIVE CanStar(_)
CanStar(node) == IF node.type \in {"concat", "union"} THEN CanStar(Last(node.subs))
                 ELSE node.type # "empty"
RECURSIVE StarNode(_)
StarNode(node) == IF node.type \in {"concat", "union"}
                  THEN WithLast(node, StarNode(Last(node.subs)))
                  ELSE Node("star", << node >>)

Alternative(node) == IF node.type = "union" THEN [node EXCEPT !.subs = Append(@, Empty)]
                     ELSE Node("union", << node, Empty >>)

Item == Last(stack)
WithItem(stk, node) == [stk EXCEPT ![Len(stk)].node = node]
Pushed(stk, node) == WithItem(stk, PushNode(Last(stk).node, node))

Parses(newStack, newBracket) ==
    /\ phase = "parse" /\ text # << >>
    /\ stack' = newStack /\ bracket' = newBracket
    /\ text' = Tail(text)
    /\ UNCHANGED << phase, wraps, conv >>

(* Bracket mode *)

InBracket == phase = "parse" /\ text # << >> /\ bracket.on
Eaten == [bracket EXCEPT !.eaten = TRUE]
IsCaret == ~bracket.eaten /\ Ch = Plain(CARET)
IsMember == ~IsCaret /\ Ch # Plain(RBRACKET)
BadEscape == Ch.esc /\ Ch.c \notin {RBRACKET, BACKSLASH, DASH}

\* push_bracket_range
WithRange(b) ==
    CASE b.state = "none"   -> b.ranges
      [] b.state = "one"    -> b.ranges \cup {Span(b.low, b.low)}
      [] b.state = "dashed" -> b.ranges \cup {Span(b.low, MaxChar)}

ParseCaret == InBracket /\ IsCaret /\ Parses(stack, [Eaten EXCEPT !.reversed = TRUE])
ParseDash ==
    /\ InBracket /\ IsMember /\ bracket.state = "one" /\ Ch = Plain(DASH)
    /\ Parses(stack, [Eaten EXCEPT !.state = "dashed"])
ParseRangeEnd ==
    /\ InBracket /\ IsMember /\ ~BadEscape /\ bracket.state = "dashed"
    /\ Parses(stack, [Eaten EXCEPT !.state = "none", !.ranges = @ \cup {Span(bracket.low, Ch.c)}])
ParseMember ==
    /\ InBracket /\ IsMember /\ ~BadEscape
    /\ bracket.state = "none" \/ (bracket.state = "one" /\ Ch # Plain(DASH))
    /\ Parses(stack, [Eaten EXCEPT !.state = "one", !.ranges = WithRange(bracket), !.low = Ch.c])

\* leave_bracket_mode: the ranges, or with ^ what lies between them.
Merged == MergeSortedRange(WithRange(bracket), wraps)
Gaps(spans) ==
    LET n == Len(spans)
        all == [i \in 1..n + 1 |->
                  Span(IF i = 1 THEN MinChar ELSE After(spans[i - 1].high),
                       IF i > n THEN MaxChar ELSE spans[i].low - 1)]
        real(r) == r.low <= r.high /\ r.low # EmptyChar
    IN  SelectSeq(all, real)
Members == IF bracket.reversed /\ Merged # << >> THEN Gaps(Merged) ELSE Merged
Inverted == \E r \in Range(Members) : r.low > r.high

MembersNode(spans) ==
    IF Len(spans) = 1 THEN CharRange(spans[1].low, spans[1].high)
    ELSE Node("union", [i \in DOMAIN spans |-> CharRange(spans[i].low, spans[i].high)])

AtBracketEnd == InBracket /\ Ch = Plain(RBRACKET)
ParseBracketEnd ==
    /\ AtBracketEnd /\ Members # << >> /\ ~Inverted
    /\ Parses(Pushed(stack, Group(MembersNode(Members), FALSE)), [bracket EXCEPT !.on = FALSE])

(* Outside brackets *)

NotInBracket == phase = "parse" /\ text # << >> /\ ~bracket.on
Operator == NotInBracket /\ ~Ch.esc
IsComplement == Ch.c = EXCLAMATION /\ Item.node.type = "empty" /\ ~Item.complemented
Escapable == {LPAREN, RPAREN, LBRACKET, CARET, DASH, RBRACKET, OR, STAR, EXCLAMATION, BACKSLASH}

ParseOpen == Operator /\ Ch.c = LPAREN /\ Parses(Append(stack, NoItem), bracket)
ParseComplement ==
    /\ Operator /\ IsComplement
    /\ Parses([stack EXCEPT ![Len(stack)].complemented = TRUE], bracket)
ParseClose ==
    /\ Operator /\ Ch.c = RPAREN /\ Len(stack) > 1
    /\ Parses(Pushed(Front(stack), Group(Item.node, Item.complemented)), bracket)
ParseOpenBracket ==
    /\ Operator /\ Ch.c = LBRACKET
    /\ Parses(stack, [NoBracket EXCEPT !.on = TRUE])
ParseOr ==
    /\ Operator /\ Ch.c = OR
    /\ Parses(WithItem(stack, Alternative(Item.node)), bracket)
ParseStar ==
    /\ Operator /\ Ch.c = STAR /\ CanStar(Item.node)
    /\ Parses(WithItem(stack, StarNode(Item.node)), bracket)
ParseChar ==
    /\ NotInBracket
    /\ IF Ch.esc THEN Ch.c \in Escapable
       ELSE Ch.c \notin {LPAREN, RPAREN, LBRACKET, RBRACKET, OR, STAR} /\ ~IsComplement
    /\ Parses(Pushed(stack, CharRange(Ch.c, Ch.c)), bracket)

ParseThrows ==
    /\ \/ InBracket /\ IsMember /\ BadEscape
       \/ AtBracketEnd /\ Members = << >>
       \/ NotInBracket /\ Ch.esc /\ Ch.c \notin Escapable
       \/ Operator /\ Ch.c = RPAREN /\ Len(stack) = 1
       \/ Operator /\ Ch.c = RBRACKET
       \/ Operator /\ Ch.c = STAR /\ ~CanStar(Item.node)
       \/ phase = "parse" /\ text = << >> /\ Len(stack) # 1
    /\ Throws("parse")
\* ExprNodeCharRange asserts that its range is in order.
ParseAsserts == AtBracketEnd /\ Inverted /\ Asserts("parse")

\* end(): neither an open bracket nor a ! before everything is looked at.
ParseEnd ==
    /\ phase = "parse" /\ text = << >> /\ Len(stack) = 1
    /\ phase' = "parsed"
    /\ UNCHANGED << wraps, text, conv, stack, bracket >>

Parse == \/ ParseCaret \/ ParseDash \/ ParseRangeEnd \/ ParseMember \/ ParseBracketEnd
         \/ ParseOpen \/ ParseComplement \/ ParseClose \/ ParseOpenBracket
         \/ ParseOr \/ ParseStar \/ ParseChar \/ ParseThrows \/ ParseAsserts \/ ParseEnd

Tree == Item.node
==============================================================================
