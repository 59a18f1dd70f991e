------------------------------- MODULE MCRegex -------------------------------
(****************************************************************************)
(* Small instance of RegExpUTF8: the patterns of two levels of operators over *)
(* a few atoms, written out; patterns that are refused; one pattern that is   *)
(* fed bytes of every kind.                                                   *)
(****************************************************************************)
EXTENDS RegExpUTF8

MCEmptyChar == -2147483647 - 1
MCMaxChar   == 2147483647

(* Sources *)
Chr(c)     == CharRange(c, c)
AnyChar        == CharRange(MinChar, MaxChar)
NotA       == [type |-> "union", subs |-> << CharRange(MinChar, 96), CharRange(98, MaxChar) >>]
PlusToA    == CharRange(43, 97)
Star(x)     == Node("star", << x >>)
Plus(x)     == Node("plus", << x >>)
Optionally(x)  == Node("optional", << x >>)
Times(x, least, most) ==
    [type |-> "times", subs |-> << x >>, least |-> least, most |-> most]
Not(x)     == Group(x, TRUE)
Cat(x, y)  == Node("concat", << x, y >>)
Alt(x, y)  == Node("union", << x, y >>)

(* How a source is written.  A node under a quantifier is an atom or in       *)
(* parentheses, and so is a dot but under a star.                             *)
Digit(n) == 48 + n
RECURSIVE Written(_)
Atomic(x) == x.type = "range" \/ x = NotA
Paren(str) == << LPAREN >> \o str \o << RPAREN >>
Operand(x) == IF Atomic(x) /\ x # AnyChar THEN Written(x) ELSE Paren(Written(x))
Written(x) ==
    CASE x.type = "empty" -> << >>
      [] x = AnyChar     -> << DOT >>
      [] x = NotA    -> << LBRACKET, CARET, 97, RBRACKET >>
      [] x = PlusToA -> << LBRACKET, 43, DASH, 97, RBRACKET >>
      [] x = Chr(43) -> << BACKSLASH, 43 >>
      [] x = Chr(97) -> << 97 >>
      [] x.type = "star" -> (IF x.subs[1] = AnyChar THEN Written(AnyChar) ELSE Operand(x.subs[1])) \o << STAR >>
      [] x.type = "plus" -> Operand(x.subs[1]) \o << PLUS >>
      [] x.type = "optional" -> Operand(x.subs[1]) \o << QUESTION >>
      [] x.type = "times" ->
            Operand(x.subs[1]) \o << LBRACE, Digit(x.least) >>
            \o (IF x.most = x.least THEN << >>
                ELSE IF x.most > 9 THEN << COMMA >> ELSE << COMMA, Digit(x.most) >>)
            \o << RBRACE >>
      [] x.type = "group" -> << LPAREN, EXCLAMATION >> \o Written(x.subs[1]) \o << RPAREN >>
      [] x.type = "concat" ->
            LET part(y) == IF y.type = "union" /\ y # NotA THEN Paren(Written(y)) ELSE Written(y)
            IN  part(x.subs[1]) \o part(x.subs[2])
      [] x.type = "union" /\ x # NotA -> Written(x.subs[1]) \o << OR >> \o Written(x.subs[2])

Atoms == {Chr(97), Chr(43), PlusToA, NotA, AnyChar}
Unary(X) == {Star(x) : x \in X} \cup {Plus(x) : x \in X} \cup {Optionally(x) : x \in X}
            \cup {Times(x, 2, 2) : x \in X} \cup {Times(x, 1, 2) : x \in X}
            \cup {Times(x, 1, 10) : x \in X} \cup {Not(x) : x \in X}
Binary(X, Y) == {Cat(x, y) : x \in X, y \in Y} \cup {Alt(x, y) : x \in X, y \in Y}
Small == {Chr(97), NotA}
Level1 == Unary(Atoms) \cup Binary(Atoms, Atoms)
Level2 == Unary(Binary(Small, Small) \cup {Star(Chr(97)), Empty, Not(Chr(97))})
          \cup Binary(Unary({Chr(97), AnyChar}), {Chr(97), Chr(43), Star(Chr(43)), Not(Chr(43)), Empty})
          \cup Binary({Chr(97)}, Unary({Chr(43)}) \cup Binary(Small, Small))
          \cup {Cat(x, Chr(97)) : x \in Binary({Not(Star(Chr(97)))}, Small)}
          \cup {Cat(Star(AnyChar), y) : y \in Level1}
Sources == Atoms \cup {Empty} \cup Level1 \cup Level2

Instance(source, str, bytes, chars, w) ==
    [source |-> source, str |-> str, bytes |-> bytes, chars |-> chars, wraps |-> w]

\* Refused patterns, and patterns whose meaning is only the code's
Malformed ==
    {<< 97, RPAREN >>, << LPAREN, 97 >>, << STAR >>, << 97, RBRACKET >>, << PLUS >>,
     << 97, BACKSLASH >>, << BACKSLASH, 97 >>, << LBRACKET, RBRACKET >>, << RBRACE >>,
     << 97, LBRACE, 97 >>, << 97, LBRACE, COMMA, COMMA >>, << 97, LBRACE, 50, COMMA, 49, RBRACE >>,
     << LBRACKET, 98, DASH, 97, RBRACKET >>, << LBRACKET, BACKSLASH, 97, RBRACKET >>,
     << DOT, PLUS >>, << LBRACKET, 97, DASH, RBRACKET >>, << LBRACKET, CARET, 97, 99, RBRACKET >>,
     << LBRACKET, BACKSLASH, DASH, DASH, 97, RBRACKET >>, << EXCLAMATION, 97 >>,
     << LPAREN, EXCLAMATION, DOT, STAR, RPAREN >>, << 97, LBRACE, 49, 48 >>}

MCInstances ==
    {Instance(x, Written(x), {97, 43, 98}, 3, w) : x \in Sources, w \in {FALSE}}
    \cup {Instance(x, Written(x), {97, 43, 98}, 3, TRUE) : x \in {Cat(Star(AnyChar), y) : y \in Level1}}
    \cup {Instance(NoNFA, str, {97, 98}, 2, FALSE) : str \in Malformed}
    \cup {Instance(Star(NotA), Written(Star(NotA)),
{97, 127, 128, 143, 144, 191, 192, 193, 194, 223, 224, 239, 240, 244, 248}, 1, FALSE)}
==============================================================================
