-------------------------------- MODULE DCLexer --------------------------------
(****************************************************************************)
(* Lexer<T> of include/lexer/lexer.hpp: feed_char(), feed_end() and reset(), *)
(* one action per turn of the loops inside them.  A call runs from FeedChar  *)
(* or FeedEnd to a state with pc = "idle"; `outcome' is then what the caller *)
(* saw of it, and `batch' the tokens it was given.                           *)
(****************************************************************************)
EXTENDS LexerRules, TextPositions

CONSTANTS
    Width,      \* bytes of the encoding of every character
    Newline,    \* traits::NEWLINE
    MaxText,    \* bound: characters fed between two resets
    MaxResets,  \* bound: calls of reset()
    GoesOn      \* whether the caller may go on after an exception

ASSUME LexerAssumption ==
    /\ Width \in [Char -> Nat \ {0}]
    /\ Newline \in Char
    /\ MaxText \in Nat /\ MaxResets \in Nat
    /\ GoesOn \in BOOLEAN

VARIABLES
    rule,       \* m_rules: the state of every rule
    major,      \* m_match_major_priority, 0 for nullopt
    last,       \* m_notnull_last_token: its kind
    cache,      \* m_cache
    m_pos,      \* bytes of the text
    linfo,      \* _linfo of m_textinfo
    cache_pos,  \* of push_cache_to_end(): the entry fed next
    batch,      \* tokens: those the running call has collected
    cls,        \* i of feed_char_internal(): the class visited
    prevs_is_dead,
    pc,         \* "idle", "scan" in push_cache_to_end(), "class" and "judge" in
                \* feed_char_internal(), "end" in feed_end()
    ending,     \* whether the scan was called from feed_end()
    outcome     \* of the last call: "fed", "ended" or the exception

\* What the properties compare with; nothing above depends on these.
VARIABLES
    text,       \* the characters fed since the last reset
    taken,      \* the tokens taken of them, skipped ones and lost ones too
    out,        \* the tokens returned to the caller
    first,      \* m_notnull_last_token as it was before the first of them
    resets      \* calls of reset()

machine == <<rule, major, last, cache, m_pos, linfo, cache_pos, batch,
             cls, prevs_is_dead, pc, ending, outcome>>
ghost   == <<text, taken, out, first, resets>>
vars    == <<machine, ghost>>

Errors == {"no rule match", "unexpected end of file"}

------------------------------------------------------------------------------
(* feed_char_internal() *)

Smallest(S) == CHOOSE i \in S : \A j \in S : i <= j

\* The rules of class i and whether they are all dead.
InClass(i)        == {r \in Rule : ClassOf(r) = i}
CurrentIsDead(i)  == \A r \in InClass(i) : Dead(r, rule[r])

\* finished_rules once its class is dead, and matchs of feed_end_internal().
Candidates(i) == {r \in InClass(i) : rule[r].match_len > 0}

BeatsByClass(r, s) ==                                           \* fault
    \/ MinorOf(r) < MinorOf(s)
    \/ /\ MinorOf(r) = MinorOf(s)
       /\ \/ rule[r].match_len > rule[s].match_len
          \/ rule[r].match_len = rule[s].match_len /\ PlaceOf(r) >= PlaceOf(s)

(****************************************************************************)
(* get_token_by_candidates(): the longest, of these the least minor class,   *)
(* of these the rule added last.  The condition in line 280 compares the     *)
(* minor classes twice, so the "conflict rule" below it is never thrown.     *)
(****************************************************************************)
Beats(r, s) ==
    \/ rule[r].match_len > rule[s].match_len
    \/ /\ rule[r].match_len = rule[s].match_len
       /\ \/ MinorOf(r) < MinorOf(s)
          \/ MinorOf(r) = MinorOf(s) /\ PlaceOf(r) >= PlaceOf(s)

Winner(i) == CHOOSE r \in Candidates(i) : \A s \in Candidates(i) : Beats(r, s)

------------------------------------------------------------------------------
(* Taking a token: the same lines in push_cache_to_end() and feed_end() *)

ResetRulesKeepsLimit(lasttok) ==                                \* fault
    /\ rule' = [r \in Rule |-> RuleReset(r, lasttok)]
    /\ major' = major
    /\ last' = lasttok
ResetRules(lasttok) ==
    /\ rule' = [r \in Rule |-> RuleReset(r, lasttok)]
    /\ major' = 0
    /\ last' = lasttok

\* Where the text of the first n characters of the cache ends.
CachePos(n) == IF n < Len(cache) THEN cache[n + 1].pos ELSE m_pos

\* rule.token(): the rule's own m_string and m_range, whatever has matched.
TokenOf(r) ==
    [rule |-> r, kind |-> Shape[r].kind, len |-> rule[r].match_len,
     stored |-> rule[r].stored, from |-> cache[1].pos, to |-> CachePos(rule[r].stored)]

TakeOnlyLast(r) ==                                              \* fault
    LET tok == TokenOf(r)
        shown == tok.kind # Skip
    IN  /\ ResetRules(IF shown THEN tok.kind ELSE last)
        /\ cache' = SubSeq(cache, tok.len + 1, Len(cache))
        /\ batch' = IF shown THEN <<tok>> ELSE batch
        /\ taken' = Append(taken, [tok |-> tok, start |-> Len(text) - Len(cache)])
TakeResetsFirst(r) ==                                           \* fault
    LET tok == TokenOf(r)
        shown == tok.kind # Skip
    IN  /\ rule' = [s \in Rule |-> RuleReset(s, last)]
        /\ major' = 0 /\ last' = IF shown THEN tok.kind ELSE last
        /\ cache' = SubSeq(cache, tok.len + 1, Len(cache))
        /\ batch' = IF shown THEN Append(batch, tok) ELSE batch
        /\ taken' = Append(taken, [tok |-> tok, start |-> Len(text) - Len(cache)])
Take(r) ==
    LET tok == TokenOf(r)
        shown == tok.kind # Skip
    IN  /\ ResetRules(IF shown THEN tok.kind ELSE last)
        /\ cache' = SubSeq(cache, tok.len + 1, Len(cache))
        /\ batch' = IF shown THEN Append(batch, tok) ELSE batch
        /\ taken' = Append(taken, [tok |-> tok, start |-> Len(text) - Len(cache)])

Throw(what) ==
    /\ pc' = "idle" /\ outcome' = what
    /\ batch' = << >>
    /\ UNCHANGED <<rule, major, last, cache, cache_pos, cls, prevs_is_dead, ending,
                  taken, out>>

Return(what) ==
    /\ pc' = "idle" /\ outcome' = what
    /\ out' = out \o batch
    /\ UNCHANGED <<rule, major, last, cache, cache_pos, cls, prevs_is_dead, batch,
                  ending, taken>>

\* What no turn of a loop changes.
Fixed == UNCHANGED <<m_pos, linfo, text, first, resets>>

------------------------------------------------------------------------------
(* feed_char() *)

\* After feed_end(), whatever came of it, nobody feeds the lexer without a reset;
\* SimpleLexer may go on after a character no rule matches, the others reset.
CallAllowed ==
    /\ pc = "idle"
    /\ \/ outcome \in {"reset", "fed"}
       \/ GoesOn /\ outcome = "no rule match" /\ ~ending

FeedChar(c) ==
    /\ CallAllowed
    /\ Len(text) < MaxText
    /\ IF m_pos = 0 THEN ResetRules(last) ELSE UNCHANGED <<rule, major, last>>
    /\ m_pos' = m_pos + Width[c]
    /\ linfo' = IF c = Newline THEN Append(linfo, m_pos') ELSE linfo
    /\ cache' = Append(cache, [char |-> c, pos |-> m_pos])
    /\ cache_pos' = Len(cache')
    /\ batch' = << >>
    /\ pc' = "scan" /\ ending' = FALSE /\ outcome' = "running"
    /\ text' = Append(text, c)
    /\ UNCHANGED <<cls, prevs_is_dead, taken, out, first, resets>>

(* push_cache_to_end() *)

ScanNext ==
    /\ pc = "scan" /\ cache_pos <= Len(cache)
    /\ pc' = "class" /\ cls' = 1 /\ prevs_is_dead' = TRUE
    /\ Fixed
    /\ UNCHANGED <<rule, major, last, cache, cache_pos, batch, ending, outcome,
                  taken, out>>

ScanDone ==
    /\ pc = "scan" /\ cache_pos > Len(cache)
    /\ IF ending
       THEN /\ pc' = "end"
            /\ UNCHANGED <<rule, major, last, cache, cache_pos, cls, prevs_is_dead,
                          batch, ending, outcome, taken, out>>
       ELSE Return("fed")
    /\ Fixed

(* feed_char_internal() with the entry at cache_pos *)

LastClass == Cardinality(Classes)

\* A class beyond the one that has matched does not see the character.
SkipClass ==
    /\ pc = "class" /\ cls <= LastClass
    /\ major # 0 /\ major < cls
    /\ cls' = cls + 1
    /\ Fixed
    /\ UNCHANGED <<rule, major, last, cache, cache_pos, prevs_is_dead, batch, pc,
                  ending, outcome, taken, out>>

FeedClass ==
    /\ pc = "class" /\ cls <= LastClass
    /\ major = 0 \/ cls <= major
    /\ rule' = [r \in Rule |-> IF ClassOf(r) = cls
                              THEN Fed(r, rule[r], cache[cache_pos].char)
                              ELSE rule[r]]
    /\ major' = IF \E r \in InClass(cls) : ~Dead(r, rule[r]) /\ Match(r, rule'[r])
                THEN cls ELSE major
    /\ pc' = "judge"
    /\ Fixed
    /\ UNCHANGED <<last, cache, cache_pos, cls, prevs_is_dead, batch, ending,
                  outcome, taken, out>>

\* The class and all before it are dead, and one of its rules has matched.
TakeScanned ==
    /\ pc = "judge"
    /\ prevs_is_dead /\ CurrentIsDead(cls) /\ Candidates(cls) # {}
    /\ Take(Winner(cls))
    /\ pc' = "scan" /\ cache_pos' = 1
    /\ Fixed
    /\ UNCHANGED <<cls, prevs_is_dead, ending, outcome, out>>

PassClass ==
    /\ pc = "judge"
    /\ ~(prevs_is_dead /\ CurrentIsDead(cls) /\ Candidates(cls) # {})
    /\ prevs_is_dead' = (prevs_is_dead /\ CurrentIsDead(cls))
    /\ pc' = "class" /\ cls' = cls + 1
    /\ Fixed
    /\ UNCHANGED <<rule, major, last, cache, cache_pos, batch, ending, outcome,
                  taken, out>>

StayAlive ==
    /\ pc = "class" /\ cls > LastClass
    /\ ~prevs_is_dead
    /\ pc' = "scan" /\ cache_pos' = cache_pos + 1
    /\ Fixed
    /\ UNCHANGED <<rule, major, last, cache, cls, prevs_is_dead, batch, ending,
                  outcome, taken, out>>

NoRuleMatchRetries ==                                           \* fault
    /\ pc = "class" /\ cls > LastClass
    /\ prevs_is_dead
    /\ cls' = 1
    /\ Fixed
    /\ UNCHANGED <<rule, major, last, cache, cache_pos, prevs_is_dead, batch, pc,
                  ending, outcome, taken, out>>
NoRuleMatch ==
    /\ pc = "class" /\ cls > LastClass
    /\ prevs_is_dead
    /\ Throw("no rule match")
    /\ Fixed

------------------------------------------------------------------------------
(* feed_end() *)

FeedEnd ==
    /\ CallAllowed
    /\ pc' = "end" /\ outcome' = "running"
    /\ batch' = << >>
    /\ Fixed
    /\ UNCHANGED <<rule, major, last, cache, cache_pos, cls, prevs_is_dead, ending,
                  taken, out>>

\* feed_end_internal(): the classes before the limit are passed over.
Endable == {i \in Classes : i >= major /\ Candidates(i) # {}}

EndTake ==
    /\ pc = "end" /\ cache # << >> /\ Endable # {}
    /\ Take(Winner(Smallest(Endable)))
    /\ IF cache' = << >> THEN UNCHANGED <<pc, cache_pos, ending>>
       ELSE pc' = "scan" /\ cache_pos' = 1 /\ ending' = TRUE
    /\ Fixed
    /\ UNCHANGED <<cls, prevs_is_dead, outcome, out>>

EndFail ==
    /\ pc = "end" /\ cache # << >> /\ Endable = {}
    /\ Throw("unexpected end of file")
    /\ Fixed

EndDone ==
    /\ pc = "end" /\ cache = << >>
    /\ Return("ended")
    /\ Fixed

------------------------------------------------------------------------------
(* reset(): reset_rules(0, nullopt) leaves m_notnull_last_token as it is *)

Reset ==
    /\ pc = "idle" /\ resets < MaxResets
    /\ ResetRules(last)
    /\ cache' = << >> /\ m_pos' = 0 /\ linfo' = <<0>>
    /\ batch' = << >> /\ outcome' = "reset"
    /\ text' = << >> /\ taken' = << >> /\ out' = << >>
    /\ first' = last
    /\ resets' = resets + 1
    /\ UNCHANGED <<cache_pos, cls, prevs_is_dead, pc, ending>>

------------------------------------------------------------------------------

Init ==
    /\ rule = [r \in Rule |-> RuleReset(r, NoToken)]
    /\ major = 0 /\ last = NoToken
    /\ cache = << >> /\ m_pos = 0 /\ linfo = <<0>>
    /\ cache_pos = 1 /\ batch = << >> /\ cls = 1 /\ prevs_is_dead = TRUE
    /\ pc = "idle" /\ ending = FALSE /\ outcome = "reset"
    /\ text = << >> /\ taken = << >> /\ out = << >>
    /\ first = NoToken /\ resets = 0

Step ==
    \/ ScanNext \/ ScanDone
    \/ SkipClass \/ FeedClass \/ TakeScanned \/ PassClass \/ StayAlive \/ NoRuleMatch
    \/ EndTake \/ EndFail \/ EndDone

Next == (\E c \in Char : FeedChar(c)) \/ FeedEnd \/ Reset \/ Step

\* A call that has begun runs on, nobody has to call: this is WF_vars(Step),
\* for Step is enabled exactly when pc # "idle", and then nothing else is.
Fairness == []<>(pc = "idle") \/ []<><<pc # "idle">>_vars

Spec == Init /\ [][Next]_vars /\ Fairness

------------------------------------------------------------------------------
(* What a tokenization is, said of the text alone *)

\* The state a rule's automaton reaches on the first n characters of w.
Reaches(r, w, n) ==
    LET run[k \in 0 .. n] == IF k = 0 THEN Shape[r].start
                             ELSE Shape[r].next[run[k - 1], w[k]]
    IN  run[n]

\* The first n characters of w are a word of rule r.  A rule with first_match
\* has only its shortest words; a string literal ends at its closing quote.
IsWord(r, w, n) ==
    /\ Reaches(r, w, n) \in Shape[r].final
    /\ \A k \in 0 .. n - 1 :
          /\ Shape[r].first => Reaches(r, w, k) \notin Shape[r].final
          /\ Reaches(r, w, k) \notin Shape[r].spare

\* What can be taken from the front of w after a token of kind `before'.
Options(w, before) ==
    {o \in {r \in Rule : before \in Shape[r].after} \X (1 .. Len(w)) :
        IsWord(o[1], w, o[2])}

\* First by major class, then by length, then by minor class, then by place.
Preferred(o, p) ==
    \/ ClassOf(o[1]) < ClassOf(p[1])
    \/ /\ ClassOf(o[1]) = ClassOf(p[1])
       /\ \/ o[2] > p[2]
          \/ /\ o[2] = p[2]
             /\ \/ MinorOf(o[1]) < MinorOf(p[1])
                \/ MinorOf(o[1]) = MinorOf(p[1]) /\ PlaceOf(o[1]) >= PlaceOf(p[1])

Rest(n)  == SubSeq(text, n + 1, Len(text))

\* The tokens of s that are shown to the caller.
Shown(s) ==
    LET shown[n \in 0 .. Len(s)] ==
          IF n = 0 THEN << >>
          ELSE IF s[n].tok.kind = Skip THEN shown[n - 1]
               ELSE Append(shown[n - 1], s[n])
    IN  shown[Len(s)]

\* The kind of the last token before the i-th, when `since' came before all.
LastBefore(i, since) ==
    LET shown == Shown(SubSeq(taken, 1, i - 1))
    IN  IF shown = << >> THEN since ELSE shown[Len(shown)].tok.kind

BestTaken(since) ==
    \A i \in DOMAIN taken :
        LET opts == Options(Rest(taken[i].start), LastBefore(i, since))
            o    == <<taken[i].tok.rule, taken[i].tok.len>>
        IN  o \in opts /\ \A p \in opts : Preferred(o, p)

------------------------------------------------------------------------------
(* Properties *)

Token == [rule : Rule, kind : Kind \cup {Skip}, len : Nat, stored : Nat,
          from : Nat, to : Nat]

\* Type invariant.
TypeOK ==
    /\ rule = [r \in Rule |-> rule[r]]
    /\ \A r \in Rule : rule[r] \in RuleState(r)
    /\ major \in Classes \cup {0}
    /\ last \in Kind \cup {NoToken} /\ first \in Kind \cup {NoToken}
    /\ cache \in Seq([char : Char, pos : Nat])
    /\ m_pos \in Nat /\ linfo \in Seq(Nat)
    /\ cache_pos \in Nat \ {0}
    /\ cls \in 1 .. LastClass + 1 /\ prevs_is_dead \in BOOLEAN
    /\ batch \in Seq(Token) /\ out \in Seq(Token)
    /\ pc \in {"idle", "scan", "class", "judge", "end"} /\ ending \in BOOLEAN
    /\ outcome \in {"reset", "running", "fed", "ended"} \cup Errors
    /\ text \in Seq(Char)
    /\ taken \in Seq([tok : Token, start : Nat])
    /\ resets \in Nat

\* Every token taken is the one a reader of the whole text would take: of the
\* most urgent class that matches at all, the longest match, whatever has been
\* fed since it was taken.  feed_char_internal() gives a token out before it
\* has seen the rest of the text.
LongestMatch == pc = "idle" => BestTaken(first)

\* The tokens taken and the cache are the text, cut into pieces: no character
\* is lost, read twice or moved when a token is cut off the front of the cache
\* and the rest is fed again.
CutsTile ==
    /\ \A i \in DOMAIN taken :
          taken[i].start = IF i = 1 THEN 0
                           ELSE taken[i - 1].start + taken[i - 1].tok.len
    /\ Len(text) = Len(cache) + (IF taken = << >> THEN 0
                 ELSE taken[Len(taken)].start + taken[Len(taken)].tok.len)
    /\ \A i \in DOMAIN cache : cache[i].char = Rest(Len(text) - Len(cache))[i]

\* A text is given up only where no rule matches any piece of what is left.
FailsOnlyWithoutMatch ==
    outcome \in Errors =>
        Options(Rest(Len(text) - Len(cache)), LastBefore(Len(taken) + 1, first)) = {}

\* When no call has thrown, the caller has been given every token taken, in
\* order, and after feed_end() they are the tokens of the whole text.
TokensDelivered ==
    outcome \in {"fed", "ended"} =>
        /\ out = [i \in DOMAIN Shown(taken) |-> Shown(taken)[i].tok]
        /\ outcome = "ended" => cache = << >>

\* The assertions of push_cache_to_end(), feed_char_internal() and feed_end():
\* a token is no longer than what has been fed, and when every rule is dead
\* without a token, none has matched.
AssertionsHold ==
    /\ (pc = "class" /\ cls > LastClass /\ prevs_is_dead) => major = 0
    /\ pc = "judge" =>
          \A r \in Candidates(cls) : rule[r].match_len <= cache_pos
    /\ pc = "end" =>
          \A i \in Endable : \A r \in Candidates(i) : rule[r].match_len <= Len(cache)

(****************************************************************************)
(* The inductive invariant: the lengths a rule has counted are those of the  *)
(* cache, the limit is the first class that has matched, and when the loop   *)
(* over the classes finds all dead so far, none of them has matched.         *)
(****************************************************************************)
FedSoFar(r) ==
    CASE pc \in {"idle", "end"} -> Len(cache)
      [] pc = "scan"  -> cache_pos - 1
      [] pc = "class" -> IF ClassOf(r) < cls THEN cache_pos ELSE cache_pos - 1
      [] pc = "judge" -> IF ClassOf(r) <= cls THEN cache_pos ELSE cache_pos - 1

Measured ==
    /\ \A r \in Rule : /\ rule[r].match_len <= rule[r].feed_len
                       /\ rule[r].feed_len <= FedSoFar(r)
    /\ pc = "scan" => cache_pos <= Len(cache) + 1
    /\ pc \in {"class", "judge"} => cache_pos <= Len(cache)
    /\ pc = "judge" => cls <= LastClass

LimitKnown ==
    /\ major # 0 => \E r \in InClass(major) : rule[r].match_len > 0
    /\ \A r \in Rule : rule[r].match_len > 0 => major # 0 /\ major <= ClassOf(r)

PrevsKnown ==
    (pc \in {"class", "judge"} /\ prevs_is_dead) =>
        \A r \in Rule :
            (ClassOf(r) < cls /\ (major = 0 \/ ClassOf(r) <= major)) =>
                rule[r].match_len = 0

IInv == TypeOK /\ CutsTile /\ Measured /\ LimitKnown /\ PrevsKnown

BytesBefore(k) ==
    LET b[n \in 0 .. k] == IF n = 0 THEN 0 ELSE b[n - 1] + Width[text[n]]
    IN  b[k]

NewlinesBefore(k) == {n \in 1 .. k : text[n] = Newline}

\* The line and column of every character, from the newlines before it.
PositionsExact ==
    \A k \in 0 .. Len(text) - 1 :
        LET nls == NewlinesBefore(k)
        IN  Query(linfo, m_pos, BytesBefore(k)) =
              [line   |-> Cardinality(nls) + 1,
               column |-> BytesBefore(k) + 1
                          - (IF nls = {} THEN 0
                             ELSE BytesBefore(CHOOSE n \in nls : \A m \in nls : m <= n))]

\* lines() cuts any range of the text into pieces that are the range again.
LinesCover ==
    \A from \in 0 .. m_pos, to \in 0 .. m_pos :
        from <= to =>
            UNION {(linfo[l.line] + l.beg) .. (linfo[l.line] + l.end - 1)
                   : l \in Lines(linfo, m_pos, from, to)} = from .. (to - 1)

\* Between two calls the position table is that of the text: for every character
\* it gives the line and column a reader would count, and the pieces of lines it
\* gives for a range are the range.
PositionsRight == pc = "idle" => PositionsExact /\ LinesCover

\* Every call comes back to its caller.
CallReturns == (pc # "idle") ~> (pc = "idle")
==============================================================================
