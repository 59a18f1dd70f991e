------------------------------ MODULE RegExpUTF8 ------------------------------
(****************************************************************************)
(* RegExpUTF8 (regex_utf8.cpp) over SimpleRegExp<int> (regex_internal.hpp):   *)
(* a pattern is read and made into an NFA, which is then fed bytes; compile() *)
(* replaces the NFA by a DFA.  Between the bytes and the automaton stands a   *)
(* UTF-8 decoder.                                                             *)
(****************************************************************************)
EXTENDS DCRegexPattern, DCUtf8

CONSTANTS
    Instances,  \* [source, str, bytes, chars, wraps]: the meaning of a pattern,
                \* the pattern, the bytes it is fed, and two bounds: the
                \* characters fed, and how the build compares MaxChar + 1
    MaxBuffer,  \* bound: bytes in the decoder
    MaxStuck    \* bound: bytes in a decoder that has thrown and takes another

VARIABLES
    instance,
    nfa,        \* of the NFAMatcher; kept here when the DFAMatcher replaces it
    dfa,        \* of the DFAMatcher, NoDFA before compile()
    current     \* m_current_states, or m_current_state in a set
matcher == << nfa, dfa, current, buffer, stuck, fed >>
vars == << phase, wraps, text, conv, stack, bracket, instance,
           nfa, dfa, current, buffer, stuck, fed >>

NoNFA == << >>
NoDFA == << >>

Init ==
    /\ instance \in Instances
    /\ PatternInit(StrDecode(StrEncode(instance.str)), instance.wraps)
    /\ nfa = NoNFA /\ dfa = NoDFA /\ current = {}
    /\ DecoderInit

Read == (Convert \/ Parse) /\ UNCHANGED << instance, nfa, dfa, current, buffer, stuck, fed >>

\* The end of the constructor: the automaton is built, which may fail an
\* assertion, and the matcher starts from the closure of the start state.  An
\* automaton without transitions has no start state and m_epsilon_closure is
\* read out of its bounds.
Built(new) == IF "assert" \in new.faults THEN "assert"
              ELSE IF ~HasStart(new) THEN "undefined" ELSE "match"
Construct ==
    /\ phase = "parsed"
    /\ nfa' = FromTree(Tree, wraps)
    /\ phase' = Built(nfa')
    /\ current' = IF phase' = "match" THEN StartClosure(nfa') ELSE {}
    /\ conv' = NewConvertor
    /\ UNCHANGED << wraps, text, stack, bracket, instance, dfa, buffer, stuck, fed >>

\* compile(): the new matcher starts afresh, the decoder keeps its bytes.
CompileMatcher ==
    /\ phase = "match" /\ dfa = NoDFA
    /\ dfa' = Compile(nfa, wraps)
    /\ phase' = IF "assert" \in dfa'.faults THEN "assert" ELSE "match"
    /\ current' = {dfa'.start}
    /\ fed' = << >>
    /\ UNCHANGED << wraps, text, conv, stack, bracket, instance, nfa, buffer, stuck >>

NfaDead == current = {}
DfaDead == current \cap dfa.dead # {}
Dead == IF dfa = NoDFA THEN NfaDead ELSE DfaDead
Matching == IF dfa = NoDFA THEN nfa.final \in current ELSE current \cap dfa.finals # {}

\* feed(int): a dead matcher stays as it is; a DFA without an entry for the
\* character fails an assertion.
DfaStep(c) == UNION {{e.to : e \in DfaLanding(dfa, S, c)} : S \in current}
DfaMove(next) == IF next = {} THEN phase' = "assert" /\ UNCHANGED current
                              ELSE current' = next /\ UNCHANGED phase
FeedChar(c) ==
    IF Dead THEN UNCHANGED << phase, current >>
    ELSE IF dfa = NoDFA
    THEN current' = StateTransition(nfa, current, c) /\ UNCHANGED phase
    ELSE DfaMove(DfaStep(c))

\* feed(char): the decoder comes first, and gives a character or none.
FeedByte(b) ==
    /\ phase = "match" /\ Len(fed) < instance.chars
    /\ Len(buffer) < IF stuck THEN MaxStuck ELSE MaxBuffer
    /\ TakeByte(b)
    /\ IF fed' = fed THEN UNCHANGED << phase, current >> ELSE FeedChar(Last(fed'))
    /\ UNCHANGED << wraps, text, conv, stack, bracket, instance, nfa, dfa >>

\* reset(): of the matcher only
Reset ==
    /\ phase = "match"
    /\ current' = IF dfa = NoDFA THEN StartClosure(nfa) ELSE {dfa.start}
    /\ fed' = << >>
    /\ UNCHANGED << phase, wraps, text, conv, stack, bracket, instance, nfa, dfa, buffer, stuck >>

Next == \/ Read
        \/ Construct
        \/ CompileMatcher
        \/ \E b \in instance.bytes : FeedByte(b)
        \/ Reset

Spec == Init /\ [][Next]_vars

------------------------------------------------------------------------------
(* What patterns mean.  The nodes of a source are those of a tree, and "plus", *)
(* "optional", "times" with least and most.                                    *)

Prefix(w, k) == SubSeq(w, 1, k)
Suffix(w, k) == SubSeq(w, k + 1, Len(w))

RECURSIVE Means(_, _)
RECURSIVE MeansTimes(_, _, _, _)
RECURSIVE MeansAll(_, _)
\* w is in the language of the node.
Means(node, w) ==
    CASE node.type = "empty"    -> w = << >>
      [] node.type = "range"    -> Len(w) = 1 /\ w[1] \in node.low..node.high
      [] node.type = "group"    -> Means(node.subs[1], w) # node.complemented
      [] node.type = "union"    -> \E i \in DOMAIN node.subs : Means(node.subs[i], w)
      [] node.type = "concat"   -> MeansAll(node.subs, w)
      [] node.type = "star"     -> MeansTimes(node.subs[1], w, 0, Len(w))
      [] node.type = "plus"     -> MeansTimes(node.subs[1], w, 1, Len(w) + 1)
      [] node.type = "optional" -> w = << >> \/ Means(node.subs[1], w)
      [] node.type = "times"    -> MeansTimes(node.subs[1], w, node.least, node.most)
\* w is the words of subs one after the other.
MeansAll(subs, w) ==
    IF subs = << >> THEN w = << >>
    ELSE \E k \in 0..Len(w) : Means(Head(subs), Prefix(w, k)) /\ MeansAll(Tail(subs), Suffix(w, k))
\* w is least to most words of the node.
MeansTimes(node, w, least, most) ==
    \/ w = << >> /\ least = 0
    \/ /\ most > 0
       /\ \E k \in 0..Len(w) :
             /\ k > 0 \/ least > 0
             /\ Means(node, Prefix(w, k))
             /\ MeansTimes(node, Suffix(w, k), IF least > 0 THEN least - 1 ELSE 0, most - 1)

\* Whether an edge may lead back to the start ("first") or on from the final
\* state ("last") of the node's NFA.
RECURSIVE Leaks(_, _)
Leaks(node, end) ==
    CASE node.type \in {"empty", "range"} -> FALSE
      [] node.type = "star"   -> TRUE
      [] node.type = "group"  -> IF node.complemented THEN end = "first"
                                 ELSE Leaks(node.subs[1], end)
      [] node.type = "union"  -> \E i \in DOMAIN node.subs : Leaks(node.subs[i], end)
      [] node.type = "concat" -> Leaks(IF end = "first" THEN Head(node.subs)
                                                        ELSE Last(node.subs), end)
LeaksSomewhere(node) == Leaks(node, "first") \/ Leaks(node, "last")

\* No starred or complemented part shares a state with a part whose words it
\* could be followed by, or begin again from, there.
RECURSIVE Tight(_)
Tight(node) ==
    /\ \A i \in DOMAIN node.subs : Tight(node.subs[i])
    /\ node.type = "star"   => ~LeaksSomewhere(node.subs[1])
    /\ node.type = "union"  => \A i \in DOMAIN node.subs : ~LeaksSomewhere(node.subs[i])
    /\ node.type = "concat" => \A i \in 2..Len(node.subs) :
                                  ~(Leaks(node.subs[i - 1], "last") /\ Leaks(node.subs[i], "first"))
RECURSIVE Complements(_)
Complements(node) == \/ node.type = "group" /\ node.complemented
                     \/ \E i \in DOMAIN node.subs : Complements(node.subs[i])

Words == UNION {[1..n -> instance.bytes] : n \in 0..instance.chars}
HasMeaning == instance.source # NoNFA
Sound == nfa # NoNFA /\ nfa.faults = {}

\* The NFA states from which one of goals is reached.
RECURSIVE NfaReaching(_)
NfaReaching(goals) ==
    LET more == {q \in DOMAIN nfa.table \ goals :
                    \/ nfa.closure[q] \cap goals # {}
                    \/ \E e \in Range(nfa.table[q]) : e.to \cap goals # {}}
    IN  IF more = {} THEN goals ELSE NfaReaching(goals \cup more)

------------------------------------------------------------------------------
(* Properties *)

\* A well-formed pattern is never refused, and its tree means what the pattern
\* means: rewriting + ? {n,m} and ., the priorities of | and *, groups and
\* brackets are all as usual.
PatternMeaning ==
    HasMeaning =>
        /\ phase # "error"
        /\ phase = "parsed" => \A w \in Words : Means(Tree, w) = Means(instance.source, w)

\* The NFA and the DFA accept exactly the pattern's words, when no starred part
\* meets another one in a state of the NFA.
LanguageExact ==
    phase = "match" /\ Sound /\ Tight(Tree) => (Matching <=> Means(Tree, fed))

\* Without a complement no word of the pattern is ever refused.
LanguageCovered ==
    phase = "match" /\ Sound /\ ~Complements(Tree) => (Means(Tree, fed) => Matching)

\* dead() is said as soon as no continuation can match any more, and not before:
\* what the README promises of the DFA, and a comment in NFAMatcher argues for.
RECURSIVE AcceptsNothing(_)
AcceptsNothing(node) ==
    \/ node.type = "group" /\ node.complemented /\ \A w \in Words : ~Means(node, w)
    \/ \E i \in DOMAIN node.subs : AcceptsNothing(node.subs[i])
DeadExact ==
    phase = "match" /\ Sound /\ ~AcceptsNothing(Tree) =>
        (Dead <=> (IF dfa = NoDFA THEN current ELSE UNION current) \cap NfaReaching({nfa.final}) = {})
==============================================================================
