---------------------------- MODULE DCRegexAutomata ----------------------------
(****************************************************************************)
(* From the tree of a regular expression to an NFA and to a DFA               *)
(* (include/regex/regex_expr_node.hpp, regex_automata_*.hpp, misc.hpp).       *)
(*                                                                            *)
(* An entry [low, high, to] leads from a state by the characters low..high to *)
(* the states in to; EmptyChar stands for no character.  A state's entries    *)
(* are a sorted sequence.  An NFA is [table, start, final, next, faults]:     *)
(* next is the allocator's, and faults tells what went wrong on the way, an   *)
(* "assert" that failed or a range that begins at EmptyChar, a "wrap".        *)
(*                                                                            *)
(* high + 1 at MaxChar overflows an int, which is undefined; wraps tells      *)
(* which of the two answers the build gives to MaxChar + 1 < low.             *)
(****************************************************************************)
EXTENDS Integers, Sequences, FiniteSets, SequencesExt, TLC

CONSTANTS EmptyChar, MaxChar
MinChar == EmptyChar + 1

Lesser(a, b) == IF a < b THEN a ELSE b
Larger(a, b) == IF a < b THEN b ELSE a

Entry(low, high, to) == [low |-> low, high |-> high, to |-> to]
Epsilon(to) == Entry(EmptyChar, EmptyChar, to)
Span(low, high) == [low |-> low, high |-> high]
Before(r, q) == r.low < q.low \/ (r.low = q.low /\ r.high < q.high)
\* The same function, which TLC evaluates once and not at every application.
Tabulated(f) == f @@ << >>

\* The elements of S in the order of Less.
InOrder(S, Less(_, _)) ==
    Tabulated([i \in 1..Cardinality(S) |->
                  CHOOSE r \in S : Cardinality({q \in S : Less(q, r)}) = i - 1])
Sorted(spans) == InOrder(spans, Before)
Ascending(S) == InOrder(S, <)

\* std::lower_bound by halving: exact on any sequence, sorted or not.
LowerBound(below) ==
    LET search[first \in Nat, n \in Nat] ==
          IF n = 0 THEN first
          ELSE IF below[first + (n \div 2)]
               THEN search[first + (n \div 2) + 1, n - (n \div 2) - 1]
               ELSE search[first, n \div 2]
    IN  search[1, Len(below)]
FirstUpTo(entries, c) == LowerBound([i \in DOMAIN entries |-> entries[i].high < c])

------------------------------------------------------------------------------
(* misc.hpp: ranges *)

Apart(high, low, wraps) == IF high = MaxChar THEN wraps ELSE high + 1 < low

JoinLast(merged, r, wraps) ==
    IF merged = << >> \/ Apart(Last(merged).high, r.low, wraps) THEN Append(merged, r)
    ELSE [merged EXCEPT ![Len(merged)].high = Larger(@, r.high)]
RECURSIVE MergeOnto(_, _, _)
MergeOnto(merged, spans, wraps) ==
    IF spans = << >> THEN merged
    ELSE MergeOnto(JoinLast(merged, Head(spans), wraps), Tail(spans), wraps)
MergeSortedRange(spans, wraps) == MergeOnto(<< >>, Sorted(spans), wraps)

\* The units, cut before each low and then after each high, in order.  A point
\* cuts the unit lower_bound finds it in.
LowPoints(spans)  == LET lows == {r.low : r \in spans}
                     IN  [i \in DOMAIN Ascending(lows) |-> [at |-> Ascending(lows)[i], low |-> TRUE]]
HighPoints(spans) == LET highs == {r.high : r \in spans}
                     IN  [i \in DOMAIN Ascending(highs) |-> [at |-> Ascending(highs)[i], low |-> FALSE]]
Points(spans) == LowPoints(spans) \o HighPoints(spans)

SplitAt(u, p) ==
    CASE u.low > p.at               -> {u}
      [] u.low <= p.at /\ p.low     -> {r \in {Span(u.low, p.at - 1), Span(p.at, u.high)} : r.low <= r.high}
      [] u.low <= p.at /\ ~p.low    -> {Span(u.low, p.at)}
                                       \cup IF p.at < u.high THEN {Span(p.at + 1, u.high)} ELSE {}
Replaced(units, u, parts) == (units \ {u}) \cup parts
Cut(units, u, p) == Replaced(units, u, SplitAt(u, p))
UnitAt(seq, c) == seq[FirstUpTo(seq, c)]

RECURSIVE CutAll(_, _)
CutAll(units, points) ==
    IF points = << >> THEN units
    ELSE CutAll(Cut(units, UnitAt(Sorted(units), Head(points).at), Head(points)), Tail(points))

SplitRangesToUnits(spans, wraps) == CutAll(Range(MergeSortedRange(spans, wraps)), Points(spans))

------------------------------------------------------------------------------
(* NodeNFA *)

\* high + 1 <= limit
Continues(high, limit, wraps) == IF high = MaxChar THEN wraps ELSE high + 1 <= limit
\* (char_type) (high + 1)
After(high) == IF high = MaxChar THEN EmptyChar ELSE high + 1

\* merge_two_transitions: sm is the list whose first entry begins earlier, the
\* second one when they begin together.
RECURSIVE MergeTwoTransitions(_, _, _)

\* The two first entries overlap.  shared is their common part; of the longer
\* entry the code keeps what comes after the high of sm, which is the wrong
\* entry's if sm is the longer one itself.
Overlap(first, second, sm, bg, inOrder, smEndsFirst, wraps) ==
    LET shared == Lesser(sm.high, bg.high)
        longest == Larger(sm.high, bg.high)
        rest(q, isLonger) ==
            IF isLonger /\ Continues(shared, longest, wraps)
            THEN << [Head(q) EXCEPT !.low = After(sm.high)] >> \o Tail(q)
            ELSE Tail(q)
    IN  (IF sm.low < bg.low THEN << Entry(sm.low, bg.low - 1, sm.to) >> ELSE << >>)
        \o << Entry(bg.low, shared, sm.to \cup bg.to) >>
        \o MergeTwoTransitions(rest(first, inOrder # smEndsFirst),
                               rest(second, inOrder = smEndsFirst), wraps)
OverlapFrom(first, second, sm, bg, wraps) ==
    Overlap(first, second, sm, bg, Head(first).low < Head(second).low, sm.high < bg.high, wraps)
MergeHeads(first, second, f, s, wraps) ==
    IF f.high < s.low THEN << f >> \o MergeTwoTransitions(Tail(first), second, wraps)
    ELSE IF f.low > s.high THEN << s >> \o MergeTwoTransitions(first, Tail(second), wraps)
    ELSE IF f.low < s.low THEN OverlapFrom(first, second, f, s, wraps)
                          ELSE OverlapFrom(first, second, s, f, wraps)
MergeTwoTransitions(first, second, wraps) ==
    IF first = << >> \/ second = << >> THEN first \o second
    ELSE MergeHeads(first, second, Head(first), Head(second), wraps)

\* merge_with for every state of a child
MergeWith(table, child, wraps) ==
    [q \in DOMAIN table \cup DOMAIN child |->
        IF q \notin DOMAIN table THEN child[q]
        ELSE IF q \notin DOMAIN child THEN table[q]
        ELSE MergeTwoTransitions(child[q], table[q], wraps)]

NodeNFA(table, start, final, next, faults) ==
    [table |-> table, start |-> start, final |-> final, next |-> next, faults |-> faults]

\* add_link
AddLink(table, from, entry, wraps) == MergeWith(table, from :> << entry >>, wraps)

------------------------------------------------------------------------------
(* RegexNFA *)

Targets(table) == UNION {UNION {e.to : e \in Range(table[q])} : q \in DOMAIN table}

\* get_epsilon_closure, with transitive_closure: through one state after another
Direct(table) ==
    Tabulated([q \in DOMAIN table |->
        IF table[q] # << >> /\ Head(table[q]).low = EmptyChar THEN Head(table[q]).to ELSE {}])
Linked(graph, q) ==
    Tabulated([p \in DOMAIN graph |->
        IF p = q THEN graph[p] \cup {q}
        ELSE IF q \in graph[p] THEN graph[p] \cup graph[q] \cup {q} ELSE graph[p]])
RECURSIVE LinkAll(_, _)
LinkAll(graph, states) ==
    IF states = << >> THEN graph ELSE LinkAll(Linked(graph, Head(states)), Tail(states))
ClosureDirect(table) == [q \in DOMAIN table |-> {q} \cup Direct(table)[q]]     \* fault
EpsilonClosure(table) == LinkAll(Direct(table), Ascending(DOMAIN table))

FaultOf(e) == IF e.low > e.high THEN "assert"
              ELSE IF e.low = EmptyChar /\ e.high # EmptyChar THEN "wrap" ELSE "none"

\* toRegexNFA numbers the states anew; here they keep their numbers.  It asserts
\* that every entry is in order.
WithTargets(table) ==
    Tabulated([q \in DOMAIN table \cup Targets(table) |->
                  IF q \in DOMAIN table THEN table[q] ELSE << >>])
FaultsOf(table) ==
    {f \in {"assert", "wrap"} :
        \E q \in DOMAIN table : \E e \in Range(table[q]) : FaultOf(e) = f}
RegexOf(nfa, table) ==
    [table |-> table, start |-> nfa.start, final |-> nfa.final,
     closure |-> EpsilonClosure(table), faults |-> nfa.faults \cup FaultsOf(table)]
RegexNFA(nfa) == RegexOf(nfa, WithTargets(nfa.table))

\* The code reads the closure of the start state, which must have one.
StartClosure(rnfa) == rnfa.closure[rnfa.start]
HasStart(rnfa) == rnfa.start \in DOMAIN rnfa.closure

\* The entry of q that c is looked for in, if c is not below it.
EntriesAt(entries, i, c) ==
    IF i > Len(entries) THEN {} ELSE {e \in {entries[i]} : e.low <= c}
Landing(rnfa, q, c) == EntriesAt(rnfa.table[q], FirstUpTo(rnfa.table[q], c), c)
Closed(rnfa, Q) == UNION {rnfa.closure[q] : q \in Q}

\* state_transition
StateTransition(rnfa, S, c) ==
    Closed(rnfa, UNION {UNION {e.to : e \in Landing(rnfa, q, c)} : q \in S})

------------------------------------------------------------------------------
(* compile: a DFA state is a set of NFA states, {} the dead state *)

\* range_units_map
RangesOf(entries) == {Span(e.low, e.high) : e \in {e \in entries : e.low # EmptyChar}}
RangeUnits(rnfa, q, wraps) ==
    SplitRangesToUnits(RangesOf(UNION {Range(rnfa.table[p]) : p \in rnfa.closure[q]}), wraps)
UnitsOf(rnfa, S, wraps) ==
    SplitRangesToUnits(UNION {RangeUnits(rnfa, q, wraps) : q \in S}, wraps)

\* The entries of DFA state S, with the gaps between units leading to the dead
\* state.
Gap(low, high) == IF low > high THEN << >> ELSE << Entry(low, high, {}) >>
NextLow(high) == IF high < MaxChar THEN high + 1 ELSE MaxChar
WithTail(row) ==
    IF row = << >> THEN << Entry(MinChar, MaxChar, {}) >>
    ELSE IF Last(row).high < MaxChar THEN row \o Gap(Last(row).high + 1, MaxChar) ELSE row
RECURSIVE RowOnto(_, _, _, _, _)
RowOnto(rnfa, S, row, lv, units) ==
    IF units = << >> THEN row
    ELSE RowOnto(rnfa, S,
                 row \o Gap(lv, Head(units).low - 1)
                     \o << Entry(Head(units).low, Head(units).high,
                                 StateTransition(rnfa, S, Head(units).high)) >>,
                 NextLow(Head(units).high), Tail(units))
Row(rnfa, S, units) == WithTail(RowOnto(rnfa, S, << >>, MinChar, units))

\* What compile asserts of the units of S: a unit lies within the entry its
\* last character is found in, and nothing but MaxChar follows MaxChar - 1.
UnitsFit(rnfa, S, units) ==
    /\ \A q \in S : \A r \in Range(units) : \A e \in Landing(rnfa, q, r.high) : e.low <= r.low
    /\ \A i \in 2..Len(units) :
          units[i - 1].high >= MaxChar - 1 => units[i] = Span(MaxChar, MaxChar)

RowOf(rnfa, S, units) ==
    [entries |-> Row(rnfa, S, units), fits |-> UnitsFit(rnfa, S, units)]
RowTargets(rows) == UNION {{e.to : e \in Range(rows[S].entries)} : S \in DOMAIN rows}

\* The rows of todo and of all they lead to, with those there are already.
RECURSIVE Explore(_, _, _, _)
ExploreOn(rnfa, rows, wraps) == Explore(rnfa, rows, RowTargets(rows) \ DOMAIN rows, wraps)
Explore(rnfa, rows, todo, wraps) ==
    IF todo = {} THEN rows
    ELSE ExploreOn(rnfa, [S \in todo |-> RowOf(rnfa, S, Sorted(UnitsOf(rnfa, S, wraps)))] @@ rows,
                   wraps)

DeadRow == [entries |-> << Entry(MinChar, MaxChar, {}) >>, fits |-> TRUE]
DFA(rnfa, rows) ==
    [rows |-> Tabulated([S \in DOMAIN rows |-> rows[S].entries]),
     start |-> StartClosure(rnfa),
     dead |-> {{}},
     finals |-> {S \in DOMAIN rows : rnfa.final \in S},
     faults |-> rnfa.faults \cup IF \A S \in DOMAIN rows : rows[S].fits THEN {} ELSE {"assert"}]
Compile(rnfa, wraps) == DFA(rnfa, Explore(rnfa, {} :> DeadRow, {StartClosure(rnfa)}, wraps))

\* RegexDFA::state_transition, and what it asserts
DfaLanding(dfa, S, c) == EntriesAt(dfa.rows[S], FirstUpTo(dfa.rows[S], c), c)

------------------------------------------------------------------------------
(* The complement of an NFA, as an NFA again *)

Complement(dfa) == [dfa EXCEPT !.finals = DOMAIN dfa.rows \ dfa.finals, !.dead = {}]

\* optimize: the states from which a final state is reached
RECURSIVE Reaching(_, _)
Reaching(rows, goals) ==
    LET more == {S \in DOMAIN rows \ goals : \E e \in Range(rows[S]) : e.to \in goals}
    IN  IF more = {} THEN goals ELSE Reaching(rows, goals \cup more)

\* What optimize asserts: two entries in a row that lead to no live state join.
DeadRangesMeet(rows, live) ==
    \A S \in live : \A i \in 2..Len(rows[S]) :
        rows[S][i - 1].to \notin live /\ rows[S][i].to \notin live =>
            rows[S][i - 1].high < MaxChar /\ rows[S][i - 1].high + 1 = rows[S][i].low

\* toNodeNFA and relocate_state: the live states, the start one being starts,
\* and a new final state.
FromLive(dfa, live, others, starts, finals, next) ==
    LET number(S) == IF S = dfa.start THEN starts
                     ELSE next - 1 + CHOOSE i \in DOMAIN others : others[i] = S
        leads(S) == SelectSeq(dfa.rows[S], LAMBDA e : e.to \in live)
        row(S) == (IF S \in dfa.finals THEN << Epsilon({finals}) >> ELSE << >>)
                  \o [i \in DOMAIN leads(S) |-> [leads(S)[i] EXCEPT !.to = {number(@)}]]
    IN  NodeNFA(Tabulated([q \in {number(S) : S \in live} |->
                              row(CHOOSE S \in live : number(S) = q)]),
                starts, finals, next + Len(others),
                dfa.faults \cup IF DeadRangesMeet(dfa.rows, live) THEN {} ELSE {"assert"})
Listed(S) == FoldSet(LAMBDA x, seq : Append(seq, x), << >>, S)
FromDFALive(dfa, live, starts, finals, next) ==
    FromLive(dfa, live, Listed(live \ {dfa.start}), starts, finals, next)
FromDFAUnoptimized(dfa, starts, finals, next) ==                             \* fault
    FromDFALive(dfa, DOMAIN dfa.rows, starts, finals, next)
FromDFA(dfa, starts, finals, next) ==
    FromDFALive(dfa, Reaching(dfa.rows, dfa.finals), starts, finals, next)

\* ExprNodeGroup::to_nfa of a complemented group
ComplementOf(nfa, rnfa, wraps) ==
    IF "assert" \in rnfa.faults \/ ~HasStart(rnfa) THEN [nfa EXCEPT !.faults = {"assert"}]
    ELSE FromDFA(Complement(Compile(rnfa, wraps)), nfa.start, nfa.final, nfa.next)
Complemented(nfa, wraps) == ComplementOf(nfa, RegexNFA(nfa), wraps)

------------------------------------------------------------------------------
(* to_nfa of the nodes: "empty", "range" with low and high, "group" with      *)
(* complemented, "star", "concat" and "union"; subs are the children.         *)

StarOnce(table, s, f, wraps) == AddLink(table, s, Epsilon({f}), wraps)       \* fault
StarLoops(table, s, f, wraps) ==
    AddLink(AddLink(table, s, Epsilon({f}), wraps), f, Epsilon({s}), wraps)

Leaf(entry, s, f, next) == NodeNFA(s :> << entry >>, s, f, next, {})
Starred(nfa, wraps) == [nfa EXCEPT !.table = StarLoops(@, nfa.start, nfa.final, wraps)]
Grouped(nfa, complemented, wraps) == IF complemented THEN Complemented(nfa, wraps) ELSE nfa

\* What a child adds to the NFA of its parent.
Joined(nfa, child, wraps) ==
    NodeNFA(MergeWith(nfa.table, child.table, wraps), nfa.start, nfa.final,
            child.next, nfa.faults \cup child.faults)

RECURSIVE ToNFA(_, _, _, _, _)
RECURSIVE JoinAll(_, _, _, _)
\* Child i leads from ends[i][1] to ends[i][2].
JoinAll(nfa, subs, ends, wraps) ==
    IF subs = << >> THEN nfa
    ELSE JoinAll(Joined(nfa, ToNFA(Head(subs), Head(ends)[1], Head(ends)[2], nfa.next, wraps), wraps),
                 Tail(subs), Tail(ends), wraps)
Bare(s, f, next) == NodeNFA(<< >>, s, f, next, {})
UnionEnds(n, s, f) == [i \in 1..n |-> << s, f >>]
ConcatEnds(n, s, f, next) ==
    [i \in 1..n |-> << IF i = 1 THEN s ELSE next + i - 2, IF i = n THEN f ELSE next + i - 1 >>]
ToNFA(node, s, f, next, wraps) ==
    CASE node.type = "empty" -> Leaf(Epsilon({f}), s, f, next)
      [] node.type = "range" -> Leaf(Entry(node.low, node.high, {f}), s, f, next)
      [] node.type = "group" ->
            Grouped(ToNFA(node.subs[1], s, f, next, wraps), node.complemented, wraps)
      [] node.type = "star"  -> Starred(ToNFA(node.subs[1], s, f, next, wraps), wraps)
      [] node.type = "union" ->
            JoinAll(Bare(s, f, next), node.subs, UnionEnds(Len(node.subs), s, f), wraps)
      [] node.type = "concat" ->
            JoinAll(Bare(s, f, next + Len(node.subs) - 1), node.subs,
                    ConcatEnds(Len(node.subs), s, f, next), wraps)

\* from_basic_regex: state 0 is the start state, state 1 the final one.
FromTree(node, wraps) == RegexNFA(ToNFA(node, 0, 1, 2, wraps))
==============================================================================
