------------------------------ MODULE DCTableGen ------------------------------
(****************************************************************************)
(* Building a DCParser (lib/parser/parser.cpp): the calls that add rules, the *)
(* expansion of optional symbols, the worklist of generate_table, and the     *)
(* queries for the tokens that can stand next to a token.                     *)
(*                                                                            *)
(* The grammar is not fixed: add_rule is called with any of a set of          *)
(* definitions, in any order.  std::sort orders the rules by priority and so  *)
(* renames them; here a rule keeps the number of the call that added it.      *)
(****************************************************************************)
EXTENDS Integers, Sequences, FiniteSets, SequencesExt

CONSTANTS
    Definitions,    \* arguments of add_rule: [lhs, rhs, right, asks]
    Starts,         \* charids that add_start_symbol is called with
    RealStart,      \* RealStartSymbol
    EOF,            \* EOFChar
    Propagation,    \* m_lookahead_rule_propagation
    MaxCalls,       \* bound: calls of add_rule
    MaxPriority     \* bound: calls of dec_priority before generate_table

\* EOFChar and the real start symbol are classes of their own, and a rule without
\* a symbol that must be there would have an empty right side.
ASSUME DefinitionsAssumption ==
    /\ RealStart # EOF
    /\ \A d \in Definitions :
          /\ d.lhs \notin {RealStart, EOF}
          /\ d.rhs \in Seq(Range(d.rhs))
          /\ \A i \in DOMAIN d.rhs : d.rhs[i].sym \notin {RealStart, EOF}
          /\ \E i \in DOMAIN d.rhs : ~d.rhs[i].optional
          /\ d.right \in BOOLEAN
          /\ d.asks \subseteq 0..Len(d.rhs)
    /\ Propagation \in BOOLEAN
    /\ MaxCalls \in Nat /\ MaxPriority \in Nat

VARIABLES
    pc,         \* "rules", "table", "done", "conflict" (thrown) or "assert"
    calls,      \* the calls of add_rule so far: [def, prio]
    rules,      \* m_rules
    nonterms, terms, symbols, starts, priority,
    queue,      \* q of generate_table
    visited,    \* visited of generate_table
    numbers,    \* m_state_map of the SetStateAllocator
    mapping,    \* the rows of the table: item set -> symbol -> entry
    seen,       \* the rules whose RuleOption::seen is set
    adjacent    \* u_prev_possible_token_of and u_next_possible_token_of
vars == << pc, calls, rules, nonterms, terms, symbols, starts, priority,
           queue, visited, numbers, mapping, seen, adjacent >>
grammar == << calls, rules, nonterms, terms, symbols, starts, priority >>
table   == << queue, visited, numbers, mapping, seen >>

\* The grammar, and the table as the parser will have it: a state is its item set,
\* and the one with the first number is m_start_state.
G == INSTANCE DCTable WITH
        Terms <- terms, Nonterms <- nonterms, Rules <- rules,
        States <- DOMAIN mapping, StateItems <- [S \in DOMAIN mapping |-> S],
        Table <- mapping

NoMap == [x \in {} |-> x]

------------------------------------------------------------------------------
(* add_rule *)

\* The ways to leave optional symbols out: the positions that stay.
Selections(d) ==
    {K \in SUBSET DOMAIN d.rhs : \A i \in DOMAIN d.rhs : d.rhs[i].optional \/ i \in K}

\* The number of symbols of K up to position p.
Kept(K, p) == Cardinality({i \in K : i <= p})

\* A decision asked for after position p is asked for after the symbol that is
\* there, and in no rule that leaves this symbol out.
DecisionPositionsUnshifted(d, K) == {p \in d.asks : p = 0 \/ p \in K}     \* fault
DecisionPositions(d, K) == {Kept(K, p) : p \in {p \in d.asks : p = 0 \/ p \in K}}

RuleOf(d, K, prio) ==
    [lhs   |-> d.lhs,
     rhs   |-> [i \in 1..Cardinality(K) |->
                  d.rhs[CHOOSE p \in K : Kept(K, p) = i].sym],
     prio  |-> prio,
     right |-> d.right,
     dpos  |-> DecisionPositions(d, K)]

Expansion(d, prio) == SetToSeq({RuleOf(d, K, prio) : K \in Selections(d)})

\* add_rule_internal, for every one of the rules.
EraseNothing(news, old) == old                                            \* fault
EraseLeftSides(news, old) == old \ {news[i].lhs : i \in DOMAIN news}

Install(news) ==
    LET left  == {news[i].lhs : i \in DOMAIN news}
        right == UNION {Range(news[i].rhs) : i \in DOMAIN news}
    IN  /\ rules' = rules \o news
        /\ nonterms' = nonterms \cup left
        /\ terms' = EraseLeftSides(news, terms) \cup (right \ nonterms')
        /\ symbols' = symbols \cup left \cup right

\* priority is an object dec_priority returned, or none: the current one.
AddRule(d, prio) ==
    /\ pc = "rules" /\ Len(calls) < MaxCalls
    /\ \A i \in DOMAIN calls : calls[i].def # d
    /\ Install(Expansion(d, prio))
    /\ calls' = Append(calls, [def |-> d, prio |-> prio])
    /\ UNCHANGED << pc, starts, priority, table, adjacent >>

DecPriority ==
    /\ pc = "rules" /\ priority < MaxPriority /\ calls # << >>
    /\ priority' = priority + 1
    /\ UNCHANGED << pc, calls, rules, nonterms, terms, symbols, starts, table, adjacent >>

\* It throws if id is a start symbol already, or no nonterminal yet.
AddStartSymbol(id) ==
    /\ pc = "rules" /\ id \in nonterms \ starts
    /\ starts' = starts \cup {id}
    /\ UNCHANGED << pc, calls, rules, nonterms, terms, symbols, priority, table, adjacent >>

------------------------------------------------------------------------------
(* generate_table *)

\* setup_real_start_symbol, and the part before the loop once the rules of the
\* real start symbol are in.
Generate ==
    /\ pc = "rules" /\ starts # {}
    /\ priority' = priority + 1
    /\ Install(SetToSeq({[lhs |-> RealStart, rhs |-> << s >>, prio |-> priority + 1,
                          right |-> FALSE, dpos |-> {}] : s \in starts}))
    /\ pc' = "start"
    /\ UNCHANGED << calls, starts, table, adjacent >>

StartState ==
    /\ pc = "start"
    /\ queue' = << G!StartItems >>
    /\ visited' = {G!StartItems}
    /\ numbers' = [S \in {G!StartItems} |-> 0]
    /\ pc' = "table"
    /\ UNCHANGED << grammar, mapping, seen, adjacent >>

\* Two completed rules of the highest priority, in a set that state_action gets.
Conflicting(S) ==
    \E R \in G!Resolutions(S) : G!CompletedRules(R) # {} /\ G!Conflict(R)

\* The rules that state_action marks as seen.
Reduced(S) == {G!Best(R) : R \in {R \in G!Resolutions(S) : G!CompletedRules(R) # {}}}

\* next_states of an entry; the allocator gives each of them a number.
NextShiftedOnly(S) ==                                                     \* fault
    {R \in G!Resolutions(S) : R # {} /\ G!CompletedRules(R) = {}}
NextStates(S) == G!Targets(S)

\* One round of the loop: the row of the first item set of the queue.  The sets
\* it leads to are met in the order of the symbols, which is any order.
Row ==
    /\ pc = "table" /\ queue # << >>
    /\ LET s == Head(queue)
           moves == {G!StatesetMove(s, c) : c \in symbols}
           met   == UNION {NextStates(S) : S \in moves}
           more  == SetToSeq(met \ visited)
           named == SetToSeq((UNION {G!Targets(S) : S \in moves}) \ DOMAIN numbers)
       IN  IF \E S \in moves : Conflicting(S)
           THEN /\ pc' = "conflict"
                /\ UNCHANGED << queue, visited, numbers, mapping, seen >>
           ELSE /\ mapping' = [S \in DOMAIN mapping \cup {s} |->
                                 IF S = s
                                 THEN [c \in symbols |-> G!StateAction(G!StatesetMove(s, c))]
                                 ELSE mapping[S]]
                /\ queue' = Tail(queue) \o more
                /\ visited' = visited \cup met
                /\ numbers' = [S \in DOMAIN numbers \cup Range(named) |->
                                 IF S \in DOMAIN numbers THEN numbers[S]
                                 ELSE Cardinality(DOMAIN numbers) - 1
                                      + CHOOSE i \in DOMAIN named : named[i] = S]
                /\ seen' = seen \cup UNION {Reduced(S) : S \in moves}
                /\ UNCHANGED pc
    /\ UNCHANGED << grammar, adjacent >>

\* assert(mapping.size() == sallocator.max_state()).
Generated ==
    /\ pc = "table" /\ queue = << >>
    /\ pc' = IF Cardinality(DOMAIN mapping) = Cardinality(DOMAIN numbers)
             THEN "done" ELSE "assert"
    /\ UNCHANGED << grammar, table, adjacent >>

------------------------------------------------------------------------------
(* prev_possible_token_of and next_possible_token_of *)

\* transitive_closure of include/algo.hpp, which goes two steps.
TwoSteps(graph) ==
    [k \in DOMAIN graph |-> {k} \cup graph[k] \cup UNION {graph[j] : j \in graph[k]}]

Ends(c, end) == {c} \cup {end[r] : r \in {r \in DOMAIN rules : rules[r].lhs = c}}
Begins       == [c \in symbols |-> Ends(c, [r \in DOMAIN rules |-> Head(rules[r].rhs)])]
Finishes     == [c \in symbols |-> Ends(c, [r \in DOMAIN rules |-> Last(rules[r].rhs)])]
FirstChars == TwoSteps(Begins)
LastChars  == TwoSteps(Finishes)

\* The symbols before and after which a symbol is read in a right side.
Neighbours ==
    UNION {{<< rules[r].rhs[i], rules[r].rhs[i + 1] >> : i \in 1..Len(rules[r].rhs) - 1} :
             r \in DOMAIN rules}

PairsOfFirsts == UNION {FirstChars[n[1]] \X FirstChars[n[2]] : n \in Neighbours}   \* fault
Pairs == UNION {LastChars[n[1]] \X FirstChars[n[2]] : n \in Neighbours}

\* Both maps, restricted to tokens, as one relation: <<a, b>> when b is in next
\* of a, and a in prev of b.
PossiblePairs == {p \in Pairs : p[1] \notin nonterms /\ p[2] \notin nonterms}

\* u_possible_prev_next_computed stays false: a second query asserts that the
\* maps are empty, and computes them again.
Query ==
    /\ pc = "done"
    /\ adjacent' = PossiblePairs
    /\ pc' = IF adjacent = {} THEN "done" ELSE "assert"
    /\ UNCHANGED << grammar, table >>

------------------------------------------------------------------------------
Init ==
    /\ pc = "rules"
    /\ calls = << >> /\ rules = << >>
    /\ nonterms = {} /\ terms = {} /\ symbols = {} /\ starts = {}
    /\ priority = 0
    /\ queue = << >> /\ visited = {} /\ numbers = NoMap /\ mapping = NoMap
    /\ seen = {}
    /\ adjacent = {}

Build == Generate \/ StartState \/ Row \/ Generated

Next ==
    \/ \E d \in Definitions, p \in 0..MaxPriority : p <= priority /\ AddRule(d, p)
    \/ DecPriority
    \/ \E s \in Starts : AddStartSymbol(s)
    \/ Build
    \/ Query

Spec == Init /\ [][Next]_vars

\* generate_table runs to its end once it is called: this is weak fairness of
\* StartState, Row and Generated, one of which is enabled exactly at these pc,
\* and then nothing else is.
Generating == pc \in {"start", "table"}
FairSpec == Spec /\ ([]<>~Generating \/ []<><<Generating>>_vars)

------------------------------------------------------------------------------
(* Properties *)

\* A rule that a call made by keeping the symbols at the positions K: they are
\* its right side, in their order, and it asks its decision right behind those of
\* them that the callback named, wherever they have moved to.
MadeOf(rule, call, K) ==
    /\ rule.lhs = call.def.lhs
    /\ rule.prio = call.prio /\ rule.right = call.def.right
    /\ Len(rule.rhs) = Cardinality(K)
    /\ \A p \in K : rule.rhs[Kept(K, p)] = call.def.rhs[p].sym
    /\ \A q \in 0..Len(rule.rhs) :
          q \in rule.dpos <=> IF q = 0 THEN 0 \in call.def.asks
                              ELSE \E p \in K \cap call.def.asks : Kept(K, p) = q

\* One call makes a rule of every way to leave out some of the optional symbols,
\* and there are no other rules but those of the real start symbol.
ExpansionExact ==
    /\ \A i \in DOMAIN calls : \A K \in Selections(calls[i].def) :
          \E r \in DOMAIN rules : MadeOf(rules[r], calls[i], K)
    /\ \A r \in DOMAIN rules : rules[r].lhs # RealStart =>
          \E i \in DOMAIN calls : \E K \in Selections(calls[i].def) :
             MadeOf(rules[r], calls[i], K)

\* The states an entry can go to, however deep in decisions and lookaheads.
EntryStates(e) == IF e.type = "SHIFT" THEN {e.state} ELSE {}
PlainStates(e) ==
    IF e.type = "LOOKAHEAD" THEN UNION {EntryStates(e.next[t]) : t \in DOMAIN e.next}
                            ELSE EntryStates(e)
AllStates(e) ==
    IF e.type = "DECISION" THEN UNION {PlainStates(e.action[D]) : D \in DOMAIN e.action}
                           ELSE PlainStates(e)

Entries == UNION {{mapping[S][c] : c \in symbols} : S \in DOMAIN mapping}

\* The table is closed: a state that some entry leads to has a row of its own,
\* or is in the queue for one, under a number that no other state has; when the
\* loop ends the numbers are those of the rows, from 0 on.  So the assertion at
\* the end of the loop never fails: one that does is that of a second query.
LoopAssertionHolds == pc = "assert" => adjacent # {}
TableClosed ==
    /\ pc \in {"table", "done", "assert"} =>
         /\ \A e \in Entries : AllStates(e) \subseteq DOMAIN mapping \cup Range(queue)
         /\ \A S \in DOMAIN numbers : numbers[S] \in 0..Cardinality(DOMAIN numbers) - 1
         /\ \A S, T \in DOMAIN numbers : numbers[S] = numbers[T] => S = T
         /\ pc # "table" => DOMAIN mapping = DOMAIN numbers
    /\ LoopAssertionHolds

\* The rules that the calls left behind are a grammar as the generator takes it
\* to be, and the table that is done keeps every promise the parser relies on.
GeneratedSound ==
    pc = "done" =>
      /\ G!IsGrammar
      /\ G!IsSound(CHOOSE S \in DOMAIN numbers : numbers[S] = 0)

\* A phrase of c can begin with (end with) a symbol: any number of steps.
Closure(step) ==
    LET round[k \in 0..Cardinality(symbols)] ==
          IF k = 0 THEN [c \in symbols |-> {c} \cup step[c]]
          ELSE [c \in symbols |-> UNION {round[k - 1][d] : d \in round[k - 1][c]}]
    IN  round[Cardinality(symbols)]
CanStandNext(a, b) ==
    LET begins == Closure(Begins)
        ends   == Closure(Finishes)
    IN  \E n \in Neighbours : a \in ends[n[1]] /\ b \in begins[n[2]]

\* A token that is given as possible before or behind another really stands
\* there in some sentential form.
AdjacentSound == \A p \in adjacent : CanStandNext(p[1], p[2])

\* generate_table ends, with a table or the report of a conflict: none of the
\* finitely many item sets is queued twice, and its own assertion holds.
GenerationEnds == pc = "start" ~> pc \in {"done", "conflict"}

------------------------------------------------------------------------------
(* The inductive invariant *)

\* The symbols and the rules that the calls have left behind.
SymbolsOK ==
    /\ terms \cap nonterms = {} /\ symbols = terms \cup nonterms
    /\ EOF \notin symbols /\ IsFiniteSet(symbols)
    /\ starts \subseteq nonterms \ {RealStart}
    /\ RealStart \notin terms /\ (RealStart \in nonterms <=> pc # "rules")
RulesOK ==
    /\ rules \in Seq(Range(rules))
    /\ \A r \in DOMAIN rules :
          /\ rules[r].lhs \in nonterms
          /\ rules[r].rhs \in Seq(symbols \ {RealStart}) /\ rules[r].rhs # << >>
          /\ rules[r].prio \in Nat /\ rules[r].right \in BOOLEAN
          /\ rules[r].dpos \subseteq 0..Len(rules[r].rhs)
CallsOK ==
    /\ calls \in Seq(Range(calls)) /\ priority \in Nat
    /\ \A i \in DOMAIN calls : calls[i].def \in Definitions /\ calls[i].prio \in Nat

\* The table grows by rows: the sets that have been met have a row or wait for
\* one, once, and have their numbers.
Working == pc \notin {"rules", "start"}
RowsOK ==
    /\ DOMAIN mapping \subseteq visited
    /\ \A S \in DOMAIN mapping :
          /\ mapping[S] = [c \in symbols |-> G!StateAction(G!StatesetMove(S, c))]
          /\ \A c \in symbols : G!Targets(G!StatesetMove(S, c)) \subseteq visited
QueueOK ==
    /\ queue \in Seq(visited) /\ IsInjective(queue)
    /\ Range(queue) = visited \ DOMAIN mapping
    /\ pc \in {"done", "assert"} => queue = << >>
VisitedOK ==
    /\ visited \subseteq SUBSET G!Item
    /\ \A S \in visited :
          S = G!StartItems \/ \E T \in DOMAIN mapping, c \in symbols :
                                S \in G!Targets(G!StatesetMove(T, c))
NumbersOK ==
    /\ DOMAIN numbers = visited /\ IsFiniteSet(visited)
    /\ \A S \in visited : numbers[S] \in 0..Cardinality(visited) - 1
    /\ IsInjective(numbers)
    /\ G!StartItems \in visited /\ numbers[G!StartItems] = 0

IInv ==
    /\ pc \in {"rules", "start", "table", "done", "conflict", "assert"}
    /\ SymbolsOK /\ RulesOK /\ CallsOK /\ ExpansionExact
    /\ Working => RowsOK /\ QueueOK /\ VisitedOK /\ NumbersOK
    /\ ~Working => mapping = NoMap
    /\ adjacent \in IF pc \in {"done", "assert"} THEN {{}, PossiblePairs} ELSE {{}}

==============================================================================
