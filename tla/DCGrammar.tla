------------------------------ MODULE DCGrammar ------------------------------
(****************************************************************************)
(* The grammar of a DCParser and the pure part of table generation: the      *)
(* epsilon closure of the nonterminals, the move of an item set over a       *)
(* symbol, and the pushdown entry the parser takes for the item set it       *)
(* reaches (lib/parser/parser.cpp, generate_table and the functions it       *)
(* calls).                                                                   *)
(*                                                                           *)
(* A rule is the record [lhs, rhs, prio, right, dpos]: its two sides, its    *)
(* priority (a smaller number binds tighter), whether it is                  *)
(* RuleAssocitiveRight, and the positions at which its decision callback     *)
(* runs.  An item <<r, p>> is rule r with the dot after its p-th symbol.     *)
(*                                                                           *)
(* The module declares no RECURSIVE operator, so that theorems can be        *)
(* proved about it: fixpoints are recursive functions.                       *)
(****************************************************************************)
EXTENDS Integers, Sequences, FiniteSets

CONSTANTS
    Terms,         \* m_terms
    Nonterms,      \* m_nonterms, RealStart included
    RealStart,     \* the nonterminal setup_real_start_symbol adds
    EOF,           \* EOFChar, which end() feeds; never a symbol of a rule
    Rules,         \* m_rules, a function of the rule ids
    Propagation    \* m_lookahead_rule_propagation

RuleId  == DOMAIN Rules
Symbols == Terms \cup Nonterms
Rhs(r)  == Rules[r].rhs
Lhs(r)  == Rules[r].lhs

\* What add_rule and setup_real_start_symbol leave behind.  A rule whose
\* symbols are all optional would have an empty right side: stateset_move
\* would then read past its end, and no grammar of the repository has one.
IsGrammar ==
    /\ Terms \cap Nonterms = {}
    /\ EOF \notin Symbols
    /\ RealStart \in Nonterms /\ IsFiniteSet(Nonterms)
    /\ Propagation \in BOOLEAN
    /\ RuleId \subseteq Nat
    /\ \A r \in RuleId :
          /\ Lhs(r) \in Nonterms
          /\ Rhs(r) \in Seq(Symbols \ {RealStart})
          /\ Rhs(r) # << >>
          /\ Rules[r].prio \in Nat
          /\ Rules[r].right \in BOOLEAN
          /\ Rules[r].dpos \subseteq 0..Len(Rhs(r))

------------------------------------------------------------------------------
(* Items *)

Item == {i \in RuleId \X Nat : i[2] <= Len(Rhs(i[1]))}

Completed(i) == i[2] = Len(Rhs(i[1]))
AfterDot(i)  == Rhs(i[1])[i[2] + 1]
Prio(i)      == Rules[i[1]].prio

------------------------------------------------------------------------------
(* Closure *)

\* pvpv[c] of ensure_epsilon_closure after k rounds of its while loop: the rules
\* that can open a phrase of nonterminal c.  As many rounds as there are
\* nonterminals reach the fixpoint.
Openings(c) ==
    LET round[k \in 0..Cardinality(Nonterms)] ==
          IF k = 0
          THEN {r \in RuleId : Lhs(r) = c}
          ELSE LET prev   == round[k - 1]
                   firsts == {Rhs(r)[1] : r \in prev}
               IN  prev \cup {r \in RuleId : Lhs(r) \in firsts}
    IN  round[Cardinality(Nonterms)]

\* u_nonterm_epsilon_closure: the items a dot before symbol c brings in.
EpsilonClosure(c) == IF c \in Nonterms THEN Openings(c) \X {0} ELSE {}

\* stateset_epsilon_closure.
StatesetEpsilonClosure(S) ==
    S \cup UNION {EpsilonClosure(AfterDot(i)) : i \in S}

\* stateset_move: the items whose next symbol is c, advanced, each with the
\* closure of the symbol it now stands before.
StatesetMoveUnclosed(S, c) ==                                   \* fault
    {<<i[1], i[2] + 1>> : i \in {j \in S : ~Completed(j) /\ AfterDot(j) = c}}
StatesetMove(S, c) ==
    LET kernel == {<<i[1], i[2] + 1>> :
                     i \in {j \in S : ~Completed(j) /\ AfterDot(j) = c}}
    IN  kernel \cup UNION {EpsilonClosure(AfterDot(i)) :
                             i \in {j \in kernel : ~Completed(j)}}

\* startState.
StartItems == EpsilonClosure(RealStart)

------------------------------------------------------------------------------
(* Entries of the pushdown table (struct PushdownEntry) *)

REJECT       == [type |-> "REJECT"]
SHIFT(S)     == [type |-> "SHIFT", state |-> S]
REDUCE(r)    == [type |-> "REDUCE", rule |-> r]
LOOKAHEAD(f) == [type |-> "LOOKAHEAD", next |-> f]

CompletedRules(S) == {i[1] : i \in {j \in S : Completed(j)}}

\* The completed rule of highest priority.
Best(S) == CHOOSE r \in CompletedRules(S) :
             \A q \in CompletedRules(S) : Rules[r].prio <= Rules[q].prio

\* Two completed rules share the highest priority: state_action throws
\* ParserGrammarError("conflict rule ...").
Conflict(S) == \E r \in CompletedRules(S) \ {Best(S)} :
                 Rules[r].prio = Rules[Best(S)].prio

\* v_incompleted_candidates: the items that go on and take precedence over
\* completing rule r.
PrevailingAlways(S, r) ==                                       \* fault
    {i \in S : ~Completed(i) /\ Prio(i) <= Rules[r].prio}
Prevailing(S, r) ==
    {i \in S : /\ ~Completed(i)
               /\ \/ Prio(i) < Rules[r].prio
                  \/ /\ Prio(i) = Rules[r].prio
                     /\ Rules[r].right
                     /\ Rules[i[1]].right}

Kept(S, r) == IF Propagation THEN StatesetEpsilonClosure(Prevailing(S, r))
                             ELSE Prevailing(S, r)

\* state_action with evaluate_decision = false.
PlainAction(S) ==
    IF S = {} THEN REJECT
    ELSE IF CompletedRules(S) = {} THEN SHIFT(S)
    ELSE LET r == Best(S) IN
         IF Prevailing(S, r) = {} THEN REDUCE(r)
         ELSE LOOKAHEAD([t \in Terms \cup {EOF} |->
                IF t = EOF \/ StatesetMove(Kept(S, r), t) = {}
                THEN REDUCE(r)
                ELSE SHIFT(Kept(S, r))])

\* The items of S whose rule has a decision at its position (require_eval).
RequireEval(S) == {i \in S : i[2] \in Rules[i[1]].dpos}

\* state_action: one plain action for every set of items the decisions may
\* eliminate.
StateAction(S) ==
    IF RequireEval(S) = {}
    THEN PlainAction(S)
    ELSE [type   |-> "DECISION",
          evals  |-> RequireEval(S),
          action |-> [D \in SUBSET RequireEval(S) |-> PlainAction(S \ D)]]

\* The sets of items state_action may call PlainAction with.
Resolutions(S) == {S \ D : D \in SUBSET RequireEval(S)}

\* next_states: the item sets the plain action of S can go to.
PlainTargets(S) ==
    LET a == PlainAction(S)
        Plain(e) == IF e.type = "SHIFT" THEN {e.state} ELSE {}
    IN  IF a.type = "LOOKAHEAD"
        THEN UNION {Plain(a.next[t]) : t \in DOMAIN a.next}
        ELSE Plain(a)

Targets(S) == UNION {PlainTargets(R) : R \in Resolutions(S)}
==============================================================================
