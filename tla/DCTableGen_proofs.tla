--------------------------- MODULE DCTableGen_proofs ---------------------------
(****************************************************************************)
(* The generator: the rules that add_rule leaves behind, and the table that  *)
(* the loop of generate_table builds of them.                                *)
(****************************************************************************)
EXTENDS DCTableGen, TLAPS, FiniteSetTheorems, SequenceTheorems, WellFoundedInduction

\* The lemmas about tables, of the grammar and the table being built.
L == INSTANCE DCTable_proofs WITH
        Terms <- terms, Nonterms <- nonterms, Rules <- rules,
        States <- DOMAIN mapping, StateItems <- [S \in DOMAIN mapping |-> S],
        Table <- mapping

------------------------------------------------------------------------------
(* G and L are the same instance of DCTable *)

\* Finite sets and cardinalities.
LEMMA SameSets ==
  /\ \A S : L!IsFiniteSet(S) <=> IsFiniteSet(S)
  /\ \A S : G!IsFiniteSet(S) <=> IsFiniteSet(S)
  /\ \A S : L!Cardinality(S) = G!Cardinality(S)
<1>1. \A S : L!IsFiniteSet(S) <=> IsFiniteSet(S)
  BY DEF IsFiniteSet, L!IsFiniteSet
<1>2. \A S : G!IsFiniteSet(S) <=> IsFiniteSet(S)
  BY DEF IsFiniteSet, G!IsFiniteSet
<1>3. \A S : L!Cardinality(S) = G!Cardinality(S)
  BY Zenon DEF G!Cardinality, L!Cardinality
<1>. QED
  BY <1>1, <1>2, <1>3

\* Rules, symbols and items.
LEMMA SameItems ==
  /\ L!RuleId = G!RuleId /\ L!Symbols = G!Symbols /\ L!Item = G!Item
  /\ \A r : L!Rhs(r) = G!Rhs(r) /\ L!Lhs(r) = G!Lhs(r)
  /\ \A i : /\ L!Completed(i) <=> G!Completed(i)
            /\ L!AfterDot(i) = G!AfterDot(i) /\ L!Prio(i) = G!Prio(i)
  BY DEF L!RuleId, G!RuleId, L!Symbols, G!Symbols, L!Item, G!Item, L!Rhs, G!Rhs, L!Lhs, G!Lhs,
         L!Completed, G!Completed, L!AfterDot, G!AfterDot, L!Prio, G!Prio

\* Closures and moves of item sets.
LEMMA SameClosures ==
  /\ \A c : L!EpsilonClosure(c) = G!EpsilonClosure(c)
  /\ L!StartItems = G!StartItems
  /\ \A S : L!StatesetEpsilonClosure(S) = G!StatesetEpsilonClosure(S)
  /\ \A S, c : L!StatesetMove(S, c) = G!StatesetMove(S, c)
<1>1. \A c : L!Openings(c) = G!Openings(c)
  BY Zenon DEF L!Openings, G!Openings, L!RuleId, G!RuleId, L!Rhs, G!Rhs, L!Lhs, G!Lhs,
               L!Cardinality, G!Cardinality
<1>2. \A c : L!EpsilonClosure(c) = G!EpsilonClosure(c)
  BY <1>1 DEF L!EpsilonClosure, G!EpsilonClosure
<1>3. L!StartItems = G!StartItems
  BY <1>2 DEF L!StartItems, G!StartItems
<1>4. \A S : L!StatesetEpsilonClosure(S) = G!StatesetEpsilonClosure(S)
  BY <1>2, SameItems DEF L!StatesetEpsilonClosure, G!StatesetEpsilonClosure
<1>5. \A S, c : L!StatesetMove(S, c) = G!StatesetMove(S, c)
  BY <1>2, SameItems DEF L!StatesetMove, G!StatesetMove
<1>. QED
  BY <1>2, <1>3, <1>4, <1>5

\* Actions and targets of item sets.
LEMMA SameActions ==
  /\ \A S : L!CompletedRules(S) = G!CompletedRules(S)
  /\ \A S : L!RequireEval(S) = G!RequireEval(S) /\ L!Resolutions(S) = G!Resolutions(S)
  /\ \A S : L!PlainAction(S) = G!PlainAction(S) /\ L!StateAction(S) = G!StateAction(S)
  /\ \A S : L!PlainTargets(S) = G!PlainTargets(S) /\ L!Targets(S) = G!Targets(S)
<1>1. \A S : L!CompletedRules(S) = G!CompletedRules(S)
  BY SameItems DEF L!CompletedRules, G!CompletedRules
<1>2. \A S : L!Best(S) = G!Best(S)
  BY <1>1, Zenon DEF L!Best, G!Best
<1>3. \A S, r : L!Prevailing(S, r) = G!Prevailing(S, r)
  BY SameItems DEF L!Prevailing, G!Prevailing
<1>4. \A S, r : L!Kept(S, r) = G!Kept(S, r)
  BY <1>3, SameClosures DEF L!Kept, G!Kept
<1>5. \A S : L!RequireEval(S) = G!RequireEval(S)
  BY DEF L!RequireEval, G!RequireEval
<1>6. \A S : L!Resolutions(S) = G!Resolutions(S)
  BY <1>5 DEF L!Resolutions, G!Resolutions
<1>7. \A S : L!PlainAction(S) = G!PlainAction(S)
  <2> TAKE S
  <2> DEFINE r == G!Best(S)
             K == G!Kept(S, r)
  <2>1. L!Best(S) = r /\ L!Kept(S, r) = K /\ L!CompletedRules(S) = G!CompletedRules(S)
        /\ L!Prevailing(S, r) = G!Prevailing(S, r)
    BY <1>1, <1>2, <1>3, <1>4
  <2>2. \A t : L!StatesetMove(K, t) = G!StatesetMove(K, t)
    BY SameClosures
  <2>3. \A x : /\ L!SHIFT(x) = G!SHIFT(x) /\ L!REDUCE(x) = G!REDUCE(x)
               /\ L!LOOKAHEAD(x) = G!LOOKAHEAD(x) /\ L!REJECT = G!REJECT
    BY DEF L!SHIFT, L!REDUCE, L!LOOKAHEAD, L!REJECT, G!SHIFT, G!REDUCE, G!LOOKAHEAD, G!REJECT
  <2> DEFINE look == [t \in terms \cup {EOF} |->
                        IF t = EOF \/ G!StatesetMove(K, t) = {}
                        THEN G!REDUCE(r) ELSE G!SHIFT(K)]
             plain(f) == IF S = {} THEN G!REJECT
                         ELSE IF G!CompletedRules(S) = {} THEN G!SHIFT(S)
                         ELSE IF G!Prevailing(S, r) = {} THEN G!REDUCE(r)
                         ELSE G!LOOKAHEAD(f)
  <2>4. G!PlainAction(S) = plain(look)
    BY Zenon DEF G!PlainAction
  <2>5. L!PlainAction(S) = plain([t \in terms \cup {EOF} |->
                        IF t = EOF \/ L!StatesetMove(K, t) = {}
                        THEN L!REDUCE(r) ELSE L!SHIFT(K)])
    <3> HIDE DEF r, K
    <3>. QED
      BY <2>1, <2>3, Zenon DEF L!PlainAction
  <2>6. [t \in terms \cup {EOF} |-> IF t = EOF \/ L!StatesetMove(K, t) = {}
                                    THEN L!REDUCE(r) ELSE L!SHIFT(K)] = look
    <3> HIDE DEF r, K
    <3>. QED
      BY <2>2, <2>3
  <2>. QED
    BY <2>4, <2>5, <2>6
<1>8. \A S : L!StateAction(S) = G!StateAction(S)
  BY <1>5, <1>7 DEF L!StateAction, G!StateAction
<1>9. \A S : L!PlainTargets(S) = G!PlainTargets(S)
  BY <1>7 DEF L!PlainTargets, G!PlainTargets
<1>10. \A S : L!Targets(S) = G!Targets(S)
  BY <1>6, <1>9 DEF L!Targets, G!Targets
<1>. QED
  BY <1>1, <1>5, <1>6, <1>7, <1>8, <1>9, <1>10

\* What a grammar is and what a sound table is.
LEMMA SamePromises ==
  (L!IsGrammar <=> G!IsGrammar) /\ (\A s : L!IsSound(s) <=> G!IsSound(s))
<1>1. L!IsGrammar <=> G!IsGrammar
  BY SameSets, SameItems DEF L!IsGrammar, G!IsGrammar
<1>3. \A s, c, e : L!PlainSound(s, c, e) <=> G!PlainSound(s, c, e)
  <2>1. \A s, c, i : L!Advances(s, c, i) <=> G!Advances(s, c, i)
    BY SameItems DEF L!Advances, G!Advances
  <2>2. \A s, c, e : L!ShiftSound(s, c, e) <=> G!ShiftSound(s, c, e)
    BY <2>1, SameItems, Zenon DEF L!ShiftSound, G!ShiftSound
  <2>3. \A s, c, e : L!ReduceSound(s, c, e) <=> G!ReduceSound(s, c, e)
    BY <2>1, SameItems, Zenon DEF L!ReduceSound, G!ReduceSound
  <2>4. \A s, c, e : L!LookaheadSound(s, c, e) <=> G!LookaheadSound(s, c, e)
    BY <2>2, <2>3, Zenon DEF L!LookaheadSound, G!LookaheadSound
  <2>. QED
    BY <2>2, <2>3, <2>4 DEF L!PlainSound, G!PlainSound
<1>4. \A s, c, e : L!EntrySound(s, c, e) <=> G!EntrySound(s, c, e)
  <2>1. \A e : L!Resolved(e) = G!Resolved(e)
    BY DEF L!Resolved, G!Resolved
  <2>2. \A s, c, i : L!Advances(s, c, i) <=> G!Advances(s, c, i)
    BY SameItems DEF L!Advances, G!Advances
  <2>. QED
    BY <1>3, <2>1, <2>2, SameItems, Zenon DEF L!EntrySound, G!EntrySound
<1>5. \A s : L!IsSound(s) <=> G!IsSound(s)
  BY <1>4, SameItems DEF L!IsSound, G!IsSound
<1>. QED
  BY <1>1, <1>5

------------------------------------------------------------------------------
(* The definitions about a grammar that stays *)

\* Openings, with the grammar as arguments.
OpeningsOf(f, N, c) ==
    LET round[k \in 0..Cardinality(N)] ==
          IF k = 0
          THEN {r \in DOMAIN f : f[r].lhs = c}
          ELSE LET prev   == round[k - 1]
                   firsts == {f[r].rhs[1] : r \in prev}
               IN  prev \cup {r \in DOMAIN f : f[r].lhs \in firsts}
    IN  round[Cardinality(N)]

\* Items depend only on the symbols and the rules.
LEMMA ItemsStay ==
  ASSUME UNCHANGED << terms, nonterms, rules >>
  PROVE  /\ G!RuleId' = G!RuleId /\ G!Symbols' = G!Symbols /\ G!Item' = G!Item
         /\ \A r : G!Rhs(r)' = G!Rhs(r) /\ G!Lhs(r)' = G!Lhs(r)
         /\ \A i : /\ G!Completed(i)' <=> G!Completed(i)
                   /\ G!AfterDot(i)' = G!AfterDot(i) /\ G!Prio(i)' = G!Prio(i)
  BY DEF G!RuleId, G!Symbols, G!Item, G!Rhs, G!Lhs, G!Completed, G!AfterDot, G!Prio

\* So do closures and moves.
LEMMA ClosuresStay ==
  ASSUME UNCHANGED << terms, nonterms, rules >>
  PROVE  /\ G!StartItems' = G!StartItems
         /\ \A S : G!StatesetEpsilonClosure(S)' = G!StatesetEpsilonClosure(S)
         /\ \A S, c : G!StatesetMove(S, c)' = G!StatesetMove(S, c)
<1>1. \A c : G!Openings(c)' = G!Openings(c)
  <2>1. \A c : G!Openings(c) = OpeningsOf(rules, nonterms, c)
    BY Zenon DEF OpeningsOf, G!Openings, G!RuleId, G!Rhs, G!Lhs, G!Cardinality, Cardinality
  <2>2. \A c : G!Openings(c)' = OpeningsOf(rules', nonterms', c)
    BY Zenon DEF OpeningsOf, G!Openings, G!RuleId, G!Rhs, G!Lhs, G!Cardinality, Cardinality
  <2>. QED
    BY <2>1, <2>2
<1>2. \A c : G!EpsilonClosure(c)' = G!EpsilonClosure(c)
  BY <1>1 DEF G!EpsilonClosure
<1>3. G!StartItems' = G!StartItems
  BY <1>2 DEF G!StartItems
<1>4. \A S : G!StatesetEpsilonClosure(S)' = G!StatesetEpsilonClosure(S)
  BY <1>2, ItemsStay DEF G!StatesetEpsilonClosure
<1>5. \A S, c : G!StatesetMove(S, c)' = G!StatesetMove(S, c)
  BY <1>2, ItemsStay DEF G!StatesetMove
<1>. QED
  BY <1>3, <1>4, <1>5

\* So do actions and targets.
LEMMA ActionsStay ==
  ASSUME UNCHANGED << terms, nonterms, rules >>
  PROVE  /\ \A S : G!StateAction(S)' = G!StateAction(S)
         /\ \A S : G!Targets(S)' = G!Targets(S)
<1>1. \A S : G!CompletedRules(S)' = G!CompletedRules(S)
  BY ItemsStay DEF G!CompletedRules
<1>2. \A S : G!Best(S)' = G!Best(S)
  BY <1>1, Zenon DEF G!Best
<1>3. \A S, r : G!Prevailing(S, r)' = G!Prevailing(S, r)
  BY ItemsStay DEF G!Prevailing
<1>4. \A S, r : G!Kept(S, r)' = G!Kept(S, r)
  BY <1>3, ClosuresStay DEF G!Kept
<1>5. \A S : G!RequireEval(S)' = G!RequireEval(S)
  BY DEF G!RequireEval
<1>6. \A S : G!Resolutions(S)' = G!Resolutions(S)
  BY <1>5 DEF G!Resolutions
<1>7. \A S : G!PlainAction(S)' = G!PlainAction(S)
  BY <1>1, <1>2, <1>3, <1>4, ClosuresStay DEF G!PlainAction, G!SHIFT, G!REDUCE, G!LOOKAHEAD, G!REJECT
<1>8. \A S : G!StateAction(S)' = G!StateAction(S)
  BY <1>5, <1>7 DEF G!StateAction
<1>9. \A S : G!PlainTargets(S)' = G!PlainTargets(S)
  BY <1>7 DEF G!PlainTargets
<1>10. \A S : G!Targets(S)' = G!Targets(S)
  BY <1>6, <1>9 DEF G!Targets
<1>. QED
  BY <1>8, <1>10

------------------------------------------------------------------------------
(* Finite sets and their sequences *)

\* The values of a function over a finite set are finitely many.
LEMMA FiniteImage ==
  ASSUME NEW S, IsFiniteSet(S), NEW f
  PROVE  IsFiniteSet({f[x] : x \in S})
<1> DEFINE T == {f[x] : x \in S}
           g == [x \in S |-> f[x]]
<1>1. g \in Surjection(S, T)
  BY DEF Surjection
<1>. QED
  BY <1>1, FS_Surjection

\* SetToSeq lists a finite set, every member once.
LEMMA Listed ==
  ASSUME NEW S, IsFiniteSet(S)
  PROVE  /\ Cardinality(S) \in Nat
         /\ SetToSeq(S) \in Seq(S) /\ Len(SetToSeq(S)) = Cardinality(S)
         /\ Range(SetToSeq(S)) = S
         /\ IsInjective(SetToSeq(S))
<1> DEFINE n == Cardinality(S)
           s == SetToSeq(S)
<1>1. n \in Nat /\ ExistsBijection(1..n, S)
  BY FS_CardinalityType
<1>2. PICK f \in [1..n -> S] : IsInjective(f)
  BY <1>1 DEF ExistsBijection, Bijection, Injection
<1>3. s \in [1..n -> S] /\ IsInjective(s)
  BY <1>2, Zenon DEF SetToSeq
<1>4. IsFiniteSet(1..n) /\ Cardinality(1..n) = n
  BY <1>1, FS_Interval
<1>5. s \in Surjection(1..n, S)
  <2>1. s \in Injection(1..n, S)
    BY <1>3 DEF Injection
  <2> HIDE DEF s
  <2>. QED
    BY <1>4, <2>1, FS_Injection
<1> HIDE DEF s, n
<1>6. s \in Seq(S) /\ Len(s) = n
  BY <1>1, <1>3
<1>7. Range(s) = S
  BY <1>3, <1>5 DEF Surjection, Range
<1>. QED
  BY <1>1, <1>3, <1>6, <1>7 DEF s, n

------------------------------------------------------------------------------
(* The rules of a definition *)

\* The positions that stay are numbered from 1 on, in their order.
LEMMA KeptFacts ==
  ASSUME NEW n \in Nat, NEW K \in SUBSET (1..n)
  PROVE  /\ IsFiniteSet(K) /\ Cardinality(K) \in Nat
         /\ Kept(K, 0) = 0
         /\ \A p \in K : Kept(K, p) \in 1..Cardinality(K)
         /\ \A p, q \in K : Kept(K, p) = Kept(K, q) => p = q
         /\ \A i \in 1..Cardinality(K) : \E p \in K : Kept(K, p) = i
<1> DEFINE m == Cardinality(K)
           UpTo(p) == {i \in K : i <= p}
<1>0. \A i \in K : i \in Int /\ i >= 1
  OBVIOUS
<1>1. IsFiniteSet(K) /\ m \in Nat
  <2>1. IsFiniteSet(1..n)
    BY FS_Interval
  <2>. QED
    BY <2>1, FS_Subset, FS_CardinalityType
<1>2. \A p : Kept(K, p) = Cardinality(UpTo(p))
  BY DEF Kept
<1>3. \A p : IsFiniteSet(UpTo(p)) /\ Cardinality(UpTo(p)) \in 0..m
  <2> TAKE p
  <2>1. UpTo(p) \in SUBSET K
    OBVIOUS
  <2> HIDE DEF UpTo
  <2>2. IsFiniteSet(UpTo(p)) /\ Cardinality(UpTo(p)) <= m
    BY <1>1, <2>1, FS_Subset
  <2>. QED
    BY <1>1, <2>2, FS_CardinalityType
<1>4. Kept(K, 0) = 0
  <2>1. \A i \in K : ~(i <= 0)
    BY <1>0
  <2>2. UpTo(0) = {}
    BY <2>1
  <2>. QED
    BY <1>2, <2>2, FS_EmptySet
<1>5. \A p \in K : Kept(K, p) \in 1..m
  <2> TAKE p \in K
  <2>1. UpTo(p) # {}
    OBVIOUS
  <2> HIDE DEF UpTo
  <2>2. Cardinality(UpTo(p)) # 0
    BY <1>3, <2>1, FS_EmptySet
  <2> HIDE DEF m
  <2>. QED
    BY <1>1, <1>2, <1>3, <2>2
<1>6. \A p, q \in K : p < q => Kept(K, p) < Kept(K, q)
  <2> SUFFICES ASSUME NEW p \in K, NEW q \in K, p < q PROVE Kept(K, p) < Kept(K, q)
    OBVIOUS
  <2>1. UpTo(p) \in SUBSET UpTo(q) /\ UpTo(p) # UpTo(q)
    <3>1. \A i \in K : i <= p => i <= q
      BY <1>0
    <3>2. q <= q /\ ~(q <= p)
      BY <1>0
    <3>. QED
      BY <3>1, <3>2
  <2> HIDE DEF UpTo
  <2>2. Cardinality(UpTo(p)) <= Cardinality(UpTo(q)) /\ Cardinality(UpTo(p)) # Cardinality(UpTo(q))
    BY <1>3, <2>1, FS_Subset
  <2> HIDE DEF m
  <2>. QED
    BY <1>1, <1>2, <1>3, <2>2
<1>7. \A p, q \in K : Kept(K, p) = Kept(K, q) => p = q
  <2> SUFFICES ASSUME NEW p \in K, NEW q \in K, Kept(K, p) = Kept(K, q), p # q PROVE FALSE
    OBVIOUS
  <2>1. p < q \/ q < p
    OBVIOUS
  <2>2. Kept(K, p) \in 1..m /\ Kept(K, q) \in 1..m
    BY <1>5
  <2> HIDE DEF m
  <2>. QED
    BY <1>1, <1>6, <2>1, <2>2
<1>8. \A i \in 1..m : \E p \in K : Kept(K, p) = i
  <2> DEFINE f == [p \in K |-> Kept(K, p)]
  <2>1. f \in Injection(K, 1..m)
    BY <1>5, <1>7 DEF Injection, IsInjective
  <2>2. IsFiniteSet(1..m) /\ Cardinality(1..m) = m
    BY <1>1, FS_Interval
  <2> HIDE DEF f
  <2>3. f \in Surjection(K, 1..m)
    BY <1>1, <2>1, <2>2, FS_Injection
  <2>. QED
    BY <2>3 DEF Surjection, f
<1>. QED
  BY <1>1, <1>4, <1>5, <1>7, <1>8

SymbolsOf(d) == {d.rhs[p].sym : p \in DOMAIN d.rhs}

\* What add_rule makes of one way to leave optional symbols out.
LEMMA RuleOfFacts ==
  ASSUME NEW d \in Definitions, NEW K \in Selections(d), NEW prio,
         NEW rule, rule = RuleOf(d, K, prio)
  PROVE  /\ rule.lhs = d.lhs /\ rule.prio = prio /\ rule.right \in BOOLEAN
         /\ rule.rhs \in Seq(SymbolsOf(d)) /\ rule.rhs # << >>
         /\ rule.dpos \subseteq 0..Len(rule.rhs)
         /\ \A call : call.def = d /\ call.prio = prio => MadeOf(rule, call, K)
<1> DEFINE n == Len(d.rhs)
           m == Cardinality(K)
<1>1. n \in Nat /\ DOMAIN d.rhs = 1..n /\ d.asks \subseteq 0..n /\ d.right \in BOOLEAN
  BY DefinitionsAssumption
<1>2. K \in SUBSET (1..n) /\ K # {}
  BY <1>1, DefinitionsAssumption DEF Selections
<1>3. /\ IsFiniteSet(K) /\ m \in Nat /\ Kept(K, 0) = 0
      /\ \A p \in K : Kept(K, p) \in 1..m
      /\ \A p, q \in K : Kept(K, p) = Kept(K, q) => p = q
      /\ \A i \in 1..m : \E p \in K : Kept(K, p) = i
  <2> HIDE DEF n
  <2>. QED
    BY <1>1, <1>2, KeptFacts
<1>4. m # 0
  BY <1>2, <1>3, FS_EmptySet
<1>5. /\ rule.lhs = d.lhs /\ rule.prio = prio /\ rule.right = d.right
      /\ rule.rhs = [i \in 1..m |-> d.rhs[CHOOSE p \in K : Kept(K, p) = i].sym]
      /\ rule.dpos = {Kept(K, p) : p \in {p \in d.asks : p = 0 \/ p \in K}}
  BY DEF RuleOf, DecisionPositions
<1> HIDE DEF n, m
<1>6. \A i \in 1..m : (CHOOSE p \in K : Kept(K, p) = i) \in K
  BY <1>3
<1>7. \A p \in K : (CHOOSE q \in K : Kept(K, q) = Kept(K, p)) = p
  BY <1>3
<1>8. rule.rhs \in Seq(SymbolsOf(d)) /\ Len(rule.rhs) = m
  <2>1. \A i \in 1..m : rule.rhs[i] \in SymbolsOf(d)
    BY <1>1, <1>2, <1>5, <1>6 DEF SymbolsOf
  <2>2. rule.rhs \in [1..m -> SymbolsOf(d)]
    BY <1>5, <2>1
  <2>. QED
    BY <1>3, <2>2
<1>9. rule.rhs # << >>
  BY <1>4, <1>8
<1>10. rule.dpos \subseteq 0..m
  BY <1>3, <1>5
<1>11. \A p \in K : rule.rhs[Kept(K, p)] = d.rhs[p].sym
  BY <1>3, <1>5, <1>7
<1>12. ASSUME NEW q \in 0..m
       PROVE  q \in rule.dpos <=> IF q = 0 THEN 0 \in d.asks
                                  ELSE \E p \in K \cap d.asks : Kept(K, p) = q
  <2>1. \A p \in K : Kept(K, p) # 0 /\ p # 0
    BY <1>2, <1>3
  <2>2. q \in rule.dpos <=> \E p \in d.asks : (p = 0 \/ p \in K) /\ Kept(K, p) = q
    BY <1>5
  <2>. QED
    BY <1>3, <2>1, <2>2
<1>13. ASSUME NEW call, call.def = d, call.prio = prio PROVE MadeOf(rule, call, K)
  BY <1>5, <1>8, <1>11, <1>12, <1>13, Zenon DEF MadeOf, m
<1>. QED
  BY <1>1, <1>5, <1>8, <1>9, <1>10, <1>13

\* An expansion lists the rules of the selections, each of them and no other.
LEMMA ExpansionFacts ==
  ASSUME NEW d \in Definitions, NEW prio, NEW news, news = Expansion(d, prio)
  PROVE  /\ news \in Seq(Range(news))
         /\ \A K \in Selections(d) : \E i \in DOMAIN news : news[i] = RuleOf(d, K, prio)
         /\ \A i \in DOMAIN news : \E K \in Selections(d) : news[i] = RuleOf(d, K, prio)
<1> DEFINE made == {RuleOf(d, K, prio) : K \in Selections(d)}
           f == [K \in Selections(d) |-> RuleOf(d, K, prio)]
<1>1. IsFiniteSet(Selections(d))
  <2>1. DOMAIN d.rhs = 1..Len(d.rhs) /\ Len(d.rhs) \in Nat
    BY DefinitionsAssumption
  <2>2. IsFiniteSet(SUBSET DOMAIN d.rhs)
    <3>1. IsFiniteSet(DOMAIN d.rhs)
      BY <2>1, FS_Interval
    <3>. QED
      BY <3>1, FS_SUBSET
  <2>3. Selections(d) \in SUBSET (SUBSET DOMAIN d.rhs)
    BY DEF Selections
  <2>. QED
    BY <2>2, <2>3, FS_Subset
<1>2. IsFiniteSet(made)
  <2>1. made = {f[K] : K \in Selections(d)}
    OBVIOUS
  <2> HIDE DEF f, made
  <2>. QED
    BY <1>1, <2>1, FiniteImage
<1>3. news = SetToSeq(made)
  BY DEF Expansion
<1>4. news \in Seq(made) /\ Range(news) = made
  <2> HIDE DEF made
  <2>. QED
    BY <1>2, <1>3, Listed
<1>. QED
  BY <1>4 DEF Range

\* What add_rule_internal may be called with.
Installable(rule) ==
    /\ rule.lhs # EOF /\ rule.rhs \in Seq(Range(rule.rhs)) /\ rule.rhs # << >>
    /\ Range(rule.rhs) \cap {RealStart, EOF} = {}
    /\ rule.prio \in Nat /\ rule.right \in BOOLEAN
    /\ rule.dpos \subseteq 0..Len(rule.rhs)

\* The rules are appended, and the symbols remain told apart.
LEMMA InstallKeeps ==
  ASSUME SymbolsOK, RulesOK, NEW news, news \in Seq(Range(news)), Install(news),
         \A i \in DOMAIN news : Installable(news[i])
  PROVE  /\ terms' \cap nonterms' = {} /\ symbols' = terms' \cup nonterms'
         /\ EOF \notin symbols' /\ IsFiniteSet(symbols') /\ RealStart \notin terms'
         /\ nonterms' = nonterms \cup {news[i].lhs : i \in DOMAIN news}
         /\ RulesOK'
         /\ DOMAIN rules \subseteq DOMAIN rules' /\ \A r \in DOMAIN rules : rules'[r] = rules[r]
         /\ \A i \in DOMAIN news : \E r \in DOMAIN rules' : rules'[r] = news[i]
         /\ \A r \in DOMAIN rules' \ DOMAIN rules : \E i \in DOMAIN news : rules'[r] = news[i]
<1> DEFINE left  == {news[i].lhs : i \in DOMAIN news}
           right == UNION {Range(news[i].rhs) : i \in DOMAIN news}
<1>1. /\ rules' = rules \o news /\ nonterms' = nonterms \cup left
      /\ terms' = (terms \ left) \cup (right \ nonterms')
      /\ symbols' = symbols \cup left \cup right
  BY DEF Install, EraseLeftSides
<1>2. EOF \notin left \cup right /\ RealStart \notin right
  BY DEF Installable
<1>3. IsFiniteSet(DOMAIN news)
  BY FS_Interval
<1>4. IsFiniteSet(left)
  <2> DEFINE f == [i \in DOMAIN news |-> news[i].lhs]
  <2>1. left = {f[i] : i \in DOMAIN news}
    OBVIOUS
  <2> HIDE DEF f, left
  <2>. QED
    BY <1>3, <2>1, FiniteImage
<1>5. IsFiniteSet(right)
  <2> DEFINE f == [i \in DOMAIN news |-> Range(news[i].rhs)]
             ranges == {f[i] : i \in DOMAIN news}
  <2>1. right = UNION ranges
    OBVIOUS
  <2>2. \A i \in DOMAIN news : IsFiniteSet(f[i])
    <3> TAKE i \in DOMAIN news
    <3> DEFINE s == news[i].rhs
    <3>1. s \in Seq(Range(s))
      BY DEF Installable
    <3>2. f[i] = {s[x] : x \in DOMAIN s}
      BY DEF Range
    <3> HIDE DEF s, f
    <3>3. DOMAIN s = 1..Len(s) /\ Len(s) \in Nat
      BY <3>1
    <3>4. IsFiniteSet(DOMAIN s)
      BY <3>3, FS_Interval
    <3>. QED
      BY <3>2, <3>4, FiniteImage
  <2>3. IsFiniteSet(ranges)
    <3> HIDE DEF f
    <3>. QED
      BY <1>3, FiniteImage
  <2> HIDE DEF right, f
  <2>4. \A T \in ranges : IsFiniteSet(T)
    BY <2>2
  <2> HIDE DEF ranges
  <2>. QED
    BY <2>1, <2>3, <2>4, FS_UNION
<1>6. IsFiniteSet(symbols')
  <2> HIDE DEF left, right
  <2>1. IsFiniteSet(symbols \cup left)
    BY <1>4, FS_Union DEF SymbolsOK
  <2>. QED
    BY <1>1, <1>5, <2>1, FS_Union
<1>7. /\ Len(rules) \in Nat /\ Len(news) \in Nat /\ rules \in Seq(Range(rules))
      /\ DOMAIN rules = 1..Len(rules) /\ DOMAIN news = 1..Len(news)
      /\ DOMAIN rules' = 1..(Len(rules) + Len(news)) /\ rules' \in Seq(Range(rules'))
      /\ \A r \in DOMAIN rules : rules'[r] = rules[r]
      /\ \A i \in DOMAIN news : rules'[Len(rules) + i] = news[i]
  <2>1. rules \in Seq(Range(rules))
    BY DEF RulesOK
  <2> DEFINE A == Range(rules) \cup Range(news)
  <2>2. rules \in Seq(A) /\ news \in Seq(A)
    <3>1. Range(rules) \subseteq A /\ Range(news) \subseteq A
      OBVIOUS
    <3> HIDE DEF A
    <3>. QED
      BY <2>1, <3>1
  <2> HIDE DEF A
  <2>3. /\ Len(rules \o news) = Len(rules) + Len(news)
        /\ \A i \in 1..(Len(rules) + Len(news)) :
              (rules \o news)[i] = IF i <= Len(rules) THEN rules[i] ELSE news[i - Len(rules)]
        /\ rules \o news \in Seq(A)
    BY <2>2, ConcatProperties
  <2>4. /\ Len(rules) \in Nat /\ Len(news) \in Nat
        /\ DOMAIN rules = 1..Len(rules) /\ DOMAIN news = 1..Len(news)
        /\ DOMAIN (rules \o news) = 1..(Len(rules) + Len(news))
    BY <2>2, <2>3
  <2>5. \A r \in DOMAIN rules : r \in 1..(Len(rules) + Len(news)) /\ r <= Len(rules)
    BY <2>4
  <2>6. \A i \in DOMAIN news : /\ Len(rules) + i \in 1..(Len(rules) + Len(news))
                               /\ ~(Len(rules) + i <= Len(rules))
                               /\ (Len(rules) + i) - Len(rules) = i
    BY <2>4
  <2>7. /\ \A r \in DOMAIN rules : (rules \o news)[r] = rules[r]
        /\ \A i \in DOMAIN news : (rules \o news)[Len(rules) + i] = news[i]
    BY <2>3, <2>5, <2>6
  <2>8. rules' \in Seq(Range(rules'))
    BY <1>1, <2>3, SeqOfRange
  <2>. QED
    BY <1>1, <2>1, <2>4, <2>7, <2>8
<1>8. \A r \in DOMAIN rules' \ DOMAIN rules : \E i \in DOMAIN news : rules'[r] = news[i]
  <2> TAKE r \in DOMAIN rules' \ DOMAIN rules
  <2>1. r - Len(rules) \in DOMAIN news /\ Len(rules) + (r - Len(rules)) = r
    BY <1>7
  <2>. QED
    BY <1>7, <2>1
<1>9. \A i \in DOMAIN news : \E r \in DOMAIN rules' : rules'[r] = news[i]
  <2> TAKE i \in DOMAIN news
  <2>1. Len(rules) + i \in DOMAIN rules'
    BY <1>7
  <2>. QED
    BY <1>7, <2>1
<1>10. DOMAIN rules \subseteq DOMAIN rules'
  BY <1>7
<1>11. nonterms \subseteq nonterms' /\ symbols \subseteq symbols'
       /\ \A i \in DOMAIN news : news[i].lhs \in nonterms' /\ Range(news[i].rhs) \subseteq symbols'
  BY <1>1
<1>12. RulesOK'
  <2>2. ASSUME NEW r \in DOMAIN rules'
        PROVE  /\ rules'[r].lhs \in nonterms'
               /\ rules'[r].rhs \in Seq(symbols' \ {RealStart}) /\ rules'[r].rhs # << >>
               /\ rules'[r].prio \in Nat /\ rules'[r].right \in BOOLEAN
               /\ rules'[r].dpos \subseteq 0..Len(rules'[r].rhs)
    <3>1. CASE r \in DOMAIN rules
      <4>1. /\ rules[r].lhs \in nonterms
            /\ rules[r].rhs \in Seq(symbols \ {RealStart}) /\ rules[r].rhs # << >>
            /\ rules[r].prio \in Nat /\ rules[r].right \in BOOLEAN
            /\ rules[r].dpos \subseteq 0..Len(rules[r].rhs)
        BY <3>1 DEF RulesOK
      <4>2. rules[r].rhs \in Seq(symbols' \ {RealStart})
        <5>1. symbols \ {RealStart} \subseteq symbols' \ {RealStart}
          BY <1>11
        <5>. QED
          BY <4>1, <5>1
      <4>3. rules'[r] = rules[r]
        BY <1>7, <3>1
      <4>. QED
        BY <1>11, <4>1, <4>2, <4>3
    <3>2. CASE r \notin DOMAIN rules
      <4>1. PICK i \in DOMAIN news : rules'[r] = news[i]
        BY <1>8, <3>2
      <4>2. Range(news[i].rhs) \subseteq symbols' \ {RealStart}
        BY <1>11 DEF Installable
      <4>3. news[i].rhs \in Seq(symbols' \ {RealStart})
        BY <4>2 DEF Installable
      <4>. QED
        BY <1>11, <4>1, <4>3 DEF Installable
    <3>. QED
      BY <3>1, <3>2
  <2>. QED
    BY <1>7, <2>2 DEF RulesOK
<1>13. /\ terms' \cap nonterms' = {} /\ symbols' = terms' \cup nonterms'
       /\ EOF \notin symbols' /\ RealStart \notin terms'
  <2> HIDE DEF left, right
  <2>. QED
    BY <1>1, <1>2 DEF SymbolsOK
<1>. QED
  BY <1>1, <1>6, <1>7, <1>8, <1>9, <1>10, <1>12, <1>13

------------------------------------------------------------------------------
(* The calls before generate_table *)

\* The invariant holds before the first call.
LEMMA InitHolds == ASSUME Init PROVE IInv
<1>1. SymbolsOK /\ RulesOK /\ CallsOK /\ ExpansionExact
  <2>1. IsFiniteSet({})
    BY FS_EmptySet
  <2>2. DOMAIN << >> = {} /\ << >> \in Seq(Range(<< >>))
    OBVIOUS
  <2>. QED
    BY <2>1, <2>2 DEF Init, SymbolsOK, RulesOK, CallsOK, ExpansionExact
<1>. QED
  BY <1>1 DEF Init, IInv, Working

\* One more call, and the rules of all the ways to read it.
LEMMA AddRuleKeeps ==
  ASSUME IInv, NEW d \in Definitions, NEW prio \in 0..MaxPriority, AddRule(d, prio)
  PROVE  IInv'
<1> DEFINE news == Expansion(d, prio)
           call == [def |-> d, prio |-> prio]
<1>1. /\ pc = "rules" /\ pc' = pc /\ Install(news) /\ calls' = Append(calls, call)
      /\ UNCHANGED << starts, priority, table, adjacent >>
      /\ SymbolsOK /\ RulesOK /\ CallsOK /\ ExpansionExact /\ prio \in Nat
  BY DefinitionsAssumption DEF AddRule, IInv
<1>2. /\ news \in Seq(Range(news))
      /\ \A K \in Selections(d) : \E i \in DOMAIN news : news[i] = RuleOf(d, K, prio)
      /\ \A i \in DOMAIN news : \E K \in Selections(d) : news[i] = RuleOf(d, K, prio)
  BY ExpansionFacts
<1> HIDE DEF news
<1>3. \A i \in DOMAIN news : Installable(news[i]) /\ news[i].lhs = d.lhs
  <2> TAKE i \in DOMAIN news
  <2>1. PICK K \in Selections(d) : news[i] = RuleOf(d, K, prio)
    BY <1>2
  <2> DEFINE s == news[i].rhs
  <2>2. /\ news[i].lhs = d.lhs /\ news[i].prio = prio /\ news[i].right \in BOOLEAN
        /\ s \in Seq(SymbolsOf(d)) /\ s # << >>
        /\ news[i].dpos \subseteq 0..Len(s)
    BY <2>1, RuleOfFacts
  <2>3. d.lhs # EOF /\ SymbolsOf(d) \cap {RealStart, EOF} = {}
    BY DefinitionsAssumption DEF SymbolsOf
  <2>4. Range(s) \subseteq SymbolsOf(d) /\ s \in Seq(Range(s))
    BY <2>2, RangeOfSeq, SeqOfRange
  <2>. QED
    BY <1>1, <2>2, <2>3, <2>4 DEF Installable
<1>4. /\ terms' \cap nonterms' = {} /\ symbols' = terms' \cup nonterms'
      /\ EOF \notin symbols' /\ IsFiniteSet(symbols') /\ RealStart \notin terms'
      /\ nonterms' = nonterms \cup {news[i].lhs : i \in DOMAIN news}
      /\ RulesOK'
      /\ DOMAIN rules \subseteq DOMAIN rules' /\ \A r \in DOMAIN rules : rules'[r] = rules[r]
      /\ \A i \in DOMAIN news : \E r \in DOMAIN rules' : rules'[r] = news[i]
      /\ \A r \in DOMAIN rules' \ DOMAIN rules : \E i \in DOMAIN news : rules'[r] = news[i]
  BY <1>1, <1>2, <1>3, InstallKeeps
<1>5. SymbolsOK'
  <2>1. d.lhs # RealStart
    BY DefinitionsAssumption
  <2>. QED
    BY <1>1, <1>3, <1>4, <2>1 DEF SymbolsOK
<1>6. /\ calls \in Seq(Range(calls)) /\ Len(calls) \in Nat
      /\ DOMAIN calls = 1..Len(calls) /\ DOMAIN calls' = 1..(Len(calls) + 1)
      /\ calls' \in Seq(Range(calls'))
      /\ \A i \in DOMAIN calls : calls'[i] = calls[i]
      /\ calls'[Len(calls) + 1] = call
  <2> DEFINE A == Range(calls) \cup {call}
  <2>1. calls \in Seq(Range(calls))
    BY <1>1 DEF CallsOK
  <2>2. calls \in Seq(A) /\ call \in A
    <3>1. Range(calls) \subseteq A /\ call \in A
      OBVIOUS
    <3> HIDE DEF A
    <3>. QED
      BY <2>1, <3>1
  <2> HIDE DEF A, call
  <2>3. calls' \in Seq(A)
    BY <1>1, <2>2
  <2>4. /\ Len(calls) \in Nat /\ DOMAIN calls = 1..Len(calls)
        /\ DOMAIN calls' = 1..(Len(calls) + 1)
        /\ calls'[Len(calls) + 1] = call
        /\ \A i \in 1..Len(calls) : calls'[i] = calls[i]
    BY <1>1, <2>2, AppendProperties
  <2>. QED
    BY <2>1, <2>3, <2>4, SeqOfRange
<1>7. CallsOK'
  <2>1. call.def \in Definitions /\ call.prio \in Nat
    BY <1>1
  <2> HIDE DEF call
  <2>. QED
    BY <1>1, <1>6, <2>1 DEF CallsOK
<1>8. ExpansionExact'
  <2>1. \A K \in Selections(d) : MadeOf(RuleOf(d, K, prio), call, K)
    BY RuleOfFacts
  <2>2. call.def = d
    OBVIOUS
  <2> HIDE DEF call
  <2>3. ASSUME NEW i \in DOMAIN calls', NEW K \in Selections(calls'[i].def)
        PROVE  \E r \in DOMAIN rules' : MadeOf(rules'[r], calls'[i], K)
    <3>1. CASE i \in DOMAIN calls
      BY <1>1, <1>4, <1>6, <2>3, <3>1 DEF ExpansionExact
    <3>2. CASE i \notin DOMAIN calls
      <4>1. i = Len(calls) + 1 /\ calls'[i] = call
        BY <1>6, <3>2
      <4>. QED
        BY <1>2, <1>4, <2>1, <2>2, <2>3, <4>1
    <3>. QED
      BY <3>1, <3>2
  <2>4. ASSUME NEW r \in DOMAIN rules', rules'[r].lhs # RealStart
        PROVE  \E i \in DOMAIN calls' : \E K \in Selections(calls'[i].def) :
                  MadeOf(rules'[r], calls'[i], K)
    <3>1. CASE r \in DOMAIN rules
      <4>1. PICK i \in DOMAIN calls : \E K \in Selections(calls[i].def) :
                                         MadeOf(rules[r], calls[i], K)
        BY <1>1, <1>4, <2>4, <3>1 DEF ExpansionExact
      <4>2. i \in DOMAIN calls' /\ calls'[i] = calls[i] /\ rules'[r] = rules[r]
        BY <1>4, <1>6, <3>1
      <4>. QED
        BY <4>1, <4>2
    <3>2. CASE r \notin DOMAIN rules
      <4>1. PICK K \in Selections(d) : rules'[r] = RuleOf(d, K, prio)
        BY <1>2, <1>4, <3>2
      <4>2. Len(calls) + 1 \in DOMAIN calls'
        BY <1>6
      <4>. QED
        BY <1>6, <2>1, <2>2, <4>1, <4>2
    <3>. QED
      BY <3>1, <3>2
  <2>. QED
    BY <2>3, <2>4 DEF ExpansionExact
<1>. QED
  BY <1>1, <1>4, <1>5, <1>7, <1>8 DEF IInv, Working, table

\* The priorities and the start symbols.
LEMMA CallsKeep ==
  ASSUME IInv, DecPriority \/ \E s \in Starts : AddStartSymbol(s)
  PROVE  IInv'
<1>1. /\ pc = "rules" /\ UNCHANGED << pc, calls, rules, nonterms, terms, symbols, table, adjacent >>
      /\ SymbolsOK /\ RulesOK /\ CallsOK /\ ExpansionExact
  BY DEF DecPriority, AddStartSymbol, IInv
<1>2. priority' \in Nat /\ starts' \subseteq nonterms \ {RealStart}
  BY <1>1 DEF DecPriority, AddStartSymbol, SymbolsOK, CallsOK
<1>3. SymbolsOK' /\ RulesOK' /\ CallsOK' /\ ExpansionExact'
  BY <1>1, <1>2 DEF SymbolsOK, RulesOK, CallsOK, ExpansionExact
<1>. QED
  BY <1>1, <1>3 DEF IInv, Working, table

\* The rules of the real start symbol.
LEMMA GenerateKeeps == ASSUME IInv, Generate PROVE IInv'
<1> DEFINE ruleOf == [s \in starts |-> [lhs |-> RealStart, rhs |-> << s >>, prio |-> priority + 1,
                                        right |-> FALSE, dpos |-> {}]]
           made == {ruleOf[s] : s \in starts}
           news == SetToSeq(made)
<1>1. /\ pc = "rules" /\ pc' = "start" /\ starts # {} /\ priority' = priority + 1
      /\ UNCHANGED << calls, starts, table, adjacent >>
      /\ SymbolsOK /\ RulesOK /\ CallsOK /\ ExpansionExact /\ priority \in Nat
  BY DEF Generate, IInv, CallsOK
<1>2. made = {[lhs |-> RealStart, rhs |-> << s >>, prio |-> priority + 1,
               right |-> FALSE, dpos |-> {}] : s \in starts}
  OBVIOUS
<1>3. Install(news)
  BY <1>2 DEF Generate
<1>4. IsFiniteSet(made)
  <2>1. IsFiniteSet(starts)
    <3>1. IsFiniteSet(symbols) /\ starts \in SUBSET symbols
      BY <1>1 DEF SymbolsOK
    <3>. QED
      BY <3>1, FS_Subset
  <2> HIDE DEF ruleOf
  <2>. QED
    BY <2>1, FiniteImage
<1>5. news \in Seq(made) /\ Range(news) = made
  <2> HIDE DEF made
  <2>. QED
    BY <1>4, Listed
<1>6. \A rule \in made : Installable(rule) /\ rule.lhs = RealStart
  <2> SUFFICES ASSUME NEW s \in starts PROVE Installable(ruleOf[s]) /\ ruleOf[s].lhs = RealStart
    OBVIOUS
  <2>1. s \notin {RealStart, EOF} /\ RealStart # EOF
    BY <1>1, DefinitionsAssumption DEF SymbolsOK
  <2>2. << s >> \in Seq(Range(<< s >>)) /\ Range(<< s >>) = {s} /\ << s >> # << >>
    BY DEF Range
  <2> DEFINE rule == ruleOf[s]
  <2>3. /\ rule.lhs = RealStart /\ rule.rhs = << s >> /\ rule.prio = priority + 1
        /\ rule.right = FALSE /\ rule.dpos = {}
    OBVIOUS
  <2> HIDE DEF rule
  <2>4. /\ rule.rhs \in Seq(Range(rule.rhs)) /\ rule.rhs # << >>
        /\ Range(rule.rhs) \cap {RealStart, EOF} = {}
    BY <2>1, <2>2, <2>3
  <2>5. rule.prio \in Nat /\ rule.right \in BOOLEAN /\ rule.dpos \subseteq 0..Len(rule.rhs)
    <3>1. rule.prio \in Nat /\ rule.dpos \subseteq 0..Len(rule.rhs)
      BY <1>1, <2>3
    <3>2. rule.right \in BOOLEAN
      BY <2>3, Zenon
    <3>. QED
      BY <3>1, <3>2
  <2>6. Installable(rule)
    BY <2>1, <2>3, <2>4, <2>5, Zenon DEF Installable
  <2>. QED
    BY <2>3, <2>6 DEF rule
<1>7. made # {}
  BY <1>1
<1> HIDE DEF made, news, ruleOf
<1>8. news \in Seq(Range(news)) /\ \A i \in DOMAIN news : news[i] \in made
  BY <1>5 DEF Range
<1>9. {news[i].lhs : i \in DOMAIN news} = {RealStart}
  BY <1>5, <1>6, <1>7, <1>8 DEF Range
<1>10. /\ terms' \cap nonterms' = {} /\ symbols' = terms' \cup nonterms'
       /\ EOF \notin symbols' /\ IsFiniteSet(symbols') /\ RealStart \notin terms'
       /\ nonterms' = nonterms \cup {news[i].lhs : i \in DOMAIN news}
       /\ RulesOK'
       /\ DOMAIN rules \subseteq DOMAIN rules' /\ \A r \in DOMAIN rules : rules'[r] = rules[r]
       /\ \A i \in DOMAIN news : \E r \in DOMAIN rules' : rules'[r] = news[i]
       /\ \A r \in DOMAIN rules' \ DOMAIN rules : \E i \in DOMAIN news : rules'[r] = news[i]
  <2>1. \A i \in DOMAIN news : Installable(news[i])
    BY <1>6, <1>8
  <2>. QED
    BY <1>1, <1>3, <1>8, <2>1, InstallKeeps
<1>11. SymbolsOK' /\ CallsOK'
  BY <1>1, <1>9, <1>10 DEF SymbolsOK, CallsOK
<1>12. ExpansionExact'
  <2>1. \A r \in DOMAIN rules' : rules'[r].lhs # RealStart => r \in DOMAIN rules
    BY <1>6, <1>8, <1>10
  <2>. QED
    BY <1>1, <1>10, <2>1 DEF ExpansionExact
<1>. QED
  BY <1>1, <1>10, <1>11, <1>12 DEF IInv, Working, table

------------------------------------------------------------------------------
(* The loop of generate_table *)

\* The rules that the calls leave behind are a grammar.
LEMMA GrammarHolds == ASSUME IInv, pc # "rules" PROVE G!IsGrammar
<1>1. /\ terms \cap nonterms = {} /\ symbols = terms \cup nonterms /\ EOF \notin symbols
      /\ RealStart \in nonterms /\ nonterms \in SUBSET symbols
      /\ IsFiniteSet(symbols) /\ Propagation \in BOOLEAN
  BY DefinitionsAssumption DEF IInv, SymbolsOK
<1>2. G!IsFiniteSet(nonterms)
  <2>1. IsFiniteSet(nonterms)
    BY <1>1, FS_Subset
  <2>. QED
    BY <2>1, SameSets
<1>3. G!RuleId = DOMAIN rules /\ G!Symbols = symbols
  BY <1>1 DEF G!RuleId, G!Symbols
<1>4. DOMAIN rules \subseteq Nat
  BY DEF IInv, RulesOK
<1>5. \A r \in DOMAIN rules :
         /\ rules[r].lhs \in nonterms
         /\ rules[r].rhs \in Seq(symbols \ {RealStart}) /\ rules[r].rhs # << >>
         /\ rules[r].prio \in Nat /\ rules[r].right \in BOOLEAN
         /\ rules[r].dpos \subseteq 0..Len(rules[r].rhs)
  BY DEF IInv, RulesOK
<1>. QED
  BY <1>1, <1>2, <1>3, <1>4, <1>5, Zenon DEF G!IsGrammar, G!Lhs, G!Rhs

\* There are finitely many items.
LEMMA ItemsFinite == ASSUME IInv PROVE IsFiniteSet(G!Item)
<1> DEFINE f == [r \in DOMAIN rules |-> {r} \X (0..Len(rules[r].rhs))]
           items == {f[r] : r \in DOMAIN rules}
<1>1. DOMAIN rules = 1..Len(rules) /\ Len(rules) \in Nat
      /\ \A r \in DOMAIN rules : Len(rules[r].rhs) \in Nat
  BY DEF IInv, RulesOK
<1>2. \A r \in DOMAIN rules : IsFiniteSet(f[r])
  <2> TAKE r \in DOMAIN rules
  <2>1. IsFiniteSet({r})
    BY FS_Singleton
  <2>2. 0 \in Int /\ Len(rules[r].rhs) \in Int
    BY <1>1
  <2>3. IsFiniteSet(0..Len(rules[r].rhs))
    BY <2>2, FS_Interval
  <2>4. IsFiniteSet({r} \X (0..Len(rules[r].rhs)))
    BY <2>1, <2>3, FS_Product
  <2>. QED
    BY <2>4
<1>3. G!Item \in SUBSET UNION items
  <2> SUFFICES ASSUME NEW i \in G!Item PROVE i \in UNION items
    OBVIOUS
  <2>1. i \in (DOMAIN rules) \X Nat /\ i[2] <= Len(rules[i[1]].rhs)
    BY DEF G!Item, G!RuleId, G!Rhs
  <2>2. i[1] \in DOMAIN rules /\ i[2] \in 0..Len(rules[i[1]].rhs) /\ i = << i[1], i[2] >>
    BY <1>1, <2>1
  <2>3. i \in {i[1]} \X (0..Len(rules[i[1]].rhs))
    BY <2>2
  <2>. QED
    BY <2>2, <2>3
<1> HIDE DEF f
<1>4. IsFiniteSet(items)
  <2>1. IsFiniteSet(DOMAIN rules)
    BY <1>1, FS_Interval
  <2>. QED
    BY <2>1, FiniteImage
<1>5. \A T \in items : IsFiniteSet(T)
  BY <1>2
<1> HIDE DEF items
<1>. QED
  BY <1>3, <1>4, <1>5, FS_UNION, FS_Subset

\* What an item set leads to.
Successors(S) == UNION {G!Targets(G!StatesetMove(S, c)) : c \in symbols}

\* The item sets a row leads to: finitely many sets of items.
LEMMA SuccessorFacts ==
  ASSUME IInv, pc # "rules", NEW S \in SUBSET G!Item
  PROVE  /\ Successors(S) \subseteq SUBSET G!Item /\ IsFiniteSet(Successors(S))
         /\ \A c \in symbols : G!Targets(G!StatesetMove(S, c)) \subseteq Successors(S)
         /\ \A Q \in Successors(S) : \E c \in symbols : Q \in G!Targets(G!StatesetMove(S, c))
<1>1. \A c : \A Q \in G!Targets(G!StatesetMove(S, c)) : Q \subseteq G!Item
  <2> SUFFICES ASSUME NEW c, NEW Q \in G!Targets(G!StatesetMove(S, c)) PROVE Q \subseteq G!Item
    OBVIOUS
  <2>1. L!IsGrammar
    BY GrammarHolds, SamePromises
  <2>2. S \in SUBSET L!Item /\ Q \in L!Targets(L!StatesetMove(S, c))
    BY SameItems, SameClosures, SameActions
  <2>3. L!Goes(S, c, Q)
    BY <2>1, <2>2, L!TargetsGo
  <2>. QED
    BY <2>3, SameItems DEF L!Goes, L!Follows
<1>2. Successors(S) \in SUBSET (SUBSET G!Item)
  BY <1>1 DEF Successors
<1>3. IsFiniteSet(Successors(S))
  BY <1>2, ItemsFinite, FS_SUBSET, FS_Subset
<1>. QED
  BY <1>2, <1>3 DEF Successors

\* Before its first row there is the number of the start state.
LEMMA StartStateKeeps == ASSUME IInv, StartState PROVE IInv'
<1>1. /\ pc = "start" /\ pc' = "table" /\ UNCHANGED << grammar, mapping, adjacent >>
      /\ queue' = << G!StartItems >> /\ visited' = {G!StartItems}
      /\ numbers' = [S \in {G!StartItems} |-> 0]
      /\ mapping = NoMap /\ adjacent = {}
  BY DEF StartState, IInv, Working
<1>2. G!StartItems' = G!StartItems /\ G!Item' = G!Item
  BY <1>1, ItemsStay, ClosuresStay DEF grammar
<1>3. G!StartItems \subseteq G!Item
  <2>1. L!IsGrammar
    BY <1>1, GrammarHolds, SamePromises
  <2>2. \A i \in L!StartItems : i \in L!Item
    BY <2>1, L!StartFacts
  <2>. QED
    BY <2>2, SameItems, SameClosures
<1>4. SymbolsOK' /\ RulesOK' /\ CallsOK' /\ ExpansionExact'
  BY <1>1 DEF IInv, SymbolsOK, RulesOK, CallsOK, ExpansionExact, grammar
<1>5. DOMAIN mapping' = {}
  BY <1>1 DEF NoMap
<1>6. RowsOK'
  BY <1>5 DEF RowsOK
<1>7. QueueOK'
  BY <1>1, <1>5 DEF QueueOK, Range, IsInjective
<1>8. VisitedOK'
  BY <1>1, <1>2, <1>3 DEF VisitedOK
<1>9. NumbersOK'
  <2>1. IsFiniteSet({G!StartItems}) /\ Cardinality({G!StartItems}) = 1
    BY FS_Singleton
  <2> DEFINE start == G!StartItems
  <2>2. /\ DOMAIN numbers' = {start} /\ numbers'[start] = 0 /\ visited' = {start}
        /\ G!StartItems' = start
    BY <1>1, <1>2
  <2> HIDE DEF start
  <2>3. IsInjective(numbers')
    BY <2>2 DEF IsInjective
  <2>. QED
    BY <2>1, <2>2, <2>3 DEF NumbersOK, start
<1>. QED
  BY <1>1, <1>4, <1>6, <1>7, <1>8, <1>9 DEF IInv, Working

\* A queue without its first member.
LEMMA TailFacts ==
  ASSUME NEW A, NEW q \in Seq(A), q # << >>, IsInjective(q)
  PROVE  /\ Head(q) \in A /\ Head(q) \in Range(q) /\ Tail(q) \in Seq(A)
         /\ IsInjective(Tail(q)) /\ Range(Tail(q)) = Range(q) \ {Head(q)}
<1>1. /\ Head(q) \in A /\ Tail(q) \in Seq(A) /\ Len(Tail(q)) = Len(q) - 1
      /\ \A i \in 1..Len(Tail(q)) : Tail(q)[i] = q[i + 1]
  BY HeadTailProperties
<1>2. /\ Len(q) \in Nat /\ Len(q) > 0 /\ DOMAIN q = 1..Len(q) /\ Head(q) = q[1]
      /\ DOMAIN Tail(q) = 1..(Len(q) - 1) /\ \A i \in DOMAIN Tail(q) : Tail(q)[i] = q[i + 1]
  BY <1>1, EmptySeq
<1>3. \A i, j \in DOMAIN q : q[i] = q[j] => i = j
  BY DEF IsInjective
<1>4. \A i \in DOMAIN Tail(q) : i + 1 \in DOMAIN q /\ i + 1 # 1
  BY <1>2
<1>5. 1 \in DOMAIN q /\ \A i \in DOMAIN q : i # 1 => i - 1 \in DOMAIN Tail(q) /\ (i - 1) + 1 = i
  BY <1>2
<1>6. IsInjective(Tail(q))
  <2> SUFFICES ASSUME NEW i \in DOMAIN Tail(q), NEW j \in DOMAIN Tail(q), Tail(q)[i] = Tail(q)[j]
               PROVE  i = j
    BY DEF IsInjective
  <2>1. i + 1 = j + 1
    BY <1>2, <1>3, <1>4
  <2>. QED
    BY <1>2, <2>1
<1>7. Range(Tail(q)) = Range(q) \ {Head(q)}
  <2>1. \A x \in Range(Tail(q)) : x \in Range(q) /\ x # Head(q)
    BY <1>2, <1>3, <1>4, <1>5 DEF Range
  <2>2. \A x \in Range(q) : x # Head(q) => x \in Range(Tail(q))
    BY <1>2, <1>5 DEF Range
  <2>. QED
    BY <2>1, <2>2
<1>. QED
  BY <1>1, <1>2, <1>5, <1>6, <1>7 DEF Range

\* Two sequences without a common member.
LEMMA ConcatFacts ==
  ASSUME NEW A, NEW q \in Seq(A), NEW r \in Seq(A), IsInjective(q), IsInjective(r),
         Range(q) \cap Range(r) = {}
  PROVE  q \o r \in Seq(A) /\ IsInjective(q \o r) /\ Range(q \o r) = Range(q) \cup Range(r)
<1>1. /\ q \o r \in Seq(A) /\ Len(q \o r) = Len(q) + Len(r)
      /\ \A i \in 1..(Len(q) + Len(r)) :
            (q \o r)[i] = IF i <= Len(q) THEN q[i] ELSE r[i - Len(q)]
      /\ Range(q \o r) = Range(q) \cup Range(r)
  BY ConcatProperties, RangeConcatenation
<1>2. /\ Len(q) \in Nat /\ Len(r) \in Nat /\ DOMAIN q = 1..Len(q) /\ DOMAIN r = 1..Len(r)
      /\ DOMAIN (q \o r) = 1..(Len(q) + Len(r))
  BY <1>1
<1> SUFFICES ASSUME NEW i \in DOMAIN (q \o r), NEW j \in DOMAIN (q \o r), (q \o r)[i] = (q \o r)[j]
             PROVE  i = j
  BY <1>1 DEF IsInjective
<1>3. /\ (i <= Len(q) /\ i \in DOMAIN q) \/ (~(i <= Len(q)) /\ i - Len(q) \in DOMAIN r)
      /\ (j <= Len(q) /\ j \in DOMAIN q) \/ (~(j <= Len(q)) /\ j - Len(q) \in DOMAIN r)
  BY <1>2
<1>4. /\ (q \o r)[i] = IF i <= Len(q) THEN q[i] ELSE r[i - Len(q)]
      /\ (q \o r)[j] = IF j <= Len(q) THEN q[j] ELSE r[j - Len(q)]
  BY <1>1, <1>2
<1>5. CASE i <= Len(q) /\ j <= Len(q)
  BY <1>3, <1>4, <1>5 DEF IsInjective
<1>6. CASE ~(i <= Len(q)) /\ ~(j <= Len(q))
  <2>1. i - Len(q) = j - Len(q)
    BY <1>3, <1>4, <1>6 DEF IsInjective
  <2>. QED
    BY <1>2, <2>1
<1>7. CASE i <= Len(q) /\ ~(j <= Len(q))
  BY <1>3, <1>4, <1>7 DEF Range
<1>8. CASE ~(i <= Len(q)) /\ j <= Len(q)
  BY <1>3, <1>4, <1>8 DEF Range
<1>. QED
  BY <1>5, <1>6, <1>7, <1>8

\* What a round of the loop does when there is no conflict.
LEMMA RowEffect ==
  ASSUME IInv, Row, pc' # "conflict"
  PROVE  LET s    == Head(queue)
             met  == Successors(s)
             more == SetToSeq(met \ visited)
         IN
         /\ pc = "table" /\ pc' = pc /\ queue # << >> /\ UNCHANGED << grammar, adjacent >>
         /\ mapping' = [S \in DOMAIN mapping \cup {s} |->
                          IF S = s THEN [c \in symbols |-> G!StateAction(G!StatesetMove(s, c))]
                                   ELSE mapping[S]]
         /\ queue' = Tail(queue) \o more
         /\ visited' = visited \cup met
         /\ numbers' = [S \in DOMAIN numbers \cup Range(more) |->
                          IF S \in DOMAIN numbers THEN numbers[S]
                          ELSE Cardinality(DOMAIN numbers) - 1
                               + CHOOSE i \in DOMAIN more : more[i] = S]
<1> DEFINE s     == Head(queue)
           met   == Successors(s)
           more  == SetToSeq(met \ visited)
           moves == {G!StatesetMove(s, c) : c \in symbols}
           steps == UNION {NextStates(S) : S \in moves}
           found == SetToSeq(steps \ visited)
           goals == UNION {G!Targets(S) : S \in moves}
           named == SetToSeq(goals \ DOMAIN numbers)
<1>1. /\ pc = "table" /\ queue # << >> /\ UNCHANGED << grammar, adjacent >>
      /\ \/ pc' = "conflict"
         \/ /\ mapping' = [S \in DOMAIN mapping \cup {s} |->
                             IF S = s THEN [c \in symbols |-> G!StateAction(G!StatesetMove(s, c))]
                                      ELSE mapping[S]]
            /\ queue' = Tail(queue) \o found
            /\ visited' = visited \cup steps
            /\ numbers' = [S \in DOMAIN numbers \cup Range(named) |->
                             IF S \in DOMAIN numbers THEN numbers[S]
                             ELSE Cardinality(DOMAIN numbers) - 1
                                  + CHOOSE i \in DOMAIN named : named[i] = S]
            /\ pc' = pc
  BY Zenon DEF Row
<1>2. goals = met
  BY DEF Successors
<1>3. steps = goals
  BY DEF NextStates
<1>4. DOMAIN numbers = visited
  BY <1>1 DEF IInv, NumbersOK, Working
<1> HIDE DEF steps, goals
<1>5. found = more /\ named = more
  BY <1>2, <1>3, <1>4
<1>6. visited \cup steps = visited \cup met
  BY <1>2, <1>3
<1> HIDE DEF found, named, more
<1>7. /\ queue' = Tail(queue) \o more
      /\ numbers' = [S \in DOMAIN numbers \cup Range(more) |->
                       IF S \in DOMAIN numbers THEN numbers[S]
                       ELSE Cardinality(DOMAIN numbers) - 1
                            + CHOOSE i \in DOMAIN more : more[i] = S]
  BY <1>1, <1>5
<1>8. visited' = visited \cup met
  BY <1>1, <1>6
<1>. QED
  BY <1>1, <1>7, <1>8, Zenon DEF more

\* A row more: what it leads to is numbered, and waits for a row of its own.
LEMMA RowKeeps == ASSUME IInv, Row PROVE IInv'
<1>1. /\ pc = "table" /\ UNCHANGED << grammar, adjacent >> /\ adjacent = {}
      /\ RowsOK /\ QueueOK /\ VisitedOK /\ NumbersOK /\ queue # << >>
  BY DEF Row, IInv, Working
<1>2. SymbolsOK' /\ RulesOK' /\ CallsOK' /\ ExpansionExact'
  <2>1. pc' # "rules"
    BY <1>1 DEF Row
  <2>. QED
    BY <1>1, <2>1 DEF IInv, SymbolsOK, RulesOK, CallsOK, ExpansionExact, grammar
<1>3. /\ symbols' = symbols /\ G!StartItems' = G!StartItems /\ G!Item' = G!Item
      /\ \A S, c : G!StatesetMove(S, c)' = G!StatesetMove(S, c)
      /\ \A S : G!StateAction(S)' = G!StateAction(S) /\ G!Targets(S)' = G!Targets(S)
  BY <1>1, ItemsStay, ClosuresStay, ActionsStay DEF grammar
<1>4. CASE pc' = "conflict"
  <2>1. UNCHANGED << queue, visited, numbers, mapping >>
    BY <1>1, <1>4 DEF Row
  <2>2. RowsOK' /\ QueueOK' /\ VisitedOK' /\ NumbersOK'
    <3>1. RowsOK'
      BY <1>1, <1>3, <2>1 DEF RowsOK
    <3>2. QueueOK'
      BY <1>1, <1>4, <2>1 DEF QueueOK
    <3>3. VisitedOK'
      BY <1>1, <1>3, <2>1 DEF VisitedOK
    <3>4. NumbersOK'
      BY <1>1, <1>3, <2>1 DEF NumbersOK
    <3>. QED
      BY <3>1, <3>2, <3>3, <3>4
  <2>. QED
    BY <1>1, <1>2, <1>4, <2>2 DEF IInv, Working
<1>5. CASE pc' # "conflict"
  <2> DEFINE s    == Head(queue)
             met  == Successors(s)
             more == SetToSeq(met \ visited)
  <2>1. /\ pc' = pc
        /\ mapping' = [S \in DOMAIN mapping \cup {s} |->
                         IF S = s THEN [c \in symbols |-> G!StateAction(G!StatesetMove(s, c))]
                                  ELSE mapping[S]]
        /\ queue' = Tail(queue) \o more
        /\ visited' = visited \cup met
        /\ numbers' = [S \in DOMAIN numbers \cup Range(more) |->
                         IF S \in DOMAIN numbers THEN numbers[S]
                         ELSE Cardinality(DOMAIN numbers) - 1
                              + CHOOSE i \in DOMAIN more : more[i] = S]
    BY <1>5, RowEffect
  <2>2. /\ s \in visited /\ s \in Range(queue) /\ Tail(queue) \in Seq(visited)
        /\ IsInjective(Tail(queue)) /\ Range(Tail(queue)) = Range(queue) \ {s}
    BY <1>1, TailFacts DEF QueueOK
  <2>3. s \in SUBSET G!Item
    BY <1>1, <2>2 DEF VisitedOK
  <2> HIDE DEF s
  <2>4. /\ met \subseteq SUBSET G!Item /\ IsFiniteSet(met)
        /\ \A c \in symbols : G!Targets(G!StatesetMove(s, c)) \subseteq met
        /\ \A Q \in met : \E c \in symbols : Q \in G!Targets(G!StatesetMove(s, c))
    BY <1>1, <2>3, SuccessorFacts
  <2> HIDE DEF met
  <2> DEFINE new == met \ visited
  <2>5. IsFiniteSet(new)
    BY <2>4, FS_Difference
  <2>6. /\ Cardinality(new) \in Nat /\ more \in Seq(new) /\ Len(more) = Cardinality(new)
        /\ Range(more) = new /\ IsInjective(more)
    <3> HIDE DEF new
    <3>1. more = SetToSeq(new)
      BY DEF new
    <3> HIDE DEF more
    <3>. QED
      BY <2>5, <3>1, Listed
  <2> HIDE DEF more
  <2>7. DOMAIN mapping' = DOMAIN mapping \cup {s} /\ DOMAIN mapping \subseteq visited
        /\ s \notin DOMAIN mapping
    BY <1>1, <2>1, <2>2 DEF RowsOK, QueueOK
  <2>8. RowsOK'
    <3>1. DOMAIN mapping' \subseteq visited'
      BY <2>1, <2>2, <2>7
    <3>2. ASSUME NEW S \in DOMAIN mapping'
          PROVE  /\ mapping'[S] = [c \in symbols |-> G!StateAction(G!StatesetMove(S, c))]
                 /\ \A c \in symbols : G!Targets(G!StatesetMove(S, c)) \subseteq visited'
      <4>1. CASE S = s
        BY <2>1, <2>4, <2>7, <4>1
      <4>2. CASE S # s
        <5>1. S \in DOMAIN mapping /\ mapping'[S] = mapping[S]
          BY <2>1, <2>7, <4>2
        <5>. QED
          BY <1>1, <2>1, <5>1 DEF RowsOK
      <4>. QED
        BY <4>1, <4>2
    <3>3. \A S, c : /\ G!StateAction(G!StatesetMove(S, c))' = G!StateAction(G!StatesetMove(S, c))
                    /\ G!Targets(G!StatesetMove(S, c))' = G!Targets(G!StatesetMove(S, c))
      BY <1>3
    <3>. QED
      BY <1>3, <3>1, <3>2, <3>3 DEF RowsOK
  <2>9. QueueOK'
    <3>1. Range(queue) = visited \ DOMAIN mapping
      BY <1>1 DEF QueueOK
    <3>2. Range(Tail(queue)) \cap Range(more) = {}
      BY <2>2, <2>6, <3>1
    <3>3. Tail(queue) \in Seq(visited') /\ more \in Seq(visited')
      <4>1. visited \subseteq visited' /\ new \subseteq visited'
        BY <2>1
      <4> HIDE DEF new
      <4>. QED
        BY <2>2, <2>6, <4>1, SeqMonotonic
    <3> DEFINE rest == Tail(queue)
    <3> HIDE DEF rest
    <3>4. rest \in Seq(visited') /\ IsInjective(rest) /\ Range(rest) \cap Range(more) = {}
          /\ queue' = rest \o more
      BY <2>1, <2>2, <3>2, <3>3 DEF rest
    <3>5. queue' \in Seq(visited') /\ IsInjective(queue')
          /\ Range(queue') = Range(rest) \cup Range(more)
      BY <2>6, <3>3, <3>4, ConcatFacts
    <3>6. Range(queue') = visited' \ DOMAIN mapping'
      BY <2>1, <2>2, <2>6, <2>7, <3>1, <3>5 DEF rest
    <3>. QED
      BY <1>1, <2>1, <3>5, <3>6 DEF QueueOK
  <2>10. VisitedOK'
    <3>1. visited' \subseteq SUBSET G!Item
      BY <1>1, <2>1, <2>4 DEF VisitedOK
    <3>2. ASSUME NEW S \in visited'
          PROVE  S = G!StartItems \/ \E T \in DOMAIN mapping', c \in symbols :
                                       S \in G!Targets(G!StatesetMove(T, c))
      <4>1. CASE S \in visited
        BY <1>1, <2>7, <4>1 DEF VisitedOK
      <4>2. CASE S \in met
        BY <2>4, <2>7, <4>2
      <4>. QED
        BY <2>1, <4>1, <4>2
    <3>. QED
      BY <1>3, <3>1, <3>2 DEF VisitedOK
  <2>11. NumbersOK'
    <3> DEFINE n == Cardinality(visited)
               k == Cardinality(new)
               at == [S \in new |-> CHOOSE i \in DOMAIN more : more[i] = S]
    <3>1. /\ DOMAIN numbers = visited /\ IsFiniteSet(visited)
          /\ \A S \in visited : numbers[S] \in 0..n - 1
          /\ IsInjective(numbers)
          /\ G!StartItems \in visited /\ numbers[G!StartItems] = 0
      BY <1>1 DEF NumbersOK
    <3>2. IsFiniteSet(visited') /\ Cardinality(visited') = n + k /\ visited' = visited \cup new
          /\ n \in Nat /\ k \in Nat
      <4>1. visited' = visited \cup new /\ visited \cap new = {}
        BY <2>1
      <4>2. Cardinality({}) = 0
        BY FS_EmptySet
      <4>3. n \in Nat /\ k \in Nat
        BY <2>5, <3>1, FS_CardinalityType
      <4> HIDE DEF new
      <4>4. IsFiniteSet(visited \cup new)
            /\ Cardinality(visited \cup new) = n + k - Cardinality(visited \cap new)
        BY <2>5, <3>1, FS_Union
      <4> HIDE DEF n, k
      <4>5. Cardinality(visited') = n + k
        BY <4>1, <4>2, <4>3, <4>4
      <4>. QED
        BY <4>1, <4>3, <4>4, <4>5
    <3>3. DOMAIN more = 1..k /\ \A S \in new : \E i \in DOMAIN more : more[i] = S
      <4>1. \A S \in new : \E i \in DOMAIN more : more[i] = S
        BY <2>6 DEF Range
      <4> HIDE DEF new
      <4>2. DOMAIN more = 1..k
        BY <2>6, LenProperties
      <4>. QED
        BY <4>1, <4>2
    <3>4. \A S \in new : at[S] \in 1..k /\ more[at[S]] = S
      BY <3>3
    <3> HIDE DEF n, k, at
    <3>5. /\ DOMAIN numbers' = visited'
          /\ \A S \in visited : numbers'[S] = numbers[S]
          /\ \A S \in new : numbers'[S] = n - 1 + at[S]
      <4>1. /\ DOMAIN numbers' = visited'
            /\ \A S \in visited' : numbers'[S] = IF S \in visited THEN numbers[S]
                                       ELSE n - 1 + CHOOSE i \in DOMAIN more : more[i] = S
        BY <2>1, <2>6, <3>1, <3>2 DEF n
      <4>2. \A S \in new : S \in visited' /\ S \notin visited
                           /\ at[S] = CHOOSE i \in DOMAIN more : more[i] = S
        BY <3>2 DEF at
      <4>3. visited \subseteq visited'
        BY <3>2
      <4> HIDE DEF new
      <4>4. \A S \in visited : numbers'[S] = numbers[S]
        BY <4>1, <4>3
      <4>5. \A S \in new : numbers'[S] = n - 1 + at[S]
        BY <4>1, <4>2
      <4>. QED
        BY <4>1, <4>4, <4>5
    <3>6. \A S \in new : numbers'[S] \in n..(n + k - 1)
      BY <3>2, <3>4, <3>5
    <3>7. \A S \in visited : numbers'[S] \in 0..n - 1
      BY <3>1, <3>5
    <3>8. \A S \in visited' : numbers'[S] \in 0..Cardinality(visited') - 1
      BY <3>2, <3>6, <3>7
    <3>9. ASSUME NEW S \in visited', NEW T \in visited', numbers'[S] = numbers'[T]
          PROVE  S = T
      <4>1. CASE S \in visited /\ T \in visited
        BY <3>1, <3>5, <3>9, <4>1 DEF IsInjective
      <4>2. CASE S \in new /\ T \in new
        <5>1. at[S] = at[T]
          BY <3>2, <3>4, <3>5, <3>9, <4>2
        <5>. QED
          BY <3>4, <4>2, <5>1
      <4>3. CASE ~(S \in visited /\ T \in visited) /\ ~(S \in new /\ T \in new)
        <5>1. \/ numbers'[S] \in 0..n - 1 /\ numbers'[T] \in n..(n + k - 1)
              \/ numbers'[T] \in 0..n - 1 /\ numbers'[S] \in n..(n + k - 1)
          BY <3>2, <3>6, <3>7, <4>3
        <5>. QED
          BY <3>2, <3>9, <5>1
      <4>. QED
        BY <4>1, <4>2, <4>3
    <3>10. IsInjective(numbers')
      BY <3>5, <3>9 DEF IsInjective
    <3>. QED
      BY <1>3, <3>1, <3>2, <3>5, <3>8, <3>10 DEF NumbersOK
  <2>. QED
    BY <1>1, <1>2, <2>1, <2>8, <2>9, <2>10, <2>11 DEF IInv, Working
<1>. QED
  BY <1>4, <1>5

------------------------------------------------------------------------------
(* The queries *)

\* The pairs of tokens of rules that stay.
LEMMA PairsStay == ASSUME UNCHANGED << rules, symbols, nonterms >> PROVE PossiblePairs' = PossiblePairs
<1>1. Neighbours' = Neighbours
  BY DEF Neighbours
<1>2. \A c, end : Ends(c, end)' = Ends(c, end)
  BY DEF Ends
<1>3. Begins' = Begins /\ Finishes' = Finishes
  BY <1>2 DEF Begins, Finishes, Ends
<1>4. FirstChars' = FirstChars /\ LastChars' = LastChars
  BY <1>3 DEF FirstChars, LastChars, TwoSteps
<1>. QED
  BY <1>1, <1>4 DEF PossiblePairs, Pairs

\* The rounds of Closure, up to the n-th.
Widened(f) == [c \in symbols |-> UNION {f[d] : d \in f[c]}]
ClosureRounds(step, n, round) ==
    round = [k \in 0..n |-> IF k = 0 THEN [c \in symbols |-> {c} \cup step[c]]
                                     ELSE Widened(round[k - 1])]

\* Any number of rounds can be made.
LEMMA ClosureRoundsExist ==
  ASSUME NEW step, NEW b \in Nat
  PROVE  \E round : ClosureRounds(step, b, round)
<1> DEFINE first == [c \in symbols |-> {c} \cup step[c]]
           S == {n \in Nat : \E round : ClosureRounds(step, n, round)}
<1>1. 0 \in S
  <2>1. ClosureRounds(step, 0, [k \in 0..0 |-> first])
    BY DEF ClosureRounds
  <2>. QED
    BY <2>1
<1>2. ASSUME NEW n \in S PROVE n + 1 \in S
  <2>1. PICK f : ClosureRounds(step, n, f)
    BY <1>2
  <2> DEFINE g == [k \in 0..(n + 1) |-> IF k = n + 1 THEN Widened(f[n]) ELSE f[k]]
  <2>2. n \in Nat /\ n + 1 \in Nat
    OBVIOUS
  <2>3. ASSUME NEW k \in 0..(n + 1)
        PROVE  g[k] = IF k = 0 THEN first ELSE Widened(g[k - 1])
    <3>1. CASE k = n + 1
      <4>1. k # 0 /\ k - 1 = n /\ n \in 0..(n + 1) /\ n # n + 1
        BY <2>2, <3>1
      <4>2. g[k - 1] = f[n]
        BY <4>1
      <4>. QED
        BY <3>1, <4>1, <4>2
    <3>2. CASE k # n + 1
      <4>1. k \in 0..n /\ (k # 0 => k - 1 \in 0..(n + 1) /\ k - 1 # n + 1)
        BY <2>2, <3>2
      <4>2. g[k] = f[k] /\ (k # 0 => g[k - 1] = f[k - 1])
        BY <4>1, <3>2
      <4>3. f[k] = IF k = 0 THEN first ELSE Widened(f[k - 1])
        BY <4>1, <2>1, Zenon DEF ClosureRounds
      <4>. QED
        BY <4>2, <4>3
    <3>. QED
      BY <3>1, <3>2
  <2>4. ClosureRounds(step, n + 1, g)
    <3>1. g = [k \in 0..(n + 1) |-> g[k]]
      OBVIOUS
    <3> HIDE DEF g
    <3>. QED
      BY <2>3, <3>1 DEF ClosureRounds
  <2>. QED
    BY <2>2, <2>4
<1>3. 0..b \subseteq S
  <2> HIDE DEF S
  <2>. QED
    BY <1>1, <1>2, L!Induction
<1>. QED
  BY <1>3

\* Two steps are among any number of steps.
LEMMA TwoStepsClose ==
  ASSUME IsFiniteSet(symbols), NEW step \in [symbols -> SUBSET symbols], NEW c \in symbols
  PROVE  TwoSteps(step)[c] \subseteq Closure(step)[c]
<1> DEFINE b == Cardinality(symbols)
<1>1. b \in Nat /\ b # 0
  BY FS_CardinalityType, FS_EmptySet
<1>2. Closure(step) = (CHOOSE round : ClosureRounds(step, b, round))[b]
  BY Zenon DEF Closure, ClosureRounds, Widened
<1> HIDE DEF b
<1>3. PICK round : ClosureRounds(step, b, round) /\ Closure(step) = round[b]
  BY <1>1, <1>2, ClosureRoundsExist
<1>4. \A k \in 0..b : round[k] = IF k = 0 THEN [d \in symbols |-> {d} \cup step[d]]
                                          ELSE Widened(round[k - 1])
  BY <1>3, Zenon DEF ClosureRounds
<1> DEFINE Fit(k) == /\ round[k] \in [symbols -> SUBSET symbols]
                     /\ \A d \in symbols : d \in round[k][d]
                     /\ k # 0 => TwoSteps(step)[c] \subseteq round[k][c]
           S == {k \in 0..b : Fit(k)}
<1>5. 0 \in 0..b /\ round[0] = [d \in symbols |-> {d} \cup step[d]]
  <2>1. 0 \in 0..b
    BY <1>1
  <2>. QED
    BY <1>4, <2>1, Zenon
<1>6. 0 \in S
  BY <1>5
<1>7. ASSUME NEW k \in S, k + 1 <= b PROVE k + 1 \in S
  <2>1. k \in 0..b /\ k + 1 \in 0..b /\ k + 1 # 0 /\ (k + 1) - 1 = k /\ Fit(k)
    BY <1>1, <1>7
  <2>2. round[k + 1] = Widened(round[k])
    BY <1>4, <2>1
  <2>3. round[k + 1] \in [symbols -> SUBSET symbols]
    BY <2>1, <2>2 DEF Widened
  <2>4. \A d \in symbols : round[k][d] \subseteq round[k + 1][d]
    BY <2>1, <2>2 DEF Widened
  <2>5. TwoSteps(step)[c] \subseteq round[k + 1][c]
    <3>1. CASE k = 0
      <4>1. TwoSteps(step)[c] = {c} \cup step[c] \cup UNION {step[j] : j \in step[c]}
        BY DEF TwoSteps
      <4>2. \A d \in symbols : round[0][d] = {d} \cup step[d]
        BY <1>5
      <4>3. round[1][c] = UNION {round[0][d] : d \in round[0][c]}
        BY <2>2, <3>1 DEF Widened
      <4>4. \A d \in {c} \cup step[c] : d \in symbols /\ {d} \cup step[d] \subseteq round[1][c]
        BY <4>2, <4>3
      <4>. QED
        BY <3>1, <4>1, <4>4
    <3>2. CASE k # 0
      BY <2>1, <2>4, <3>2
    <3>. QED
      BY <3>1, <3>2
  <2>. QED
    BY <2>1, <2>3, <2>4, <2>5
<1>8. 0..b \subseteq S
  <2> HIDE DEF S
  <2>. QED
    BY <1>1, <1>6, <1>7, L!Induction
<1>. QED
  BY <1>1, <1>3, <1>8

\* A pair that is given as possible is one.
LEMMA PairsStand == ASSUME IInv PROVE \A p \in PossiblePairs : CanStandNext(p[1], p[2])
<1>1. /\ IsFiniteSet(symbols) /\ nonterms \subseteq symbols
      /\ \A r \in DOMAIN rules :
            /\ rules[r].rhs \in Seq(symbols) /\ rules[r].rhs # << >>
            /\ rules[r].lhs \in symbols
  <2>1. IsFiniteSet(symbols) /\ nonterms \subseteq symbols
    BY DEF IInv, SymbolsOK
  <2>2. \A r \in DOMAIN rules :
           /\ rules[r].rhs \in Seq(symbols \ {RealStart}) /\ rules[r].rhs # << >>
           /\ rules[r].lhs \in nonterms
    BY DEF IInv, RulesOK
  <2>3. symbols \ {RealStart} \subseteq symbols
    OBVIOUS
  <2>. QED
    BY <2>1, <2>2, <2>3, SeqMonotonic
<1>2. \A r \in DOMAIN rules : Head(rules[r].rhs) \in symbols /\ Last(rules[r].rhs) \in symbols
  BY <1>1 DEF Last
<1>3. Begins \in [symbols -> SUBSET symbols] /\ Finishes \in [symbols -> SUBSET symbols]
  BY <1>2 DEF Begins, Finishes, Ends
<1>4. \A n \in Neighbours : n[1] \in symbols /\ n[2] \in symbols
  BY <1>1 DEF Neighbours
<1> SUFFICES ASSUME NEW p \in PossiblePairs PROVE CanStandNext(p[1], p[2])
  OBVIOUS
<1>5. PICK n \in Neighbours : p[1] \in LastChars[n[1]] /\ p[2] \in FirstChars[n[2]]
  BY DEF PossiblePairs, Pairs
<1>6. p[1] \in Closure(Finishes)[n[1]] /\ p[2] \in Closure(Begins)[n[2]]
  BY <1>1, <1>3, <1>4, <1>5, TwoStepsClose DEF LastChars, FirstChars
<1>. QED
  BY <1>6 DEF CanStandNext

\* The assertion at the end of the loop, and a query, leave the table alone.
LEMMA TableStays ==
  ASSUME IInv, UNCHANGED << grammar, table >>, pc \notin {"rules", "start"},
         pc' \in {"done", "assert"}, queue = << >>,
         adjacent' \in {{}, PossiblePairs}
  PROVE  IInv'
<1>1. /\ symbols' = symbols /\ G!StartItems' = G!StartItems /\ G!Item' = G!Item
      /\ \A S, c : /\ G!StateAction(G!StatesetMove(S, c))' = G!StateAction(G!StatesetMove(S, c))
                   /\ G!Targets(G!StatesetMove(S, c))' = G!Targets(G!StatesetMove(S, c))
      /\ PossiblePairs' = PossiblePairs
  BY ItemsStay, ClosuresStay, ActionsStay, PairsStay DEF grammar
<1>2. SymbolsOK' /\ RulesOK' /\ CallsOK' /\ ExpansionExact'
  BY DEF IInv, SymbolsOK, RulesOK, CallsOK, ExpansionExact, grammar
<1>3. RowsOK /\ QueueOK /\ VisitedOK /\ NumbersOK
      /\ UNCHANGED << queue, visited, numbers, mapping >>
  BY DEF IInv, Working, table
<1>4. RowsOK'
  BY <1>1, <1>3 DEF RowsOK
<1>5. QueueOK'
  BY <1>3 DEF QueueOK
<1>6. VisitedOK'
  BY <1>1, <1>3 DEF VisitedOK
<1>7. NumbersOK'
  BY <1>1, <1>3 DEF NumbersOK
<1>. QED
  BY <1>1, <1>2, <1>4, <1>5, <1>6, <1>7 DEF IInv, Working

\* A step that changes nothing keeps the invariant.
LEMMA StutterKeeps == ASSUME IInv, UNCHANGED vars PROVE IInv'
<1>1. UNCHANGED << grammar, table, pc, adjacent >>
  BY DEF vars, grammar, table
<1>2. /\ symbols' = symbols /\ G!StartItems' = G!StartItems /\ G!Item' = G!Item
      /\ \A S, c : /\ G!StateAction(G!StatesetMove(S, c))' = G!StateAction(G!StatesetMove(S, c))
                   /\ G!Targets(G!StatesetMove(S, c))' = G!Targets(G!StatesetMove(S, c))
      /\ PossiblePairs' = PossiblePairs
  BY <1>1, ItemsStay, ClosuresStay, ActionsStay, PairsStay DEF grammar
<1>3. SymbolsOK' /\ RulesOK' /\ CallsOK' /\ ExpansionExact'
  BY <1>1 DEF IInv, SymbolsOK, RulesOK, CallsOK, ExpansionExact, grammar
<1>4. Working' = Working /\ UNCHANGED << queue, visited, numbers, mapping >>
  BY <1>1 DEF Working, table
<1>5. ASSUME Working PROVE RowsOK' /\ QueueOK' /\ VisitedOK' /\ NumbersOK'
  <2>1. RowsOK /\ QueueOK /\ VisitedOK /\ NumbersOK
    BY <1>5 DEF IInv
  <2>2. RowsOK'
    BY <1>2, <1>4, <2>1 DEF RowsOK
  <2>3. QueueOK'
    BY <1>1, <1>4, <2>1 DEF QueueOK
  <2>4. VisitedOK'
    BY <1>2, <1>4, <2>1 DEF VisitedOK
  <2>5. NumbersOK'
    BY <1>2, <1>4, <2>1 DEF NumbersOK
  <2>. QED
    BY <2>2, <2>3, <2>4, <2>5
<1>. QED
  BY <1>1, <1>2, <1>3, <1>4, <1>5 DEF IInv

------------------------------------------------------------------------------
(* The theorems *)

\* The invariant of building a table: what the calls leave behind is a grammar,
\* and the sets that the loop has met have their rows or wait for them, once.
THEOREM GeneratorInvariance == Spec => []IInv
<1>1. Init => IInv
  BY InitHolds
<1>2. IInv /\ [Next]_vars => IInv'
  <2> SUFFICES ASSUME IInv, [Next]_vars PROVE IInv'
    OBVIOUS
  <2>1. CASE \E d \in Definitions, p \in 0..MaxPriority : p <= priority /\ AddRule(d, p)
    BY <2>1, AddRuleKeeps
  <2>2. CASE DecPriority \/ \E s \in Starts : AddStartSymbol(s)
    BY <2>2, CallsKeep
  <2>3. CASE Generate
    BY <2>3, GenerateKeeps
  <2>4. CASE StartState
    BY <2>4, StartStateKeeps
  <2>5. CASE Row
    BY <2>5, RowKeeps
  <2>6. CASE Generated
    <3>1. /\ UNCHANGED << grammar, table >> /\ pc = "table" /\ pc' \in {"done", "assert"}
          /\ queue = << >> /\ adjacent' \in {{}, PossiblePairs}
      BY <2>6 DEF Generated, IInv
    <3>. QED
      BY <3>1, TableStays
  <2>7. CASE Query
    <3>1. /\ UNCHANGED << grammar, table >> /\ pc = "done" /\ pc' \in {"done", "assert"}
          /\ adjacent' \in {{}, PossiblePairs}
      BY <2>7 DEF Query
    <3>2. queue = << >>
      BY <3>1 DEF IInv, Working, QueueOK
    <3>. QED
      BY <3>1, <3>2, TableStays
  <2>8. CASE UNCHANGED vars
    BY <2>8, StutterKeeps
  <2>. QED
    BY <2>1, <2>2, <2>3, <2>4, <2>5, <2>6, <2>7, <2>8 DEF Next, Build
<1>. QED
  BY <1>1, <1>2, PTL DEF Spec

\* Every call of add_rule makes the rules of all the ways to leave out optional
\* symbols, with their decisions where the symbols have moved to, and no others.
THEOREM ExpansionIsExact == Spec => []ExpansionExact
<1>1. IInv => ExpansionExact
  BY DEF IInv
<1>. QED
  BY <1>1, GeneratorInvariance, PTL

\* Every entry of the table goes to a state that has a row, or is queued for
\* one; no two states share a number; at the end the rows are the numbered sets,
\* and the assertion that counts them holds.
THEOREM TableIsClosed == Spec => []TableClosed
<1>1. ASSUME IInv, pc \in {"table", "done", "assert"}
      PROVE  \A e \in Entries : AllStates(e) \subseteq DOMAIN mapping \cup Range(queue)
  <2>1. RowsOK /\ QueueOK
    BY <1>1 DEF IInv, Working
  <2>2. \A S : PlainStates(G!PlainAction(S)) = G!PlainTargets(S)
    BY DEF PlainStates, EntryStates, G!PlainTargets
  <2>3. \A M : AllStates(G!StateAction(M)) \subseteq G!Targets(M)
    <3> TAKE M
    <3> DEFINE e == G!StateAction(M)
    <3>1. CASE G!RequireEval(M) = {}
      <4>1. e = G!PlainAction(M)
        BY <3>1 DEF G!StateAction
      <4>2. e.type # "DECISION"
        BY <4>1 DEF G!PlainAction, G!REJECT, G!SHIFT, G!REDUCE, G!LOOKAHEAD
      <4>3. M \in G!Resolutions(M)
        BY <3>1 DEF G!Resolutions
      <4> HIDE DEF e
      <4>4. AllStates(e) = G!PlainTargets(M)
        BY <2>2, <4>1, <4>2 DEF AllStates
      <4>. QED
        BY <4>3, <4>4 DEF G!Targets, e
    <3>2. CASE G!RequireEval(M) # {}
      <4>1. /\ e.type = "DECISION" /\ DOMAIN e.action = SUBSET G!RequireEval(M)
            /\ \A D \in SUBSET G!RequireEval(M) :
                  e.action[D] = G!PlainAction(M \ D) /\ M \ D \in G!Resolutions(M)
        BY <3>2 DEF G!StateAction, G!Resolutions
      <4> HIDE DEF e
      <4>2. \A D \in DOMAIN e.action : PlainStates(e.action[D]) \subseteq G!Targets(M)
        <5>1. \A R \in G!Resolutions(M) : G!PlainTargets(R) \subseteq G!Targets(M)
          BY DEF G!Targets
        <5>2. ASSUME NEW D \in DOMAIN e.action
              PROVE  PlainStates(e.action[D]) \subseteq G!Targets(M)
          <6>1. M \ D \in G!Resolutions(M) /\ e.action[D] = G!PlainAction(M \ D)
            BY <4>1
          <6>2. PlainStates(e.action[D]) = G!PlainTargets(M \ D)
            BY <2>2, <6>1
          <6>. QED
            BY <5>1, <6>1, <6>2
        <5>. QED
          BY <5>2
      <4>3. AllStates(e) \subseteq G!Targets(M)
        BY <4>1, <4>2 DEF AllStates
      <4>. QED
        BY <4>3 DEF e
    <3>. QED
      BY <3>1, <3>2
  <2>4. ASSUME NEW S \in DOMAIN mapping, NEW c \in symbols
        PROVE  AllStates(mapping[S][c]) \subseteq visited
    <3>1. mapping[S][c] = G!StateAction(G!StatesetMove(S, c))
          /\ G!Targets(G!StatesetMove(S, c)) \subseteq visited
      BY <2>1 DEF RowsOK
    <3>. QED
      BY <2>3, <3>1
  <2>5. visited \subseteq DOMAIN mapping \cup Range(queue)
    BY <2>1 DEF QueueOK
  <2>. QED
    BY <2>4, <2>5 DEF Entries
<1>2. ASSUME IInv, pc \in {"table", "done", "assert"}
      PROVE  /\ \A S \in DOMAIN numbers : numbers[S] \in 0..Cardinality(DOMAIN numbers) - 1
             /\ \A S, T \in DOMAIN numbers : numbers[S] = numbers[T] => S = T
             /\ pc # "table" => DOMAIN mapping = DOMAIN numbers
  <2>1. RowsOK /\ QueueOK /\ NumbersOK
    BY <1>2 DEF IInv, Working
  <2>2. /\ \A S \in DOMAIN numbers : numbers[S] \in 0..Cardinality(DOMAIN numbers) - 1
        /\ \A S, T \in DOMAIN numbers : numbers[S] = numbers[T] => S = T
    BY <2>1 DEF NumbersOK, IsInjective
  <2>3. ASSUME pc # "table" PROVE DOMAIN mapping = DOMAIN numbers
    <3>1. queue = << >>
      BY <1>2, <2>1, <2>3 DEF QueueOK
    <3>2. Range(queue) = {}
      BY <3>1 DEF Range
    <3>. QED
      BY <2>1, <3>2 DEF RowsOK, QueueOK, NumbersOK
  <2>. QED
    BY <2>2, <2>3
<1>3. Init => LoopAssertionHolds
  BY DEF Init, LoopAssertionHolds
<1>4. IInv /\ LoopAssertionHolds /\ [Next]_vars => LoopAssertionHolds'
  <2> SUFFICES ASSUME IInv, LoopAssertionHolds, [Next]_vars, pc' = "assert"
               PROVE  adjacent' # {}
    BY DEF LoopAssertionHolds
  <2>1. CASE Generated
    <3>1. /\ pc = "table" /\ queue = << >>
          /\ Cardinality(DOMAIN mapping) # Cardinality(DOMAIN numbers)
      BY <2>1 DEF Generated
    <3>2. RowsOK /\ QueueOK /\ NumbersOK /\ Range(queue) = {}
      BY <3>1 DEF IInv, Working, Range
    <3>. QED
      BY <3>1, <3>2 DEF RowsOK, QueueOK, NumbersOK
  <2>2. CASE Query
    BY <2>2 DEF Query, IInv
  <2>3. CASE UNCHANGED vars
    BY <2>3 DEF LoopAssertionHolds, vars
  <2>4. pc' # "assert" \/ UNCHANGED << pc, adjacent >>
        \/ Generated \/ Query \/ UNCHANGED vars
    BY DEF Next, Build, AddRule, DecPriority, AddStartSymbol, Generate, StartState, Row
  <2>. QED
    BY <2>1, <2>2, <2>3, <2>4 DEF LoopAssertionHolds
<1>5. IInv /\ LoopAssertionHolds => TableClosed
  BY <1>1, <1>2 DEF TableClosed
<1>. QED
  BY <1>3, <1>4, <1>5, GeneratorInvariance, PTL DEF Spec

\* The table that is done keeps the promises the parser relies on: with this,
\* what is proved of DCParserRun holds of every parser that generate_table makes.
THEOREM GeneratedIsSound == Spec => []GeneratedSound
<1>1. ASSUME IInv, pc = "done"
      PROVE  G!IsGrammar /\ G!IsSound(CHOOSE S \in DOMAIN numbers : numbers[S] = 0)
  <2> DEFINE start == CHOOSE S \in DOMAIN numbers : numbers[S] = 0
  <2>1. G!IsGrammar
    BY <1>1, GrammarHolds
  <2>2. RowsOK /\ QueueOK /\ VisitedOK /\ NumbersOK /\ queue = << >>
    BY <1>1 DEF IInv, Working, QueueOK
  <2>3. DOMAIN mapping = visited /\ DOMAIN numbers = visited
    <3>1. Range(queue) = {}
      BY <2>2 DEF Range
    <3>. QED
      BY <2>2, <3>1 DEF RowsOK, QueueOK, NumbersOK
  <2>4. start = G!StartItems
    <3>1. G!StartItems \in DOMAIN numbers /\ numbers[G!StartItems] = 0
      BY <2>2, <2>3 DEF NumbersOK
    <3>2. \A S \in DOMAIN numbers : numbers[S] = 0 => S = G!StartItems
      BY <2>2, <3>1 DEF NumbersOK, IsInjective
    <3>. QED
      BY <3>1, <3>2
  <2>5. G!Symbols = symbols
    BY <1>1 DEF G!Symbols, IInv, SymbolsOK
  <2>6. L!IsBuilt
    <3>1. G!StartItems \in DOMAIN mapping
      BY <2>2, <2>3, <2>4 DEF NumbersOK
    <3>2. DOMAIN mapping \subseteq SUBSET G!Item
      BY <2>2, <2>3 DEF VisitedOK
    <3>3. \A s \in DOMAIN mapping : [S \in DOMAIN mapping |-> S][s] = s
      OBVIOUS
    <3>4. \A s \in DOMAIN mapping : \A c \in G!Symbols :
             /\ mapping[s][c] = G!StateAction(G!StatesetMove(s, c))
             /\ G!Targets(G!StatesetMove(s, c)) \subseteq DOMAIN mapping
      BY <2>2, <2>3, <2>5 DEF RowsOK
    <3>5. \A s \in DOMAIN mapping :
             s = G!StartItems \/ \E t \in DOMAIN mapping, c \in G!Symbols :
                                   s \in G!Targets(G!StatesetMove(t, c))
      BY <2>2, <2>3, <2>5 DEF VisitedOK
    <3>. QED
      BY <3>1, <3>2, <3>3, <3>4, <3>5, SameItems, SameClosures, SameActions, Zenon
         DEF L!IsBuilt
  <2>7. L!IsSound(start)
    BY <2>1, <2>4, <2>6, SamePromises, SameClosures, L!TablesAreSound
  <2>. QED
    BY <2>1, <2>7, SamePromises
<1>2. IInv => GeneratedSound
  BY <1>1 DEF GeneratedSound
<1>. QED
  BY <1>2, GeneratorInvariance, PTL

\* A token that is given as possible next to another can stand there.
THEOREM AdjacentIsSound == Spec => []AdjacentSound
<1>1. ASSUME IInv PROVE AdjacentSound
  <2>1. adjacent = {} \/ adjacent = PossiblePairs
    BY <1>1 DEF IInv
  <2>. QED
    BY <1>1, <2>1, PairsStand DEF AdjacentSound
<1>. QED
  BY <1>1, GeneratorInvariance, PTL

==============================================================================
