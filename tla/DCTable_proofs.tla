---------------------------- MODULE DCTable_proofs -----------------------------
(****************************************************************************)
(* The tables that generate_table builds keep the promises feed(), end() and *)
(* reset() rely on, for every grammar.                                       *)
(****************************************************************************)
EXTENDS DCTable, TLAPS, FiniteSetTheorems, WellFoundedInduction

------------------------------------------------------------------------------
(* What generate_table makes of a grammar *)

\* A row for the start items and for every item set some entry goes to, and in a
\* row the entry of the item set that the symbol moves to.  The numbers that
\* SetStateAllocator gives out are one-to-one with the item sets.
IsBuilt ==
    /\ StartItems \in States /\ States \subseteq SUBSET Item
    /\ \A s \in States : StateItems[s] = s
    /\ \A s \in States : \A c \in Symbols :
          /\ Table[s][c] = StateAction(StatesetMove(s, c))
          /\ Targets(StatesetMove(s, c)) \subseteq States
    /\ \A s \in States :
          s = StartItems \/ \E t \in States, c \in Symbols : s \in Targets(StatesetMove(t, c))

------------------------------------------------------------------------------
(* Numbers *)

\* A set of numbers that is not empty has a least one.
LEMMA Least ==
  ASSUME NEW S \in SUBSET Nat, S # {}
  PROVE  \E n \in S : \A m \in S : n <= m
<1> DEFINE R == OpToRel(<, Nat)
<1>1. IsWellFoundedOn(R, Nat)
  BY NatLessThanWellFounded
<1>2. \A m, n \in Nat : m < n => <<m, n>> \in R
  BY DEF OpToRel
<1> HIDE DEF R
<1>3. PICK n \in S : \A m \in S : <<m, n>> \notin R
  BY <1>1, WFMin
<1>4. \A m \in S : ~(m < n)
  BY <1>2, <1>3
<1>. QED
  BY <1>3, <1>4

\* A set that has 0, and n + 1 with every n below the bound, has them all.
LEMMA Induction ==
  ASSUME NEW b \in Nat, NEW S, 0 \in S, \A n \in S : n \in 0..b /\ n + 1 <= b => n + 1 \in S
  PROVE  0..b \subseteq S
<1>1. SUFFICES ASSUME (0..b) \ S # {} PROVE FALSE
  OBVIOUS
<1>2. PICK n \in (0..b) \ S : \A m \in (0..b) \ S : n <= m
  <2> DEFINE T == (0..b) \ S
  <2>1. T \in SUBSET Nat /\ T # {}
    BY <1>1
  <2> HIDE DEF T
  <2>2. \E n \in T : \A m \in T : n <= m
    BY <2>1, Least
  <2>. QED
    BY <2>2 DEF T
<1>3. n \in 0..b /\ n \notin S /\ n # 0
  BY <1>2
<1>4. n - 1 \in 0..b /\ n - 1 < n /\ (n - 1) + 1 = n
  BY <1>3
<1>5. n - 1 \in S
  BY <1>2, <1>4
<1>6. (n - 1) + 1 <= b
  BY <1>3, <1>4
<1>7. (n - 1) + 1 \in S
  BY <1>4, <1>5, <1>6
<1>. QED
  BY <1>3, <1>4, <1>7

------------------------------------------------------------------------------
(* Closures *)

Opened(R) == R \cup {r \in RuleId : Lhs(r) \in {Rhs(q)[1] : q \in R}}

\* The rounds of Openings, up to the n-th.
Rounds(c, n, round) ==
    round = [k \in 0..n |-> IF k = 0 THEN {r \in RuleId : Lhs(r) = c}
                                     ELSE Opened(round[k - 1])]

\* Any number of rounds can be made.
LEMMA RoundsExist ==
  ASSUME NEW c, NEW b \in Nat
  PROVE  \E round : Rounds(c, b, round)
<1> DEFINE S == {n \in Nat : \E round : Rounds(c, n, round)}
<1>1. 0 \in S
  <2>1. Rounds(c, 0, [k \in 0..0 |-> {r \in RuleId : Lhs(r) = c}])
    BY DEF Rounds
  <2>. QED
    BY <2>1
<1>2. ASSUME NEW n \in S PROVE n + 1 \in S
  <2>1. PICK f : Rounds(c, n, f)
    BY <1>2
  <2> DEFINE g == [k \in 0..(n + 1) |-> IF k = n + 1 THEN Opened(f[n]) ELSE f[k]]
  <2>2. n \in Nat /\ n + 1 \in Nat
    OBVIOUS
  <2>3. ASSUME NEW k \in 0..(n + 1)
        PROVE  g[k] = IF k = 0 THEN {r \in RuleId : Lhs(r) = c} ELSE Opened(g[k - 1])
    <3>1. CASE k = n + 1
      <4>1. k # 0 /\ k - 1 = n /\ n \in 0..(n + 1) /\ n # n + 1
        BY <2>2, <3>1
      <4>2. g[k - 1] = f[n]
        BY <4>1
      <4>. QED
        BY <3>1, <4>1, <4>2
    <3>2. CASE k # n + 1
      <4>1. k \in 0..n /\ (k # 0 => k - 1 \in 0..(n + 1) /\ k - 1 # n + 1)
        BY <2>2, <3>2
      <4>2. g[k] = f[k] /\ (k # 0 => g[k - 1] = f[k - 1])
        BY <4>1, <3>2
      <4>3. f[k] = IF k = 0 THEN {r \in RuleId : Lhs(r) = c} ELSE Opened(f[k - 1])
        BY <4>1, <2>1 DEF Rounds
      <4>. QED
        BY <4>2, <4>3
    <3>. QED
      BY <3>1, <3>2
  <2>4. Rounds(c, n + 1, g)
    <3>1. g = [k \in 0..(n + 1) |-> g[k]]
      OBVIOUS
    <3> HIDE DEF g
    <3>. QED
      BY <2>3, <3>1 DEF Rounds
  <2>. QED
    BY <2>2, <2>4
<1>3. 0..b \subseteq S
  <2> HIDE DEF S
  <2>. QED
    BY <1>1, <1>2, Induction
<1>. QED
  BY <1>3

\* The symbols of a right side: never the real start symbol.
LEMMA RuleFacts ==
  ASSUME IsGrammar, NEW r \in RuleId
  PROVE  /\ r \in Nat /\ Lhs(r) \in Nonterms /\ Rules[r].prio \in Nat
         /\ Len(Rhs(r)) \in Nat /\ Len(Rhs(r)) > 0
         /\ \A k \in 1..Len(Rhs(r)) : Rhs(r)[k] \in Symbols \ {RealStart}
<1>1. Rhs(r) \in Seq(Symbols \ {RealStart}) /\ Rhs(r) # << >>
  BY DEF IsGrammar
<1>2. Len(Rhs(r)) \in Nat /\ Len(Rhs(r)) > 0
  BY <1>1
<1>3. \A k \in 1..Len(Rhs(r)) : Rhs(r)[k] \in Symbols \ {RealStart}
  BY <1>1
<1>. QED
  BY <1>2, <1>3 DEF IsGrammar

\* What opens a phrase of c: rules of c, and of symbols of right sides.
LEMMA OpeningsFacts ==
  ASSUME IsGrammar, NEW c
  PROVE  Openings(c) \subseteq {r \in RuleId : Lhs(r) = c \/ Lhs(r) # RealStart}
<1> DEFINE b == Cardinality(Nonterms)
           Fit == {r \in RuleId : Lhs(r) = c \/ Lhs(r) # RealStart}
<1>1. b \in Nat
  BY FS_CardinalityType DEF IsGrammar
<1>2. Openings(c) = (CHOOSE round : Rounds(c, b, round))[b]
  BY Zenon DEF Openings, Rounds, Opened
<1> HIDE DEF b
<1>3. PICK round : Rounds(c, b, round) /\ Openings(c) = round[b]
  BY <1>1, <1>2, RoundsExist
<1>4. \A k \in 0..b : round[k] = IF k = 0 THEN {r \in RuleId : Lhs(r) = c}
                                          ELSE Opened(round[k - 1])
  BY <1>3 DEF Rounds
<1> DEFINE S == {k \in 0..b : round[k] \subseteq Fit}
<1>5. 0 \in S
  <2>1. 0 \in 0..b /\ round[0] = {r \in RuleId : Lhs(r) = c}
    <3>1. 0 \in 0..b
      BY <1>1
    <3>. QED
      BY <1>4, <3>1, Zenon
  <2>2. round[0] \subseteq Fit
    BY <2>1
  <2> HIDE DEF Fit
  <2>. QED
    BY <2>1, <2>2
<1>6. ASSUME NEW k \in S, k + 1 <= b PROVE k + 1 \in S
  <2>1. k \in 0..b /\ k + 1 \in 0..b /\ k + 1 # 0 /\ (k + 1) - 1 = k /\ round[k] \subseteq Fit
    BY <1>1, <1>6
  <2>2. round[k + 1] = Opened(round[k])
    BY <1>4, <2>1
  <2>3. \A q \in round[k] : Rhs(q)[1] # RealStart
    BY <2>1, RuleFacts
  <2>4. Opened(round[k]) \subseteq Fit
    BY <2>1, <2>3 DEF Opened
  <2>. QED
    BY <2>1, <2>2, <2>4
<1>7. 0..b \subseteq S
  <2> HIDE DEF S
  <2>. QED
    BY <1>1, <1>5, <1>6, Induction
<1>. QED
  BY <1>1, <1>3, <1>7

------------------------------------------------------------------------------
(* Item sets *)

\* An item of the set that t moves to over c.
Follows(t, c, i) ==
    /\ i \in Item
    /\ \/ i[2] = 0 /\ Lhs(i[1]) # RealStart
       \/ i[2] > 0 /\ <<i[1], i[2] - 1>> \in t /\ Rhs(i[1])[i[2]] = c

\* The items of a closure are at the beginning of their rules.
LEMMA EpsilonFacts ==
  ASSUME IsGrammar, NEW x
  PROVE  \A i \in EpsilonClosure(x) : /\ i \in Item /\ i[2] = 0 /\ ~Completed(i)
                                      /\ Lhs(i[1]) = x \/ Lhs(i[1]) # RealStart
<1> SUFFICES ASSUME NEW i \in EpsilonClosure(x)
             PROVE  /\ i \in Item /\ i[2] = 0 /\ ~Completed(i)
                    /\ Lhs(i[1]) = x \/ Lhs(i[1]) # RealStart
  OBVIOUS
<1>1. i \in Openings(x) \X {0}
  BY DEF EpsilonClosure
<1>2. i[1] \in RuleId /\ i[2] = 0 /\ (Lhs(i[1]) = x \/ Lhs(i[1]) # RealStart)
  BY <1>1, OpeningsFacts
<1>3. i \in RuleId \X Nat
  BY <1>1, <1>2
<1>. QED
  BY <1>2, <1>3, RuleFacts DEF Item, Completed

\* The symbol behind the dot.
LEMMA AfterDotFacts ==
  ASSUME IsGrammar, NEW i \in Item, ~Completed(i)
  PROVE  AfterDot(i) \in Symbols \ {RealStart}
<1>1. i[1] \in RuleId /\ i[2] \in Nat /\ i[2] <= Len(Rhs(i[1])) /\ i[2] # Len(Rhs(i[1]))
  BY DEF Item, Completed
<1>2. i[2] + 1 \in 1..Len(Rhs(i[1]))
  BY <1>1, RuleFacts
<1>. QED
  BY <1>1, <1>2, RuleFacts DEF AfterDot

\* The closure of what follows follows.
LEMMA OpenedFollows ==
  ASSUME IsGrammar, NEW t, NEW c, NEW i, Follows(t, c, i), ~Completed(i)
  PROVE  \A j \in EpsilonClosure(AfterDot(i)) : Follows(t, c, j) /\ ~Completed(j)
<1>1. AfterDot(i) # RealStart
  BY AfterDotFacts DEF Follows
<1>. QED
  BY <1>1, EpsilonFacts DEF Follows

\* The items that StatesetMove advances, and what they bring in.
LEMMA MoveFollows ==
  ASSUME IsGrammar, NEW t \in SUBSET Item, NEW c
  PROVE  \A i \in StatesetMove(t, c) : Follows(t, c, i)
<1> DEFINE kernel == {<<i[1], i[2] + 1>> : i \in {j \in t : ~Completed(j) /\ AfterDot(j) = c}}
<1>1. ASSUME NEW i \in kernel PROVE Follows(t, c, i)
  <2>1. PICK j \in t : ~Completed(j) /\ AfterDot(j) = c /\ i = <<j[1], j[2] + 1>>
    BY <1>1
  <2>2. /\ j \in RuleId \X Nat /\ j[1] \in RuleId /\ j[2] \in Nat
        /\ j[2] <= Len(Rhs(j[1])) /\ j[2] # Len(Rhs(j[1])) /\ j = <<j[1], j[2]>>
    BY <2>1 DEF Item, Completed
  <2>3. Len(Rhs(j[1])) \in Nat
    BY <2>2, RuleFacts
  <2>4. i[1] = j[1] /\ i[2] = j[2] + 1 /\ i[2] > 0 /\ i[2] - 1 = j[2] /\ i[2] <= Len(Rhs(i[1]))
    BY <2>1, <2>2, <2>3
  <2>5. i \in Item
    BY <2>1, <2>2, <2>4 DEF Item
  <2>6. Rhs(i[1])[i[2]] = c
    BY <2>1, <2>4 DEF AfterDot
  <2>. QED
    BY <2>1, <2>2, <2>4, <2>5, <2>6 DEF Follows
<1>2. StatesetMove(t, c) = kernel \cup UNION {EpsilonClosure(AfterDot(i)) :
                                                i \in {j \in kernel : ~Completed(j)}}
  BY DEF StatesetMove
<1> HIDE DEF kernel
<1>. QED
  BY <1>1, <1>2, OpenedFollows

\* The start items begin rules.
LEMMA StartFacts ==
  ASSUME IsGrammar
  PROVE  \A i \in StartItems : i \in Item /\ i[2] = 0 /\ ~Completed(i)
  BY EpsilonFacts DEF StartItems

------------------------------------------------------------------------------
(* Entries *)

\* An item set the entry may go to, with t and c as in Follows.
Goes(t, c, Q) == \A i \in Q : Follows(t, c, i) /\ ~Completed(i)

\* What prevails over a completed rule.
LEMMA KeptFollows ==
  ASSUME IsGrammar, NEW t, NEW c, NEW S, \A i \in S : Follows(t, c, i), NEW r
  PROVE  Goes(t, c, Kept(S, r))
<1>1. \A i \in Prevailing(S, r) : Follows(t, c, i) /\ ~Completed(i)
  BY DEF Prevailing
<1>2. \A i \in StatesetEpsilonClosure(Prevailing(S, r)) : Follows(t, c, i) /\ ~Completed(i)
  BY <1>1, OpenedFollows DEF StatesetEpsilonClosure
<1>. QED
  BY <1>1, <1>2 DEF Kept, Goes

\* The completed rule of highest priority is one of them.
LEMMA BestFacts ==
  ASSUME IsGrammar, NEW t, NEW c, NEW S, \A i \in S : Follows(t, c, i), CompletedRules(S) # {}
  PROVE  /\ Best(S) \in RuleId /\ Len(Rhs(Best(S))) > 0
         /\ <<Best(S), Len(Rhs(Best(S))) - 1>> \in t
         /\ Rhs(Best(S))[Len(Rhs(Best(S)))] = c
<1> DEFINE C == CompletedRules(S)
           P == {Rules[r].prio : r \in C}
<1>1. C \subseteq RuleId
  BY DEF CompletedRules, Follows, Item
<1>2. P \subseteq Nat /\ P # {}
  BY <1>1, RuleFacts
<1>3. PICK n \in P : \A m \in P : n <= m
  <2> HIDE DEF P
  <2>. QED
    BY <1>2, Least
<1>4. \E r \in C : \A q \in C : Rules[r].prio <= Rules[q].prio
  BY <1>3
<1>5. Best(S) \in C
  BY <1>4 DEF Best
<1>6. PICK i \in S : Completed(i) /\ Best(S) = i[1]
  BY <1>5 DEF CompletedRules
<1>7. i[1] \in RuleId /\ i[2] = Len(Rhs(i[1])) /\ i[2] > 0
  BY <1>1, <1>5, <1>6, RuleFacts DEF Completed
<1>. QED
  BY <1>6, <1>7 DEF Follows

\* A shift or a reduction that follows.
ShiftOK(t, c, e)  == e.type = "SHIFT" /\ Goes(t, c, e.state)
ReduceOK(t, c, e) == /\ e.type = "REDUCE" /\ e.rule \in RuleId /\ Len(Rhs(e.rule)) > 0
                     /\ <<e.rule, Len(Rhs(e.rule)) - 1>> \in t
                     /\ Rhs(e.rule)[Len(Rhs(e.rule))] = c

\* The plain entries of an item set, and the item sets they go to.
LEMMA PlainFacts ==
  ASSUME IsGrammar, NEW t, NEW c, NEW S, \A i \in S : Follows(t, c, i),
         NEW e, e = PlainAction(S)
  PROVE  \/ e.type = "REJECT" /\ PlainTargets(S) = {}
         \/ ShiftOK(t, c, e) /\ PlainTargets(S) = {e.state}
         \/ ReduceOK(t, c, e) /\ PlainTargets(S) = {}
         \/ /\ e.type = "LOOKAHEAD" /\ DOMAIN e.next = Terms \cup {EOF}
            /\ \A x \in Terms \cup {EOF} :
                  \/ ShiftOK(t, c, e.next[x]) /\ e.next[x].state \in PlainTargets(S)
                  \/ ReduceOK(t, c, e.next[x])
            /\ \A Q \in PlainTargets(S) : Goes(t, c, Q)
<1> DEFINE r == Best(S)
<1>1. CASE S = {}
  BY <1>1 DEF PlainAction, PlainTargets, REJECT
<1>2. CASE S # {} /\ CompletedRules(S) = {}
  <2>1. e = SHIFT(S)
    BY <1>2 DEF PlainAction
  <2>2. \A i \in S : ~Completed(i)
    BY <1>2 DEF CompletedRules
  <2>. QED
    BY <2>1, <2>2 DEF PlainTargets, SHIFT, ShiftOK, Goes
<1>3. CASE S # {} /\ CompletedRules(S) # {} /\ Prevailing(S, r) = {}
  <2>1. e = REDUCE(r)
    BY <1>3 DEF PlainAction
  <2>2. e.type = "REDUCE" /\ e.rule = r
    BY <2>1 DEF REDUCE
  <2>3. ReduceOK(t, c, e)
    <3>1. /\ r \in RuleId /\ Len(Rhs(r)) > 0 /\ <<r, Len(Rhs(r)) - 1>> \in t
          /\ Rhs(r)[Len(Rhs(r))] = c
      BY <1>3, BestFacts
    <3> HIDE DEF r
    <3>. QED
      BY <2>2, <3>1 DEF ReduceOK
  <2>4. PlainTargets(S) = {}
    BY <2>2 DEF PlainTargets
  <2>. QED
    BY <2>3, <2>4
<1>4. CASE S # {} /\ CompletedRules(S) # {} /\ Prevailing(S, r) # {}
  <2> DEFINE f == [x \in Terms \cup {EOF} |->
                     IF x = EOF \/ StatesetMove(Kept(S, r), x) = {}
                     THEN REDUCE(r) ELSE SHIFT(Kept(S, r))]
             K == Kept(S, r)
  <2>1. e = LOOKAHEAD(f)
    BY <1>4 DEF PlainAction
  <2>2. ReduceOK(t, c, REDUCE(r))
    BY <1>4, BestFacts DEF REDUCE, ReduceOK
  <2>3. Goes(t, c, K) /\ ShiftOK(t, c, SHIFT(K)) /\ SHIFT(K).state = K
        /\ SHIFT(K).type = "SHIFT" /\ REDUCE(r).type = "REDUCE"
    BY KeptFollows DEF ShiftOK, SHIFT, REDUCE
  <2>4. e.type = "LOOKAHEAD" /\ e.next = f /\ DOMAIN e.next = Terms \cup {EOF}
    BY <2>1 DEF LOOKAHEAD
  <2>5. \A x \in Terms \cup {EOF} : e.next[x] = REDUCE(r) \/ e.next[x] = SHIFT(K)
    BY <2>4
  <2> HIDE DEF f, K, r
  <2>6. PlainTargets(S) = UNION {IF e.next[x].type = "SHIFT" THEN {e.next[x].state} ELSE {} :
                                   x \in DOMAIN e.next}
    BY <2>4 DEF PlainTargets
  <2>7. \A Q \in PlainTargets(S) : Goes(t, c, Q)
    <3>1. \A x \in Terms \cup {EOF} : e.next[x].type = "SHIFT" => e.next[x].state = K
      BY <2>3, <2>5
    <3>. QED
      BY <2>3, <2>4, <2>6, <3>1
  <2>8. ASSUME NEW x \in Terms \cup {EOF}
        PROVE  \/ ShiftOK(t, c, e.next[x]) /\ e.next[x].state \in PlainTargets(S)
               \/ ReduceOK(t, c, e.next[x])
    <3>1. CASE e.next[x] = SHIFT(K)
      BY <2>3, <2>4, <2>6, <3>1
    <3>. QED
      BY <2>2, <2>5, <3>1
  <2>. QED
    BY <2>4, <2>7, <2>8
<1>. QED
  BY <1>1, <1>2, <1>3, <1>4

\* Where entries go, whatever the decisions eliminate.
LEMMA TargetsGo ==
  ASSUME IsGrammar, NEW t \in SUBSET Item, NEW c
  PROVE  \A Q \in Targets(StatesetMove(t, c)) : Goes(t, c, Q)
<1> DEFINE M == StatesetMove(t, c)
<1>1. \A R \in Resolutions(M) : \A i \in R : Follows(t, c, i)
  BY MoveFollows DEF Resolutions
<1>2. \A R \in Resolutions(M) : \A Q \in PlainTargets(R) : Goes(t, c, Q)
  <2> TAKE R \in Resolutions(M)
  <2> DEFINE e == PlainAction(R)
  <2>1. e = PlainAction(R) /\ \A i \in R : Follows(t, c, i)
    BY <1>1
  <2> HIDE DEF e, M
  <2>. QED
    BY <2>1, PlainFacts, Zenon DEF ShiftOK
<1>. QED
  BY <1>2 DEF Targets

\* A state of a table has no completed item.
LEMMA StateFacts ==
  ASSUME IsGrammar, IsBuilt, NEW s \in States
  PROVE  s \subseteq Item /\ \A i \in s : ~Completed(i)
<1>1. s \in SUBSET Item
  BY DEF IsBuilt
<1>2. CASE s = StartItems
  BY <1>1, <1>2, StartFacts
<1>3. CASE \E t \in States, c \in Symbols : s \in Targets(StatesetMove(t, c))
  <2>1. PICK t \in States, c \in Symbols : s \in Targets(StatesetMove(t, c))
    BY <1>3
  <2>2. t \in SUBSET Item
    BY DEF IsBuilt
  <2>3. Goes(t, c, s)
    BY <2>1, <2>2, TargetsGo
  <2>. QED
    BY <1>1, <2>3 DEF Goes
<1>. QED
  BY <1>2, <1>3 DEF IsBuilt

\* A plain entry that stays within the states is sound.
LEMMA PlainIsSound ==
  ASSUME IsGrammar, IsBuilt, NEW s \in States, NEW c \in Symbols, NEW S,
         \A i \in S : Follows(s, c, i), PlainTargets(S) \subseteq States
  PROVE  PlainSound(s, c, PlainAction(S))
<1> DEFINE e == PlainAction(S)
<1>1. e = PlainAction(S)
  OBVIOUS
<1> HIDE DEF e
<1>2. \A Q \in States : StateItems[Q] = Q
  BY DEF IsBuilt
<1>3. \A x : ShiftOK(s, c, x) /\ x.state \in States => ShiftSound(s, c, x)
  BY <1>2 DEF ShiftOK, ShiftSound, Goes, Follows, Advances
<1>4. \A x : ReduceOK(s, c, x) => ReduceSound(s, c, x)
  <2> SUFFICES ASSUME NEW x, ReduceOK(s, c, x) PROVE ReduceSound(s, c, x)
    OBVIOUS
  <2>. QED
    BY <1>2, RuleFacts DEF ReduceOK, ReduceSound, Advances
<1>5. \/ e.type = "REJECT"
      \/ ShiftSound(s, c, e)
      \/ ReduceSound(s, c, e)
      \/ LookaheadSound(s, c, e)
  <2>1. \/ e.type = "REJECT"
        \/ ShiftOK(s, c, e) /\ PlainTargets(S) = {e.state}
        \/ ReduceOK(s, c, e)
        \/ /\ e.type = "LOOKAHEAD" /\ DOMAIN e.next = Terms \cup {EOF}
           /\ \A x \in Terms \cup {EOF} :
                 \/ ShiftOK(s, c, e.next[x]) /\ e.next[x].state \in PlainTargets(S)
                 \/ ReduceOK(s, c, e.next[x])
    BY <1>1, PlainFacts, Zenon
  <2>2. CASE ShiftOK(s, c, e) /\ PlainTargets(S) = {e.state}
    BY <1>3, <2>2
  <2>3. CASE /\ e.type = "LOOKAHEAD" /\ DOMAIN e.next = Terms \cup {EOF}
             /\ \A x \in Terms \cup {EOF} :
                   \/ ShiftOK(s, c, e.next[x]) /\ e.next[x].state \in PlainTargets(S)
                   \/ ReduceOK(s, c, e.next[x])
    <3>1. \A x \in Terms \cup {EOF} :
             ShiftSound(s, c, e.next[x]) \/ ReduceSound(s, c, e.next[x])
      BY <1>3, <1>4, <2>3
    <3>. QED
      BY <2>3, <3>1 DEF LookaheadSound
  <2>. QED
    BY <1>4, <2>1, <2>2, <2>3
<1>6. PlainSound(s, c, e)
  BY <1>5 DEF PlainSound, ShiftSound, ReduceSound, LookaheadSound
<1>. QED
  BY <1>1, <1>6

------------------------------------------------------------------------------
(* The theorem *)

\* Every table that generate_table builds of a grammar keeps the promises that
\* the runtime relies on: an entry shifts and reduces only what stands on the
\* stacks of a parser that comes to it, whatever the priorities and whatever the
\* decisions eliminate.
THEOREM TablesAreSound == ASSUME IsGrammar, IsBuilt PROVE IsSound(StartItems)
<1>1. StartItems \in States /\ \A i \in StateItems[StartItems] : i[2] = 0
  BY StartFacts DEF IsBuilt
<1>2. \A s \in States : StateItems[s] \subseteq {i \in Item : ~Completed(i)}
  BY StateFacts DEF IsBuilt
<1>3. ASSUME NEW s \in States, NEW c \in Symbols PROVE EntrySound(s, c, Table[s][c])
  <2> DEFINE S == StatesetMove(s, c)
             e == Table[s][c]
  <2>1. s \in SUBSET Item /\ e = StateAction(S) /\ Targets(S) \subseteq States
        /\ StateItems[s] = s
    BY DEF IsBuilt
  <2>2. \A i \in S : Follows(s, c, i)
    BY <2>1, MoveFollows
  <2> HIDE DEF S
  <2> SUFFICES EntrySound(s, c, e)
    OBVIOUS
  <2> HIDE DEF e
  <2>3. ASSUME NEW D \in SUBSET RequireEval(S) PROVE PlainSound(s, c, PlainAction(S \ D))
    <3>1. S \ D \in Resolutions(S)
      BY DEF Resolutions
    <3>2. PlainTargets(S \ D) \subseteq States
      BY <2>1, <3>1 DEF Targets
    <3>. QED
      BY <2>2, <3>2, PlainIsSound
  <2>4. CASE RequireEval(S) = {}
    <3>1. e = PlainAction(S) /\ S \ {} = S
      BY <2>1, <2>4 DEF StateAction
    <3>2. PlainSound(s, c, e)
      BY <2>3, <3>1
    <3>3. e.type # "DECISION"
      BY <3>2 DEF PlainSound, ShiftSound, ReduceSound, LookaheadSound
    <3>. QED
      BY <3>2, <3>3 DEF EntrySound, Resolved
  <2>5. CASE RequireEval(S) # {}
    <3>1. /\ e.type = "DECISION" /\ e.evals = RequireEval(S)
          /\ e.action = [D \in SUBSET RequireEval(S) |-> PlainAction(S \ D)]
      BY <2>1, <2>5 DEF StateAction
    <3>2. \A p \in Resolved(e) : PlainSound(s, c, p)
      BY <2>3, <3>1 DEF Resolved
    <3>3. \A i \in e.evals : i \in Item /\ (i[2] = 0 \/ Advances(s, c, i))
      BY <2>1, <2>2, <3>1 DEF RequireEval, Follows, Advances
    <3>. QED
      BY <3>2, <3>3 DEF EntrySound
  <2>. QED
    BY <2>4, <2>5
<1>. QED
  BY <1>1, <1>2, <1>3 DEF IsSound

==============================================================================
