-------------------------- MODULE DCParserRun_proofs --------------------------
(****************************************************************************)
(* Proofs about the pushdown machine of DCParser, for every grammar and      *)
(* every sound table: its stacks, and the tokens on their way through feed()  *)
(* and end(), of which none is lost, duplicated, overtaken or left from an    *)
(* earlier parse; and that it implements ShiftReduce, every step of feed(),   *)
(* end() and reset() being a step of a shift-reduce parser, or none.          *)
(****************************************************************************)
EXTENDS DCParserRefinement, SequenceTheorems, TLAPS

------------------------------------------------------------------------------
(* The stacks *)

\* A state stack holding only the start state claims nothing.
LEMMA ViableStart == Viable(<<StartState>>, << >>)
<1>1. \A i \in StateItems[StartState] : i \in Item /\ i[2] = 0
  BY TableSound DEF IsSound
<1>2. ASSUME NEW i \in StateItems[StartState]
      PROVE  Spelled(<<StartState>>, << >>, 1, i[1], i[2])
  <2>1. i[2] = 0 /\ i = <<i[1], 0>>
    BY <1>1, <1>2 DEF Item
  <2>. QED
    BY <2>1 DEF Spelled, Bottom
<1>. QED
  BY <1>2 DEF Viable, Bottom

\* Every item is a pair.
LEMMA ItemsOfStates ==
  \A s \in States : \A i \in StateItems[s] :
     i[1] \in RuleId /\ i[2] \in Nat /\ i = <<i[1], i[2]>>
  BY TableSound DEF Item, IsSound

\* One more char, and a state all of whose items are new or continue an item of
\* the state below, keep the stacks viable.
LEMMA ViableExtend ==
  ASSUME NEW ss, NEW cs, NEW ss2, NEW cs2, NEW n \in Nat \ {0}, NEW m \in Nat,
         NEW t \in States,
         Len(ss) = n, Len(ss2) = n + 1, Len(cs) = m, Len(cs2) = m + 1,
         \A j \in 1..n : ss[j] \in States /\ ss2[j] = ss[j],
         \A j \in 1..m : cs2[j] = cs[j],
         ss2[n + 1] = t,
         Viable(ss, cs),
         \A i \in StateItems[t] :
            \/ i[2] = 0 /\ Lhs(i[1]) # RealStart
            \/ Advances(ss[n], cs2[m + 1].id, i)
  PROVE  Viable(ss2, cs2)
<1>1. PICK d \in Nat : d = m - (n - 1) /\ Bottom(ss, cs) = d /\ Bottom(ss2, cs2) = d
  BY DEF Bottom, Viable
<1>2. ASSUME NEW j \in 1..n, NEW i \in StateItems[ss2[j]]
      PROVE  /\ Spelled(ss2, cs2, j, i[1], i[2])
             /\ j > 1 /\ i[2] = 0 => Lhs(i[1]) # RealStart
  <2>1. i \in StateItems[ss[j]] /\ ss[j] \in States
    BY <1>2
  <2>2. /\ Spelled(ss, cs, j, i[1], i[2])
        /\ j > 1 /\ i[2] = 0 => Lhs(i[1]) # RealStart
    BY <2>1 DEF Viable
  <2>3. i[2] \in Nat /\ i[2] < j
    BY <2>1, <2>2, ItemsOfStates DEF Spelled
  <2>4. \A k \in 0..i[2] : j - k \in 1..n
    BY <2>3
  <2>5. \A k \in 0..(i[2] - 1) : d + (j - 1) - k \in 1..m
    BY <2>3, <1>1
  <2>6. \A k \in 0..i[2] : <<i[1], i[2] - k>> \in StateItems[ss2[j - k]]
    BY <2>2, <2>4 DEF Spelled
  <2>7. \A k \in 0..(i[2] - 1) :
           cs2[Bottom(ss2, cs2) + (j - 1) - k].id = Rhs(i[1])[i[2] - k]
    BY <2>2, <2>5, <1>1 DEF Spelled
  <2>. QED
    BY <2>2, <2>3, <2>6, <2>7 DEF Spelled
<1>3. ASSUME NEW i \in StateItems[t]
      PROVE  /\ Spelled(ss2, cs2, n + 1, i[1], i[2])
             /\ i[2] = 0 => Lhs(i[1]) # RealStart
  <2>1. i[1] \in RuleId /\ i[2] \in Nat /\ i = <<i[1], i[2]>>
    BY ItemsOfStates
  <2>2. CASE i[2] = 0 /\ Lhs(i[1]) # RealStart
    <3>1. \A k \in 0..i[2] : <<i[1], i[2] - k>> \in StateItems[ss2[n + 1 - k]]
      <4>1. SUFFICES ASSUME NEW k \in 0..i[2]
                     PROVE  <<i[1], i[2] - k>> \in StateItems[ss2[n + 1 - k]]
        OBVIOUS
      <4>2. k = 0 /\ i[2] - k = i[2] /\ n + 1 - k = n + 1
        BY <2>1, <2>2
      <4>. QED
        BY <4>2, <2>1, Zenon
    <3>. QED
      BY <3>1, <2>2 DEF Spelled
  <2>3. CASE Advances(ss[n], cs2[m + 1].id, i)
    <3>1. PICK p \in Nat : /\ i[2] = p + 1 /\ <<i[1], p>> \in StateItems[ss[n]]
                           /\ Rhs(i[1])[p + 1] = cs2[m + 1].id
      <4>1. i[2] - 1 \in Nat /\ i[2] = (i[2] - 1) + 1
        BY <2>1, <2>3 DEF Advances
      <4>. QED
        BY <4>1, <2>3 DEF Advances
    <3>2. Spelled(ss, cs, n, i[1], p)
      BY <3>1 DEF Viable
    <3>3. p < n
      BY <3>2 DEF Spelled
    <3>4. ASSUME NEW k \in 0..i[2]
          PROVE  <<i[1], i[2] - k>> \in StateItems[ss2[n + 1 - k]]
      <4>1. CASE k = 0
        BY <4>1, <2>1
      <4>2. CASE k # 0
        <5>1. k - 1 \in 0..p /\ p - (k - 1) = i[2] - k
              /\ n - (k - 1) = n + 1 - k /\ n + 1 - k \in 1..n
          BY <4>2, <3>1, <3>3
        <5>2. <<i[1], p - (k - 1)>> \in StateItems[ss[n - (k - 1)]]
          BY <5>1, <3>2 DEF Spelled
        <5>. QED
          BY <5>1, <5>2
      <4>. QED
        BY <4>1, <4>2
    <3>5. ASSUME NEW k \in 0..(i[2] - 1)
          PROVE  cs2[d + ((n + 1) - 1) - k].id = Rhs(i[1])[i[2] - k]
      <4>1. CASE k = 0
        <5>1. d + ((n + 1) - 1) - k = m + 1 /\ i[2] - k = p + 1
          BY <4>1, <1>1, <3>1
        <5>. QED
          BY <5>1, <3>1
      <4>2. CASE k # 0
        <5>1. /\ k - 1 \in 0..(p - 1) /\ p - (k - 1) = i[2] - k
              /\ d + (n - 1) - (k - 1) = d + ((n + 1) - 1) - k
              /\ d + (n - 1) - (k - 1) \in 1..m
          BY <4>2, <3>1, <3>3, <1>1
        <5>2. cs[d + (n - 1) - (k - 1)].id = Rhs(i[1])[p - (k - 1)]
          BY <5>1, <3>2, <1>1 DEF Spelled
        <5>. QED
          BY <5>1, <5>2
      <4>. QED
        BY <4>1, <4>2
    <3>6. i[2] # 0 /\ i[2] < n + 1
      BY <3>1, <3>3
    <3>7. \A k \in 0..(i[2] - 1) :
             cs2[Bottom(ss2, cs2) + ((n + 1) - 1) - k].id = Rhs(i[1])[i[2] - k]
      BY <3>5, <1>1
    <3>. QED
      BY <3>4, <3>6, <3>7 DEF Spelled
  <2>. QED
    BY <2>2, <2>3
<1>4. \A k \in 1..d : cs2[k].id = RealStart
  BY <1>1 DEF Viable
<1>5. ss2[1] = StartState
  BY DEF Viable
<1>6. ASSUME NEW j \in 1..Len(ss2), NEW i \in StateItems[ss2[j]]
      PROVE  /\ Spelled(ss2, cs2, j, i[1], i[2])
             /\ j > 1 /\ i[2] = 0 => Lhs(i[1]) # RealStart
  <2>1. CASE j \in 1..n
    BY <2>1, <1>2, <1>6
  <2>2. CASE j = n + 1
    BY <2>2, <1>3, <1>6
  <2>. QED
    BY <2>1, <2>2
<1>. QED
  BY <1>1, <1>4, <1>5, <1>6 DEF Viable

\* A shift pushes one char and one state.
LEMMA ViableShift ==
  ASSUME NEW ss \in Seq(States), ss # << >>, NEW cs \in Seq(DChar),
         Viable(ss, cs),
         NEW c \in DChar, NEW e, ShiftSound(ss[Len(ss)], c.id, e)
  PROVE  Viable(Append(ss, e.state), Append(cs, c))
<1>1. Len(ss) \in Nat \ {0} /\ Len(cs) \in Nat /\ e.state \in States
  BY EmptySeq DEF ShiftSound
<1>2. \A j \in 1..Len(ss) : ss[j] \in States /\ Append(ss, e.state)[j] = ss[j]
  BY <1>1
<1>3. /\ Len(Append(ss, e.state)) = Len(ss) + 1
      /\ Append(ss, e.state)[Len(ss) + 1] = e.state
      /\ Len(Append(cs, c)) = Len(cs) + 1
      /\ \A j \in 1..Len(cs) : Append(cs, c)[j] = cs[j]
      /\ Append(cs, c)[Len(cs) + 1] = c
  BY <1>1
<1>4. \A i \in StateItems[e.state] :
         \/ i[2] = 0 /\ Lhs(i[1]) # RealStart
         \/ Advances(ss[Len(ss)], Append(cs, c)[Len(cs) + 1].id, i)
  BY <1>3 DEF ShiftSound
<1>. QED
  BY <1>1, <1>2, <1>3, <1>4, ViableExtend

\* Taking the same number of states and chars off the stacks, never all states.
LEMMA ViableCut ==
  ASSUME NEW ss \in Seq(States), NEW cs \in Seq(DChar), Viable(ss, cs),
         NEW k \in 0..(Len(ss) - 1)
  PROVE  /\ k <= Len(cs)
         /\ Viable(SubSeq(ss, 1, Len(ss) - k), SubSeq(cs, 1, Len(cs) - k))
<1> DEFINE ss2 == SubSeq(ss, 1, Len(ss) - k)
           cs2 == SubSeq(cs, 1, Len(cs) - k)
<1>1. PICK d \in Nat : d = Len(cs) - (Len(ss) - 1) /\ Bottom(ss, cs) = d
  <2>1. Bottom(ss, cs) \in Nat
    <3>1. Len(ss) \in Nat /\ Len(cs) \in Nat
      OBVIOUS
    <3>2. Bottom(ss, cs) >= 0
      BY DEF Viable
    <3>. QED
      BY <3>1, <3>2 DEF Bottom
  <2>. QED
    BY <2>1 DEF Bottom
<1>2. k <= Len(cs)
  BY <1>1
<1>3. /\ Len(ss2) = Len(ss) - k /\ \A j \in 1..Len(ss2) : ss2[j] = ss[j]
      /\ Len(cs2) = Len(cs) - k /\ \A j \in 1..Len(cs2) : cs2[j] = cs[j]
  BY <1>2
<1> HIDE DEF ss2, cs2
<1>4. Bottom(ss2, cs2) = d /\ d <= Len(cs2)
  BY <1>1, <1>3 DEF Bottom
<1>5. \A j \in 1..d : cs2[j].id = RealStart
  <2>1. \A j \in 1..d : cs[j].id = RealStart
    BY <1>1 DEF Viable
  <2>2. \A j \in 1..d : j \in 1..Len(cs2)
    BY <1>1, <1>3, <1>4
  <2>. QED
    BY <2>1, <2>2, <1>3
<1>6. ss2[1] = StartState
  BY <1>3 DEF Viable
<1>7. ASSUME NEW j \in 1..Len(ss2), NEW i \in StateItems[ss2[j]]
      PROVE  /\ Spelled(ss2, cs2, j, i[1], i[2])
             /\ j > 1 /\ i[2] = 0 => Lhs(i[1]) # RealStart
  <2>1. j \in 1..Len(ss) /\ i \in StateItems[ss[j]] /\ ss[j] \in States
    BY <1>3
  <2>2. /\ Spelled(ss, cs, j, i[1], i[2])
        /\ j > 1 /\ i[2] = 0 => Lhs(i[1]) # RealStart
    BY <2>1 DEF Viable
  <2>3. i[2] \in Nat /\ i[2] < j
    BY <2>1, <2>2, ItemsOfStates DEF Spelled
  <2>4. \A q \in 0..i[2] : j - q \in 1..Len(ss2)
    BY <2>3
  <2>5. \A q \in 0..(i[2] - 1) : d + (j - 1) - q \in 1..Len(cs2)
    BY <2>3, <1>1, <1>3
  <2>6. \A q \in 0..i[2] : <<i[1], i[2] - q>> \in StateItems[ss2[j - q]]
    BY <2>2, <2>4, <1>3 DEF Spelled
  <2>7. \A q \in 0..(i[2] - 1) :
           cs2[Bottom(ss2, cs2) + (j - 1) - q].id = Rhs(i[1])[i[2] - q]
    BY <2>2, <2>5, <1>1, <1>3, <1>4 DEF Spelled
  <2>. QED
    BY <2>2, <2>3, <2>6, <2>7 DEF Spelled
<1>8. Viable(ss2, cs2)
  BY <1>4, <1>5, <1>6, <1>7 DEF Viable
<1>. QED
  BY <1>2, <1>8 DEF ss2, cs2

\* What stands before the dot of an item that the state on top is about to reach
\* over char c is on the stacks, and below its states is a state in which its rule
\* begins.
LEMMA ItemFits ==
  ASSUME NEW ss \in Seq(States), ss # << >>, NEW cs \in Seq(DChar),
         Viable(ss, cs),
         NEW c \in DChar, NEW r \in RuleId, NEW n \in Nat,
         Advances(ss[Len(ss)], c.id, <<r, n>>)
  PROVE  /\ n # 0 /\ n <= Len(ss) /\ n <= Len(cs) + 1
         /\ \A k \in 1..n : Append(cs, c)[Len(cs) + 1 - n + k].id = Rhs(r)[k]
         /\ <<r, 0>> \in StateItems[ss[Len(ss) + 1 - n]]
<1>1. PICK p \in Nat : /\ n = p + 1
                       /\ <<r, p>> \in StateItems[ss[Len(ss)]]
                       /\ Rhs(r)[n] = c.id
  <2>1. n - 1 \in Nat /\ n = (n - 1) + 1
    BY DEF Advances
  <2>. QED
    BY <2>1 DEF Advances
<1>2. Len(ss) \in Nat \ {0} /\ Len(cs) \in Nat
  BY EmptySeq
<1>3. Spelled(ss, cs, Len(ss), r, p)
  BY <1>1, <1>2 DEF Viable
<1>4. PICK d \in Nat : d = Len(cs) - (Len(ss) - 1) /\ Bottom(ss, cs) = d
  <2>1. Bottom(ss, cs) = Len(cs) - (Len(ss) - 1) /\ Bottom(ss, cs) >= 0
    BY DEF Bottom, Viable
  <2>2. Bottom(ss, cs) \in Nat
    BY <2>1, <1>2
  <2>. QED
    BY <2>1, <2>2
<1>5. n # 0 /\ n <= Len(ss) /\ n <= Len(cs) + 1
  BY <1>1, <1>2, <1>3, <1>4 DEF Spelled
<1>6. <<r, 0>> \in StateItems[ss[Len(ss) + 1 - n]]
  <2>1. p \in 0..p /\ p - p = 0 /\ Len(ss) - p = Len(ss) + 1 - n
    BY <1>1, <1>2
  <2>. QED
    BY <2>1, <1>3 DEF Spelled
<1>7. ASSUME NEW k \in 1..n
      PROVE  Append(cs, c)[Len(cs) + 1 - n + k].id = Rhs(r)[k]
  <2>1. CASE k = n
    <3>1. Len(cs) + 1 - n + k = Len(cs) + 1
      BY <2>1, <1>2
    <3>. QED
      BY <3>1, <2>1, <1>1, <1>2
  <2>2. CASE k # n
    <3>1. /\ p - k \in 0..(p - 1) /\ p - (p - k) = k
          /\ d + (Len(ss) - 1) - (p - k) = Len(cs) + 1 - n + k
          /\ Len(cs) + 1 - n + k \in 1..Len(cs)
      BY <2>2, <1>1, <1>2, <1>4, <1>5
    <3>2. cs[d + (Len(ss) - 1) - (p - k)].id = Rhs(r)[p - (p - k)]
      BY <3>1, <1>3, <1>4 DEF Spelled
    <3>. QED
      BY <3>1, <3>2
  <2>. QED
    BY <2>1, <2>2
<1>. QED
  BY <1>5, <1>6, <1>7

\* The right side of the rule a sound entry reduces is on the stacks.
LEMMA ReduceFits ==
  ASSUME NEW ss \in Seq(States), ss # << >>, NEW cs \in Seq(DChar),
         Viable(ss, cs),
         NEW c \in DChar, NEW e, ReduceSound(ss[Len(ss)], c.id, e)
  PROVE  LET n == Len(Rhs(e.rule)) IN
         /\ n \in Nat \ {0} /\ n <= Len(ss) /\ n <= Len(cs) + 1
         /\ \A k \in 1..n : Append(cs, c)[Len(cs) + 1 - n + k].id = Rhs(e.rule)[k]
         /\ <<e.rule, 0>> \in StateItems[ss[Len(ss) + 1 - n]]
<1>1. e.rule \in RuleId /\ Len(Rhs(e.rule)) \in Nat
  BY GrammarAssumption DEF ReduceSound, IsGrammar
<1>2. Advances(ss[Len(ss)], c.id, <<e.rule, Len(Rhs(e.rule))>>)
  BY DEF ReduceSound
<1>. QED
  BY <1>1, <1>2, ItemFits

\* The start symbol joins the char stack once only the start state is left.
LEMMA ViableDone ==
  ASSUME NEW ss \in Seq(States), Len(ss) = 1, NEW cs \in Seq(DChar),
         Viable(ss, cs), NEW c \in DChar, c.id = RealStart
  PROVE  Viable(ss, Append(cs, c))
<1>1. Len(cs) \in Nat /\ ss[1] = StartState
  BY DEF Viable
<1>2. /\ Bottom(ss, cs) = Len(cs) /\ Bottom(ss, Append(cs, c)) = Len(cs) + 1
  BY <1>1 DEF Bottom
<1>3. \A k \in 1..(Len(cs) + 1) : Append(cs, c)[k].id = RealStart
  BY <1>1, <1>2 DEF Viable
<1>4. ASSUME NEW i \in StateItems[StartState]
      PROVE  Spelled(ss, Append(cs, c), 1, i[1], i[2])
  <2>1. i[2] = 0 /\ i = <<i[1], 0>>
    BY TableSound, ItemsOfStates DEF IsSound
  <2>. QED
    BY <2>1, <1>1 DEF Spelled
<1>. QED
  BY <1>1, <1>2, <1>3, <1>4 DEF Viable

------------------------------------------------------------------------------
(* Chars *)

\* The fields of a DChar; the eos of end() is one, the absent char is not.
LEMMA CharFacts ==
  /\ None \notin DChar /\ None.toks = {}
  /\ EOS \in DChar
  /\ \A c \in DChar : /\ c.id \in Symbols \cup Tokens \cup {EOF}
                       /\ c.toks \subseteq Int
                       /\ c.parts \subseteq RuleId \X SUBSET Int
  BY CallerAssumption DEF DChar, None, EOS

\* The positions below chars are integers.
LEMMA PositionsAreInts ==
  ASSUME NEW s \in Seq(DChar)
  PROVE  PositionsOf(s) \subseteq Int
  BY CharFacts DEF PositionsOf

\* What a reduce callback returns is a char with the id of its rule's left
\* side.
LEMMA ReductionIsChar ==
  ASSUME NEW r \in RuleId, NEW kids \in Seq(DChar)
  PROVE  Reduction(r, kids) \in DChar /\ Reduction(r, kids).id = Lhs(r)
<1>1. Lhs(r) \in Symbols
  BY GrammarAssumption DEF Symbols, IsGrammar
<1>2. UNION {kids[k].parts : k \in DOMAIN kids} \subseteq RuleId \X SUBSET Int
  <2>1. \A k \in DOMAIN kids : kids[k].parts \subseteq RuleId \X SUBSET Int
    BY CharFacts
  <2>. QED
    BY <2>1
<1>3. <<r, PositionsOf(kids)>> \in RuleId \X SUBSET Int
  BY PositionsAreInts
<1>. QED
  BY <1>1, <1>2, <1>3, PositionsAreInts DEF Reduction, DChar

------------------------------------------------------------------------------
(* Steps that leave the stacks alone *)

\* A step that changes neither stack keeps the viable prefix, whatever it does
\* to the rest.
LEMMA StacksKept ==
  ASSUME IInv, UNCHANGED <<stacks, p_not_finished>>
  PROVE  ViablePrefix' /\ PendingOK'
  BY DEF IInv, ViablePrefix, PendingOK, stacks, IsPending, Top

\* An assertion about the caller that fails ends the run in a state that still
\* satisfies the invariant.
LEMMA AbortKeeps ==
  ASSUME IInv, NEW a, Abort(a),
         a \notin {"do_reduce", "feed_internal", "catch", "realstart"}
  PROVE  IInv'
<1>1. ViablePrefix' /\ PendingOK'
  BY StacksKept DEF Abort, object, stacks
<1>2. TypeOK' /\ ControlOK' /\ RecoverOK' /\ SavedOK' /\ OwnAssertionsHold'
  BY DEF IInv, Abort, object, stacks, locals, ghosts, TypeOK, ControlOK, RecoverOK,
         SavedOK, OwnAssertionsHold, IsPending, CallPoints, EndPoints, Fresh
<1>. QED
  BY <1>1, <1>2 DEF IInv

\* An exception that leaves the call keeps the invariant.
LEMMA ThrowKeeps ==
  ASSUME IInv, UNCHANGED object, NEW o, NEW lost, lost \subseteq Int, Throw(o, lost),
         o \notin {"none", "fed", "do_reduce", "feed_internal", "catch", "realstart"}
  PROVE  IInv'
<1>1. ViablePrefix' /\ PendingOK'
  BY StacksKept DEF object, stacks
<1>2. arg.toks \subseteq Int /\ cur.toks \subseteq Int
  BY CharFacts DEF IInv, TypeOK
<1>3. TypeOK'
  BY <1>2 DEF IInv, Throw, Return, NoLocals, object, stacks, TypeOK
<1>4. ControlOK' /\ RecoverOK' /\ SavedOK' /\ OwnAssertionsHold'
  BY DEF IInv, Throw, Return, NoLocals, object, stacks, ControlOK, RecoverOK,
         SavedOK, OwnAssertionsHold, IsPending, CallPoints, EndPoints, Fresh
<1>. QED
  BY <1>1, <1>3, <1>4 DEF IInv

\* Entering feed().
LEMMA FeedCallKeeps == ASSUME ~GoesOn, IInv, FeedCall PROVE IInv'
<1>1. ViablePrefix' /\ PendingOK'
  BY StacksKept DEF FeedCall, object, stacks
<1>2. PICK t \in Tokens :
        /\ tok' = [id |-> t, toks |-> {base + Len(fed) + 1}, parts |-> {}]
        /\ fed' = Append(fed, t)
  BY DEF FeedCall
<1>3. tok' \in DChar
  BY <1>2 DEF IInv, TypeOK, DChar
<1>4. TypeOK'
  BY <1>2, <1>3 DEF IInv, FeedCall, object, stacks, TypeOK, CallPoints
<1>5. ControlOK' /\ RecoverOK' /\ SavedOK' /\ OwnAssertionsHold'
  BY <1>3, CharFacts DEF IInv, FeedCall, object, stacks, ControlOK, RecoverOK,
     SavedOK, OwnAssertionsHold, IsPending, CallPoints, EndPoints, Fresh
<1>. QED
  BY <1>1, <1>4, <1>5 DEF IInv

\* Taking the next saved token in the loop of feed().
LEMMA NextSavedKeeps == ASSUME IInv, NextSaved PROVE IInv'
<1>1. ViablePrefix' /\ PendingOK'
  BY StacksKept DEF NextSaved
<1>2. m_prevSave # << >> => Head(m_prevSave) \in DChar /\ Tail(m_prevSave) \in Seq(DChar)
  BY HeadTailProperties DEF IInv, TypeOK
<1>3. TypeOK'
  BY <1>2 DEF IInv, NextSaved, stacks, ghosts, TypeOK, CallPoints
<1>4. ControlOK' /\ RecoverOK' /\ SavedOK' /\ OwnAssertionsHold'
  BY <1>2, CharFacts DEF IInv, NextSaved, stacks, ControlOK, RecoverOK,
     SavedOK, OwnAssertionsHold, IsPending, CallPoints, EndPoints, Fresh
<1>. QED
  BY <1>1, <1>3, <1>4 DEF IInv

\* Handing the token to feed_internal: nothing waits for a lookahead then.
LEMMA FeedTokenKeeps == ASSUME IInv, FeedToken PROVE IInv'
<1>1. ViablePrefix' /\ PendingOK'
  BY StacksKept DEF FeedToken, object, stacks
<1>2. TypeOK' /\ ControlOK' /\ RecoverOK' /\ SavedOK' /\ OwnAssertionsHold'
  BY DEF IInv, FeedToken, object, stacks, ghosts, TypeOK, ControlOK, RecoverOK,
         SavedOK, OwnAssertionsHold, IsPending, CallPoints, EndPoints, Fresh
<1>. QED
  BY <1>1, <1>2 DEF IInv

\* The recursive call at the end of feed().
LEMMA FeedAgainKeeps == ASSUME IInv, FeedAgain PROVE IInv'
<1>1. ViablePrefix' /\ PendingOK'
  BY StacksKept DEF FeedAgain
<1>2. m_prevSave # << >> => Head(m_prevSave) \in DChar /\ Tail(m_prevSave) \in Seq(DChar)
  BY HeadTailProperties DEF IInv, TypeOK
<1>3. TypeOK'
  BY <1>2 DEF IInv, FeedAgain, Return, NoLocals, stacks, ghosts, TypeOK, CallPoints
<1>4. ControlOK' /\ RecoverOK' /\ SavedOK' /\ OwnAssertionsHold'
  BY <1>2, CharFacts DEF IInv, FeedAgain, Return, NoLocals, stacks, ControlOK,
     RecoverOK, SavedOK, OwnAssertionsHold, IsPending, CallPoints, EndPoints, Fresh
<1>. QED
  BY <1>1, <1>3, <1>4 DEF IInv

\* Entering end(), which saves its eos.
LEMMA EndCallKeeps == ASSUME ~GoesOn, IInv, EndCall PROVE IInv'
<1>1. CASE p_state_stack = << >>
  BY <1>1, ThrowKeeps DEF EndCall, object, stacks
<1>2. CASE Abort("end")
  BY <1>2, AbortKeeps
<1>3. CASE /\ p_state_stack # << >> /\ outcome' = "running"
           /\ m_prevSave' = Append(m_prevSave, EOS)
           /\ pc' = IF m_need_recover THEN "end_recover" ELSE "end_loop"
           /\ UNCHANGED <<locals, ghosts>>
  <2>0. UNCHANGED <<stacks, p_not_finished, m_need_recover>> /\ pc = "idle" /\ Fresh
    BY DEF EndCall
  <2>1. ViablePrefix' /\ PendingOK'
    BY <2>0, StacksKept
  <2>2. TypeOK'
    BY <1>3, <2>0, CharFacts DEF IInv, stacks, locals, ghosts, TypeOK, EndPoints
  <2>3. IsPending => m_prevSave' = <<EOS>>
    BY <1>3, <2>0 DEF IInv, SavedOK
  <2>4. ControlOK' /\ RecoverOK' /\ SavedOK' /\ OwnAssertionsHold'
    BY <1>3, <2>0, <2>3 DEF IInv, stacks, locals, ControlOK, RecoverOK,
       SavedOK, OwnAssertionsHold, IsPending, CallPoints, EndPoints, Fresh
  <2>. QED
    BY <2>1, <2>2, <2>4 DEF IInv
<1>. QED
  BY <1>1, <1>2, <1>3 DEF EndCall

\* Taking the next saved token in the loop of end().
LEMMA EndNextSavedKeeps == ASSUME IInv, EndNextSaved PROVE IInv'
<1>1. ViablePrefix' /\ PendingOK'
  BY StacksKept DEF EndNextSaved
<1>2. m_prevSave # << >> =>
        /\ Head(m_prevSave) \in DChar /\ Tail(m_prevSave) \in Seq(DChar)
        /\ Len(m_prevSave) <= 1 => Tail(m_prevSave) = << >>
  BY HeadTailProperties, EmptySeq DEF IInv, TypeOK
<1>3. TypeOK'
  BY <1>2 DEF IInv, EndNextSaved, stacks, ghosts, TypeOK, EndPoints
<1>4. ControlOK' /\ RecoverOK' /\ SavedOK' /\ OwnAssertionsHold'
  BY <1>2, CharFacts DEF IInv, EndNextSaved, stacks, ControlOK, RecoverOK,
     SavedOK, OwnAssertionsHold, IsPending, CallPoints, EndPoints, Fresh
<1>. QED
  BY <1>1, <1>3, <1>4 DEF IInv

\* end() lets a token go that nothing waits for.
LEMMA EndSkipKeeps == ASSUME IInv, EndSkip PROVE IInv'
<1>1. ViablePrefix' /\ PendingOK'
  BY StacksKept DEF EndSkip, object, stacks
<1>2. TypeOK' /\ ControlOK' /\ RecoverOK' /\ SavedOK' /\ OwnAssertionsHold'
  BY DEF IInv, EndSkip, object, stacks, ghosts, TypeOK, ControlOK, RecoverOK,
         SavedOK, OwnAssertionsHold, IsPending, CallPoints, EndPoints, Fresh
<1>. QED
  BY <1>1, <1>2 DEF IInv

\* After a lookahead in end(): no token is saved, so nothing is fed.
LEMMA EndFedKeeps == ASSUME IInv, EndFed PROVE IInv'
<1>1. ViablePrefix' /\ PendingOK'
  BY StacksKept DEF EndFed, object, stacks
<1>2. TypeOK' /\ ControlOK' /\ RecoverOK' /\ SavedOK' /\ OwnAssertionsHold'
  BY DEF IInv, EndFed, object, stacks, ghosts, TypeOK, ControlOK, RecoverOK,
         SavedOK, OwnAssertionsHold, IsPending, CallPoints, EndPoints, Fresh
<1>. QED
  BY <1>1, <1>2 DEF IInv

\* end() finds the start symbol: it stands alone on the char stack, and the chars
\* without a state are start symbols.
LEMMA EndCheckKeeps == ASSUME IInv, EndCheck PROVE IInv'
<1>1. UNCHANGED object
  BY DEF EndCheck
<1>2. CASE p_char_stack = << >> /\ ~NDebug
  BY <1>2, AbortKeeps DEF EndCheck
<1>3. CASE Len(p_char_stack) # 1 \/ Len(p_state_stack) > 1
  <2>1. Abort("end") \/ Throw("syntax", {})
    BY <1>3 DEF EndCheck
  <2>. QED
    BY <2>1, <1>1, AbortKeeps, ThrowKeeps
<1>4. CASE Len(p_char_stack) = 1 /\ ~(Len(p_state_stack) > 1)
  <2>1. p_char_stack # << >> /\ p_state_stack # << >> /\ pc = "end_check"
    BY <1>4 DEF IInv, ControlOK, EndCheck, EndPoints
  <2>2. Len(p_state_stack) = 1
    BY <1>4, <2>1, EmptySeq DEF IInv, TypeOK
  <2>3. p_char_stack[1].id = RealStart
    BY <1>4, <2>1, <2>2 DEF IInv, ViablePrefix, Viable, Bottom
  <2>4. Return("accept") /\ UNCHANGED ghosts
    BY <1>4, <2>1, <2>3 DEF EndCheck
  <2>5. ViablePrefix' /\ PendingOK'
    BY <1>1, StacksKept DEF object, stacks
  <2>6. TypeOK' /\ ControlOK' /\ RecoverOK' /\ SavedOK' /\ OwnAssertionsHold'
    BY <1>1, <2>4 DEF IInv, Return, NoLocals, object, stacks, ghosts, TypeOK, ControlOK,
       RecoverOK, SavedOK, OwnAssertionsHold, IsPending, CallPoints, EndPoints, Fresh
  <2>. QED
    BY <2>5, <2>6 DEF IInv
<1>. QED
  BY <1>2, <1>3, <1>4

------------------------------------------------------------------------------
(* Steps that cut the stacks or set them up *)

\* reset(): the stacks and the pending char are gone.
LEMMA ResetCallKeeps == ASSUME IInv, ResetCall PROVE IInv'
<1>1. ViablePrefix' /\ PendingOK'
  BY DEF ResetCall, ViablePrefix, PendingOK, IsPending, NothingPending, NotFinished
<1>2. TypeOK'
  BY DEF IInv, ResetCall, TypeOK, locals, NothingPending, NotFinished
<1>3. ControlOK' /\ RecoverOK' /\ SavedOK' /\ OwnAssertionsHold'
  BY DEF IInv, ResetCall, locals, NothingPending, NotFinished, ControlOK, RecoverOK,
     SavedOK, OwnAssertionsHold, IsPending, CallPoints, EndPoints, Fresh
<1>. QED
  BY <1>1, <1>2, <1>3 DEF IInv

\* The first state, the pre-action and the token saved.
LEMMA EnterKeeps == ASSUME IInv, Enter PROVE IInv'
<1>1. StartState \in States /\ tok \in DChar /\ tok.toks \subseteq Int
  BY TableSound, CharFacts DEF IInv, TypeOK, ControlOK, Enter, IsSound
<1>2. ViablePrefix'
  <2>1. CASE p_state_stack = << >>
    BY <2>1, ViableStart DEF IInv, ControlOK, Enter, ViablePrefix
  <2>2. CASE p_state_stack # << >>
    BY <2>2 DEF IInv, Enter, ViablePrefix
  <2>. QED
    BY <2>1, <2>2
<1>3. PendingOK'
  BY DEF IInv, ControlOK, Enter, PendingOK, IsPending, Top
<1>4. TypeOK'
  <2>1. p_state_stack' \in Seq(States)
    <3>1. <<StartState>> \in Seq(States)
      BY <1>1
    <3>. QED
      BY <3>1 DEF IInv, Enter, TypeOK
  <2>2. m_prevSave' \in Seq(DChar)
    <3>1. m_prevSave \in Seq(DChar) /\ Append(m_prevSave, tok) \in Seq(DChar)
      BY <1>1 DEF IInv, TypeOK
    <3>2. UNCHANGED m_prevSave \/ m_prevSave' = Append(m_prevSave, tok)
      BY DEF Enter
    <3>. QED
      BY <3>1, <3>2
  <2>3. gone' \subseteq Int
    BY <1>1 DEF IInv, Enter, TypeOK
  <2>. QED
    BY <2>1, <2>2, <2>3, <1>1 DEF IInv, Enter, Return, NoLocals, locals, TypeOK, CallPoints
<1>5. ControlOK' /\ RecoverOK' /\ SavedOK' /\ OwnAssertionsHold'
  BY <1>1, CharFacts DEF IInv, Enter, Return, NoLocals, locals, ControlOK, RecoverOK,
     SavedOK, OwnAssertionsHold, IsPending, CallPoints, EndPoints, Fresh
<1>. QED
  BY <1>2, <1>3, <1>4, <1>5 DEF IInv

\* An answer of m_recFn never takes off all the states.
LEMMA AnswerFacts ==
  ASSUME TypeOK, p_state_stack # << >>, NEW saved \in Seq(DChar),
         NEW a \in Answers(saved)
  PROVE  a.rm \in 0..(Len(p_state_stack) - 1) /\ a.take \in 0..Len(saved)
<1>1. 0 \in 0..(Len(p_state_stack) - 1) /\ 0 \in 0..Len(saved) /\ Len(saved) \in 0..Len(saved)
  BY EmptySeq DEF TypeOK
<1>. QED
  BY <1>1 DEF Answers

\* The stacks after an answer, and the positions it gives up.
LEMMA CutKeeps ==
  ASSUME IInv, p_state_stack # << >>, ~IsPending, NEW saved \in Seq(DChar),
         NEW a \in Answers(saved), Cut(a, saved)
  PROVE  /\ p_state_stack' \in Seq(States) /\ p_state_stack' # << >>
         /\ p_char_stack' \in Seq(DChar) /\ m_prevSave' \in Seq(DChar)
         /\ ViablePrefix' /\ PendingOK' /\ ~IsPending'
         /\ UNCHANGED p_not_finished
         /\ Dropped(a, saved) \subseteq Int
<1> DEFINE n == Len(p_state_stack)
           m == Len(p_char_stack)
<1>1. a.rm \in 0..(n - 1) /\ a.take \in 0..Len(saved)
  BY AnswerFacts DEF IInv
<1>2. Viable(p_state_stack, p_char_stack) /\ p_state_stack \in Seq(States)
      /\ p_char_stack \in Seq(DChar)
  BY DEF IInv, ViablePrefix, TypeOK
<1>3. /\ a.rm <= m
      /\ Viable(SubSeq(p_state_stack, 1, n - a.rm), SubSeq(p_char_stack, 1, m - a.rm))
  BY <1>1, <1>2, ViableCut
<1>4. n \in Nat /\ m \in Nat /\ Len(saved) \in Nat
  BY <1>2
<1>5. /\ p_state_stack' \in Seq(States) /\ Len(p_state_stack') = n - a.rm
      /\ p_state_stack' # << >>
  <2>1. p_state_stack' = SubSeq(p_state_stack, 1, n - a.rm)
    BY DEF Cut
  <2>2. 1 <= n - a.rm /\ n - a.rm \in Int
    BY <1>1, <1>4
  <2>3. \A i \in 1..(n - a.rm) : p_state_stack[i] \in States
    BY <1>1, <1>2, <1>4
  <2>4. p_state_stack' \in Seq(States) /\ Len(p_state_stack') = n - a.rm
    BY <2>1, <2>2, <2>3, SubSeqProperties
  <2>5. Len(p_state_stack') # 0
    BY <2>2, <2>4
  <2>. QED
    BY <2>4, <2>5, EmptySeq
<1>6. p_char_stack' \in Seq(DChar)
  BY <1>1, <1>2, <1>3, <1>4, SubSeqProperties DEF Cut
<1>7. m_prevSave' \in Seq(DChar)
  BY <1>1, <1>4, SubSeqProperties DEF Cut
<1>8. Dropped(a, saved) \subseteq Int
  <2>1. SubSeq(saved, 1, a.take) \in Seq(DChar)
    BY <1>1, <1>4, SubSeqProperties
  <2>2. SubSeq(p_char_stack, m - a.rm + 1, m) \in Seq(DChar)
    BY <1>1, <1>2, <1>3, <1>4, SubSeqProperties
  <2>. QED
    BY <2>1, <2>2, PositionsAreInts DEF Dropped
<1>9. ViablePrefix' /\ PendingOK' /\ ~IsPending' /\ UNCHANGED p_not_finished
  BY <1>3 DEF Cut, ViablePrefix, PendingOK, IsPending
<1>. QED
  BY <1>5, <1>6, <1>7, <1>8, <1>9

\* What an answer of the recovery function does keeps the invariant at the
\* point the call goes on from.
LEMMA RecoveryKeeps ==
  ASSUME IInv, NEW saved \in Seq(DChar), NEW a \in Answers(saved),
         \/ /\ pc = "recover" /\ Resume(a, saved, "loop")
         \/ /\ pc = "catch" /\ Resume(a, saved, "tail")
         \/ /\ pc = "end_recover" /\ Resume(a, saved, "end_loop")
         \/ /\ pc \in {"recover", "catch", "end_recover"}
            /\ \E o \in {"optional", "reject"} : GiveUp(a, saved, o)
  PROVE  IInv'
<1>1. p_state_stack # << >> /\ ~IsPending
  BY DEF IInv, ControlOK, RecoverOK, CallPoints, EndPoints
<1>2. Cut(a, saved) /\ m_need_recover' = FALSE
  BY DEF Resume, GiveUp
<1>3. /\ p_state_stack' \in Seq(States) /\ p_state_stack' # << >>
      /\ p_char_stack' \in Seq(DChar) /\ m_prevSave' \in Seq(DChar)
      /\ ViablePrefix' /\ PendingOK' /\ ~IsPending'
      /\ UNCHANGED p_not_finished
      /\ Dropped(a, saved) \subseteq Int
  BY <1>1, <1>2, CutKeeps
<1>4. arg.toks \subseteq Int /\ cur.toks \subseteq Int
  BY CharFacts DEF IInv, TypeOK
<1>5. TypeOK'
  BY <1>2, <1>3, <1>4 DEF IInv, Resume, GiveUp, Throw, Return, NoLocals, TypeOK,
     CallPoints, EndPoints
<1>6. ControlOK' /\ RecoverOK' /\ SavedOK' /\ OwnAssertionsHold'
  BY <1>2, <1>3 DEF IInv, Resume, GiveUp, Throw, Return, NoLocals, ControlOK,
     RecoverOK, SavedOK, OwnAssertionsHold, CallPoints, EndPoints, Fresh
<1>. QED
  BY <1>3, <1>5, <1>6 DEF IInv

\* The recovery shown a saved rejection by feed().
LEMMA RecoverOnFeedKeeps == ASSUME IInv, RecoverOnFeed PROVE IInv'
<1>1. PICK a \in Answers(m_prevSave) :
        \/ Abort("recover_from_reject")
        \/ Resume(a, m_prevSave, "loop")
        \/ GiveUp(a, m_prevSave, "optional")
        \/ Return("fed") /\ UNCHANGED <<object, ghosts>>
  BY DEF RecoverOnFeed
<1>2. pc = "recover" /\ m_prevSave \in Seq(DChar)
  BY DEF RecoverOnFeed, IInv, TypeOK
<1>3. CASE Abort("recover_from_reject")
  BY <1>3, AbortKeeps
<1>4. CASE Resume(a, m_prevSave, "loop") \/ GiveUp(a, m_prevSave, "optional")
  BY <1>4, <1>2, RecoveryKeeps
<1>5. CASE Return("fed") /\ UNCHANGED <<object, ghosts>>
  <2>1. ViablePrefix' /\ PendingOK'
    BY <1>5, StacksKept DEF object, stacks
  <2>2. TypeOK' /\ ControlOK' /\ RecoverOK' /\ SavedOK' /\ OwnAssertionsHold'
    BY <1>2, <1>5 DEF IInv, Return, NoLocals, object, stacks, ghosts, TypeOK, ControlOK,
       RecoverOK, SavedOK, OwnAssertionsHold, IsPending, CallPoints, EndPoints, Fresh
  <2>. QED
    BY <2>1, <2>2 DEF IInv
<1>. QED
  BY <1>1, <1>3, <1>4, <1>5

\* The recovery in the catch block of feed().
LEMMA RecoverOnCatchKeeps == ASSUME IInv, RecoverOnCatch PROVE IInv'
<1> DEFINE saved == Append(m_prevSave, tok)
<1>1. pc = "catch" /\ saved \in Seq(DChar) /\ ~m_need_recover /\ ~IsPending
  BY DEF RecoverOnCatch, IInv, TypeOK, ControlOK, RecoverOK
<1>2. PICK a \in Answers(saved) :
        \/ Abort("recover_from_reject")
        \/ Resume(a, saved, "tail")
        \/ GiveUp(a, saved, "reject")
        \/ /\ m_prevSave' = saved /\ m_need_recover' = TRUE
           /\ Return("fed")
           /\ UNCHANGED <<stacks, p_not_finished, ghosts>>
  BY <1>1 DEF RecoverOnCatch
<1> HIDE DEF saved
<1>3. CASE Abort("recover_from_reject")
  BY <1>3, AbortKeeps
<1>4. CASE Resume(a, saved, "tail") \/ GiveUp(a, saved, "reject")
  BY <1>4, <1>1, RecoveryKeeps
<1>5. CASE /\ m_prevSave' = saved /\ m_need_recover' = TRUE
           /\ Return("fed")
           /\ UNCHANGED <<stacks, p_not_finished, ghosts>>
  <2>1. ViablePrefix' /\ PendingOK'
    BY <1>5, StacksKept
  <2>2. TypeOK' /\ ControlOK' /\ RecoverOK' /\ SavedOK' /\ OwnAssertionsHold'
    BY <1>1, <1>5 DEF IInv, Return, NoLocals, stacks, ghosts, TypeOK, ControlOK,
       RecoverOK, SavedOK, OwnAssertionsHold, IsPending, CallPoints, EndPoints, Fresh
  <2>. QED
    BY <2>1, <2>2 DEF IInv
<1>. QED
  BY <1>2, <1>3, <1>4, <1>5

\* The recovery in end().
LEMMA RecoverOnEndKeeps == ASSUME IInv, RecoverOnEnd PROVE IInv'
<1>1. PICK a \in Answers(m_prevSave) :
        \/ Abort("recover_from_reject")
        \/ Resume(a, m_prevSave, "end_loop")
        \/ GiveUp(a, m_prevSave, "optional")
  BY DEF RecoverOnEnd
<1>2. pc = "end_recover" /\ m_prevSave \in Seq(DChar)
  BY DEF RecoverOnEnd, IInv, TypeOK
<1>3. CASE Abort("recover_from_reject")
  BY <1>3, AbortKeeps
<1>4. CASE Resume(a, m_prevSave, "end_loop") \/ GiveUp(a, m_prevSave, "optional")
  BY <1>4, <1>2, RecoveryKeeps
<1>. QED
  BY <1>1, <1>3, <1>4

------------------------------------------------------------------------------
(* Steps that shift and reduce *)

\* The run may go on at control point b once the char at hand is dealt with.
GoesOnAt(b) ==
    /\ p_state_stack # << >> /\ ~m_need_recover
    /\ b \in {"loop", "ahead", "end_fed"}
    /\ b \in {"ahead", "end_fed"} => cur # None
    /\ b \in {"loop", "ahead"} => tok # None
    /\ b = "end_fed" => m_prevSave = << >>

\* do_shift of a char over a sound entry keeps the types of the stacks and the
\* viable prefix.
LEMMA ShiftStacks ==
  ASSUME IInv, p_state_stack # << >>, NEW c \in DChar, NEW e,
         ShiftSound(Top, c.id, e), DoShift(e.state, c)
  PROVE  /\ p_state_stack' \in Seq(States) /\ p_state_stack' # << >>
         /\ p_char_stack' \in Seq(DChar)
         /\ ViablePrefix'
<1>1. /\ p_state_stack \in Seq(States) /\ p_char_stack \in Seq(DChar)
      /\ Viable(p_state_stack, p_char_stack) /\ e.state \in States
  BY DEF IInv, TypeOK, ViablePrefix, ShiftSound
<1>2. Viable(Append(p_state_stack, e.state), Append(p_char_stack, c))
  BY <1>1, ViableShift DEF Top
<1>3. Append(p_state_stack, e.state) # << >>
  BY <1>1, AppendProperties
<1>. QED
  BY <1>1, <1>2, <1>3 DEF DoShift, ViablePrefix

\* What do_reduce leaves on the stacks, and the nonterminal it builds.
LEMMA ReduceStacks ==
  ASSUME NEW ss \in Seq(States), ss # << >>, NEW cs \in Seq(DChar),
         Viable(ss, cs), NEW c \in DChar, NEW e,
         ReduceSound(ss[Len(ss)], c.id, e)
  PROVE  LET n      == Len(Rhs(e.rule))
             chars  == Append(cs, c)
             states == Append(ss, StartState)
         IN
         /\ DoReduceAsserts(e.rule, chars, states)
         /\ SubSeq(states, 1, Len(states) - n) \in Seq(States)
         /\ SubSeq(states, 1, Len(states) - n) # << >>
         /\ SubSeq(chars, Len(chars) - n + 1, Len(chars)) \in Seq(DChar)
         /\ SubSeq(chars, 1, Len(chars) - n) \in Seq(DChar)
         /\ Viable(SubSeq(states, 1, Len(states) - n),
                   SubSeq(chars, 1, Len(chars) - n))
         /\ Lhs(e.rule) = RealStart => Len(SubSeq(states, 1, Len(states) - n)) = 1
<1>. SUFFICES ASSUME NEW n, n = Len(Rhs(e.rule)),
                     NEW chars, chars = Append(cs, c),
                     NEW states, states = Append(ss, StartState)
              PROVE  /\ DoReduceAsserts(e.rule, chars, states)
                     /\ SubSeq(states, 1, Len(states) - n) \in Seq(States)
                     /\ SubSeq(states, 1, Len(states) - n) # << >>
                     /\ SubSeq(chars, Len(chars) - n + 1, Len(chars)) \in Seq(DChar)
                     /\ SubSeq(chars, 1, Len(chars) - n) \in Seq(DChar)
                     /\ Viable(SubSeq(states, 1, Len(states) - n),
                               SubSeq(chars, 1, Len(chars) - n))
                     /\ Lhs(e.rule) = RealStart => Len(SubSeq(states, 1, Len(states) - n)) = 1
  OBVIOUS
<1>1. /\ n \in Nat \ {0} /\ n <= Len(ss) /\ n <= Len(cs) + 1
      /\ \A k \in 1..n : chars[Len(cs) + 1 - n + k].id = Rhs(e.rule)[k]
      /\ <<e.rule, 0>> \in StateItems[ss[Len(ss) + 1 - n]]
  <2>1. LET q == Len(Rhs(e.rule)) IN
        /\ q \in Nat \ {0} /\ q <= Len(ss) /\ q <= Len(cs) + 1
        /\ \A k \in 1..q : Append(cs, c)[Len(cs) + 1 - q + k].id = Rhs(e.rule)[k]
        /\ <<e.rule, 0>> \in StateItems[ss[Len(ss) + 1 - q]]
    BY ReduceFits, Zenon
  <2>. QED
    BY <2>1, Zenon
<1>2. Len(ss) \in Nat /\ Len(cs) \in Nat
  OBVIOUS
<1>3. /\ Len(chars) = Len(cs) + 1 /\ chars \in Seq(DChar)
      /\ \A j \in 1..Len(cs) : chars[j] = cs[j]
  BY AppendProperties
<1>4. /\ Len(states) = Len(ss) + 1 /\ states \in Seq(States)
      /\ \A j \in 1..Len(ss) : states[j] = ss[j]
  BY TableSound, AppendProperties DEF IsSound
<1>5. DoReduceAsserts(e.rule, chars, states)
  <2>1. n <= Len(chars) /\ n <= Len(states) /\ Len(chars) - n = Len(cs) + 1 - n
    BY <1>1, <1>2, <1>3, <1>4
  <2>2. \A k \in 1..n : chars[Len(chars) - n + k].id = Rhs(e.rule)[k]
    BY <2>1, <1>1
  <2>. QED
    BY <2>1, <2>2, Zenon DEF DoReduceAsserts
<1>6. n - 1 \in 0..(Len(ss) - 1) /\ Len(ss) - (n - 1) = Len(states) - n
      /\ Len(cs) - (n - 1) = Len(chars) - n
  BY <1>1, <1>2, <1>3, <1>4
<1> DEFINE a == Len(states) - n
           b == Len(chars) - n
<1>7. a \in 1..Len(ss) /\ b \in 0..Len(cs)
  BY <1>1, <1>2, <1>3, <1>4
<1>8. SubSeq(states, 1, a) = SubSeq(ss, 1, a) /\ SubSeq(chars, 1, b) = SubSeq(cs, 1, b)
  <2>1. \A j \in 1..a : states[j] = ss[j]
    BY <1>4, <1>7
  <2>2. \A j \in 1..b : chars[j] = cs[j]
    BY <1>3, <1>7
  <2>. QED
    BY <2>1, <2>2, <1>3, <1>4, <1>7
<1>9. Viable(SubSeq(ss, 1, a), SubSeq(cs, 1, b))
  BY <1>6, ViableCut
<1>10. /\ SubSeq(states, 1, a) \in Seq(States) /\ Len(SubSeq(states, 1, a)) = a
       /\ SubSeq(chars, 1, b) \in Seq(DChar)
  BY <1>3, <1>4, <1>7, <1>2, SubSeqProperties
<1>11. SubSeq(states, 1, a) # << >>
  BY <1>10, <1>7, EmptySeq
<1>12. SubSeq(chars, Len(chars) - n + 1, Len(chars)) \in Seq(DChar)
  BY <1>1, <1>2, <1>3, SubSeqProperties
<1>13. ASSUME Lhs(e.rule) = RealStart
       PROVE  Len(SubSeq(states, 1, a)) = 1
  <2>1. a \in 1..Len(ss) /\ Len(ss) + 1 - n = a
    BY <1>1, <1>2, <1>4, <1>7
  <2>2. ~(a > 1)
    BY <2>1, <1>1, <1>13 DEF Viable
  <2>. QED
    BY <2>1, <2>2, <1>10
<1>. QED
  BY <1>5, <1>8, <1>9, <1>10, <1>11, <1>12, <1>13

\* Reducing char c from the state on top, with the rest of the run at back.
LEMMA DoReduceKeeps ==
  ASSUME IInv, NEW c \in DChar, NEW e, ReduceSound(Top, c.id, e),
         NEW back, GoesOnAt(back),
         NEW waiting, waiting.char = None, DoReduce(e.rule, c, back, waiting)
  PROVE  IInv'
<1> DEFINE n      == Len(Rhs(e.rule))
           chars  == Append(p_char_stack, c)
           states == Append(p_state_stack, StartState)
           kids   == SubSeq(chars, Len(chars) - n + 1, Len(chars))
           below  == Below(e.rule, chars)
           left   == Below(e.rule, states)
           nt     == Reduction(e.rule, kids)
<1>1. /\ p_state_stack \in Seq(States) /\ p_char_stack \in Seq(DChar)
      /\ p_state_stack # << >> /\ e.rule \in RuleId
      /\ Viable(p_state_stack, p_char_stack)
  BY DEF IInv, TypeOK, ViablePrefix, GoesOnAt, ReduceSound
<1>2. /\ DoReduceAsserts(e.rule, chars, states)
      /\ left \in Seq(States) /\ left # << >>
      /\ kids \in Seq(DChar) /\ below \in Seq(DChar)
      /\ Viable(left, below)
      /\ Lhs(e.rule) = RealStart => Len(left) = 1
  <2>1. ReduceSound(p_state_stack[Len(p_state_stack)], c.id, e)
    BY DEF Top
  <2>. QED
    BY <1>1, <2>1, ReduceStacks, Zenon DEF Below
<1>3. /\ nt \in DChar /\ nt.id = Lhs(e.rule) /\ PositionsOf(kids) \subseteq Int
      /\ nt # None
  BY <1>1, <1>2, ReductionIsChar, PositionsAreInts, CharFacts
<1>4. /\ p_state_stack' = left
      /\ p_not_finished' = waiting
      /\ UNCHANGED <<m_prevSave, m_need_recover>>
      /\ \/ /\ p_char_stack' = below
            /\ Throw("error", PositionsOf(kids))
         \/ /\ Lhs(e.rule) = RealStart
            /\ p_char_stack' = Append(below, nt)
            /\ pc' = back /\ ret' = "" /\ arg' = None
            /\ UNCHANGED <<tok, cur, outcome, ghosts>>
         \/ /\ p_char_stack' = below
            /\ pc' = "feed" /\ ret' = back /\ arg' = nt
            /\ UNCHANGED <<tok, cur, outcome, ghosts>>
  BY <1>2, Zenon DEF DoReduce
<1> HIDE DEF chars, states, kids, below, left, nt
<1>5. /\ p_state_stack' \in Seq(States) /\ p_state_stack' # << >>
      /\ p_char_stack' \in Seq(DChar) /\ ~IsPending'
  <2>1. Append(below, nt) \in Seq(DChar)
    BY <1>2, <1>3
  <2>2. p_char_stack' = below \/ p_char_stack' = Append(below, nt)
    BY <1>4
  <2>3. ~IsPending'
    BY <1>4 DEF IsPending
  <2>. QED
    BY <1>2, <1>4, <2>1, <2>2, <2>3
<1>6. ViablePrefix'
  <2>1. CASE p_char_stack' = below
    BY <2>1, <1>2, <1>4 DEF ViablePrefix
  <2>2. CASE Lhs(e.rule) = RealStart /\ p_char_stack' = Append(below, nt)
    <3>1. Viable(left, Append(below, nt))
      BY <2>2, <1>2, <1>3, ViableDone
    <3>. QED
      BY <3>1, <2>2, <1>4 DEF ViablePrefix
  <2>. QED
    BY <2>1, <2>2, <1>4
<1>7. arg.toks \subseteq Int /\ cur.toks \subseteq Int
  BY CharFacts DEF IInv, TypeOK
<1>8. TypeOK'
  <2>1. gone' \subseteq Int /\ UNCHANGED <<base, fed>>
    BY <1>3, <1>4, <1>7 DEF IInv, TypeOK, Throw, Return, NoLocals, ghosts
  <2>2. {tok, cur, arg}' \subseteq DChar \cup {None}
    BY <1>3, <1>4 DEF IInv, TypeOK, Throw, Return, NoLocals
  <2>3. pc' \in {"idle"} \cup CallPoints \cup EndPoints
    BY <1>4 DEF Throw, Return, GoesOnAt, CallPoints, EndPoints
  <2>4. p_not_finished'.char \in DChar \cup {None}
    BY <1>4
  <2>. QED
    BY <1>4, <1>5, <2>1, <2>2, <2>3, <2>4 DEF IInv, TypeOK
<1>9. ControlOK' /\ RecoverOK' /\ SavedOK' /\ PendingOK' /\ OwnAssertionsHold'
  BY <1>3, <1>4, <1>5 DEF IInv, Throw, Return, NoLocals, GoesOnAt, ControlOK, RecoverOK,
     SavedOK, PendingOK, OwnAssertionsHold, CallPoints, EndPoints
<1>. QED
  BY <1>6, <1>8, <1>9 DEF IInv

\* handle_lookahead, from feed() or from end().
LEMMA HandleLookaheadKeeps ==
  ASSUME IInv, NEW back, GoesOnAt(back), cur # None, HandleLookahead(back)
  PROVE  IInv'
<1> DEFINE entry == p_not_finished.next[cur.id]
           c     == p_not_finished.char
<1>1. IsPending /\ c \in DChar /\ c # None /\ p_state_stack # << >>
  BY DEF HandleLookahead, IsPending, IInv, TypeOK, GoesOnAt
<1>2. LookaheadSound(Top, c.id, LOOKAHEAD(p_not_finished.next))
  BY <1>1 DEF IInv, PendingOK
<1>3. /\ DOMAIN p_not_finished.next = Terms \cup {EOF}
      /\ \A t \in Terms \cup {EOF} :
            \/ ShiftSound(Top, c.id, p_not_finished.next[t])
            \/ ReduceSound(Top, c.id, p_not_finished.next[t])
  BY <1>2 DEF LookaheadSound, LOOKAHEAD
<1>4. CASE cur.id \notin DOMAIN p_not_finished.next
  <2>1. Throw("unknown", {}) /\ UNCHANGED object
    BY <1>4 DEF HandleLookahead
  <2>. QED
    BY <2>1, ThrowKeeps
<1>5. CASE /\ cur.id \in DOMAIN p_not_finished.next /\ entry.type = "REDUCE"
           /\ DoReduce(entry.rule, c, back, NothingPending)
  <2>1. ReduceSound(Top, c.id, entry)
    BY <1>3, <1>5 DEF ShiftSound
  <2>2. NothingPending.char = None
    BY DEF NothingPending, NotFinished
  <2>. QED
    BY <1>1, <1>5, <2>1, <2>2, DoReduceKeeps
<1>6. CASE /\ cur.id \in DOMAIN p_not_finished.next /\ entry.type = "SHIFT"
           /\ DoShift(entry.state, c)
           /\ p_not_finished' = NothingPending
           /\ pc' = back
           /\ UNCHANGED <<m_prevSave, m_need_recover, locals, outcome, ghosts>>
  <2>1. ShiftSound(Top, c.id, entry)
    BY <1>3, <1>6 DEF ReduceSound
  <2>2. /\ p_state_stack' \in Seq(States) /\ p_state_stack' # << >>
        /\ p_char_stack' \in Seq(DChar)
        /\ ViablePrefix'
    BY <1>1, <1>6, <2>1, ShiftStacks
  <2>3. ~IsPending' /\ p_not_finished'.char = None
    BY <1>6 DEF IsPending, NothingPending, NotFinished
  <2>4. TypeOK'
    BY <1>6, <2>2, <2>3 DEF IInv, TypeOK, locals, ghosts, GoesOnAt, CallPoints, EndPoints
  <2>5. ControlOK' /\ RecoverOK' /\ SavedOK' /\ PendingOK' /\ OwnAssertionsHold'
    BY <1>6, <2>2, <2>3 DEF IInv, locals, GoesOnAt, ControlOK, RecoverOK,
       SavedOK, PendingOK, OwnAssertionsHold, CallPoints, EndPoints
  <2>. QED
    BY <2>2, <2>4, <2>5 DEF IInv
<1>. QED
  BY <1>4, <1>5, <1>6 DEF HandleLookahead

\* handle_lookahead in feed().
LEMMA AheadKeeps == ASSUME IInv, Ahead PROVE IInv'
<1>1. GoesOnAt("ahead") /\ cur # None /\ HandleLookahead("ahead")
  BY DEF Ahead, IInv, ControlOK, RecoverOK, GoesOnAt, CallPoints
<1>. QED
  BY <1>1, HandleLookaheadKeeps

\* handle_lookahead in end().
LEMMA EndAheadKeeps == ASSUME IInv, EndAhead PROVE IInv'
<1>1. GoesOnAt("end_fed") /\ cur # None /\ HandleLookahead("end_fed")
  BY DEF EndAhead, HandleLookahead, IInv, ControlOK, RecoverOK, SavedOK, GoesOnAt, EndPoints
<1>. QED
  BY <1>1, HandleLookaheadKeeps

\* The entries of the table that the decisions leave are sound.
LEMMA EntriesSound ==
  ASSUME NEW s \in States, NEW c \in Symbols, NEW e \in Resolved(Table[s][c])
  PROVE  PlainSound(s, c, e)
  BY TableSound DEF EntrySound, IsSound

\* feed_internal, for each kind of entry the table can hold.
LEMMA FeedInternalKeeps == ASSUME IInv, FeedInternal PROVE IInv'
<1>1. /\ pc = "feed" /\ ~IsPending /\ arg \in DChar /\ arg # None
      /\ GoesOnAt(ret)
  BY DEF FeedInternal, IInv, TypeOK, ControlOK, RecoverOK, SavedOK, GoesOnAt, CallPoints
<1>2. CASE arg.id \notin Symbols
  <2>1. Throw("unknown", {}) /\ UNCHANGED object
    BY <1>1, <1>2 DEF FeedInternal
  <2>. QED
    BY <2>1, ThrowKeeps
<1>3. CASE arg.id \in Symbols
  <2>1. PICK e \in Resolved(EntryOf(arg)) :
          ShiftStep(e) \/ ReduceStep(e) \/ LookaheadStep(e) \/ RejectStep(e)
    BY <1>1, <1>3 DEF FeedInternal
  <2>2. Top \in States /\ p_state_stack # << >>
    BY <1>1, EmptySeq DEF IInv, TypeOK, GoesOnAt, Top
  <2>3. PlainSound(Top, arg.id, e)
    BY <1>3, <2>1, <2>2, EntriesSound DEF EntryOf
  <2>4. CASE ShiftStep(e)
    <3>1. ShiftSound(Top, arg.id, e) /\ DoShift(e.state, arg)
      BY <2>3, <2>4 DEF PlainSound, ShiftStep
    <3>2. /\ p_state_stack' \in Seq(States) /\ p_state_stack' # << >>
          /\ p_char_stack' \in Seq(DChar)
          /\ ViablePrefix'
      BY <1>1, <2>2, <3>1, ShiftStacks
    <3>3. ~IsPending'
      BY <1>1, <2>4 DEF ShiftStep, IsPending
    <3>4. TypeOK'
      BY <1>1, <2>4, <3>2 DEF IInv, ShiftStep, TypeOK, ghosts, GoesOnAt, CallPoints, EndPoints
    <3>5. ControlOK' /\ RecoverOK' /\ SavedOK' /\ PendingOK' /\ OwnAssertionsHold'
      BY <1>1, <2>4, <3>2, <3>3 DEF IInv, ShiftStep, GoesOnAt, ControlOK, RecoverOK,
         SavedOK, PendingOK, OwnAssertionsHold, CallPoints, EndPoints
    <3>. QED
      BY <3>2, <3>4, <3>5 DEF IInv
  <2>5. CASE ReduceStep(e)
    <3>1. /\ ReduceSound(Top, arg.id, e)
          /\ DoReduce(e.rule, arg, ret, p_not_finished)
          /\ p_not_finished.char = None
      BY <1>1, <2>3, <2>5 DEF PlainSound, ReduceStep, IsPending
    <3>. QED
      BY <1>1, <3>1, DoReduceKeeps
  <2>6. CASE LookaheadStep(e)
    <3>1. LookaheadSound(Top, arg.id, e) /\ p_not_finished' = NotFinished(arg, e.next)
      BY <2>3, <2>6 DEF PlainSound, LookaheadStep
    <3>2. p_not_finished'.char = arg /\ p_not_finished'.next = e.next
      BY <3>1 DEF NotFinished
    <3>3. ViablePrefix' /\ UNCHANGED stacks
      BY <2>6 DEF LookaheadStep, IInv, ViablePrefix, stacks
    <3>4. PendingOK'
      <4>1. LookaheadSound(Top, arg.id, LOOKAHEAD(e.next))
        BY <3>1 DEF LookaheadSound, LOOKAHEAD, ShiftSound, ReduceSound
      <4>. QED
        BY <3>2, <3>3, <4>1 DEF PendingOK, Top, stacks
    <3>5. TypeOK'
      BY <1>1, <2>6, <3>2, <3>3 DEF IInv, LookaheadStep, TypeOK, stacks, ghosts,
         GoesOnAt, CallPoints, EndPoints
    <3>6. ControlOK' /\ RecoverOK' /\ SavedOK' /\ OwnAssertionsHold'
      BY <1>1, <2>6, <3>3 DEF IInv, LookaheadStep, stacks, GoesOnAt, ControlOK,
         RecoverOK, SavedOK, OwnAssertionsHold, CallPoints, EndPoints
    <3>. QED
      BY <3>3, <3>4, <3>5, <3>6 DEF IInv
  <2>7. CASE RejectStep(e)
    <3>1. UNCHANGED object
      BY <2>7 DEF RejectStep
    <3>2. CASE tok = None
      <4>1. Throw("reject", {})
        BY <2>7, <3>2 DEF RejectStep
      <4>. QED
        BY <3>1, <4>1, ThrowKeeps
    <3>3. CASE tok # None
      <4>1. ViablePrefix' /\ PendingOK'
        BY <3>1, StacksKept DEF object, stacks
      <4>2. TypeOK'
        BY <1>1, <2>7, <3>1, <3>3 DEF IInv, RejectStep, TypeOK, object, stacks, ghosts,
           CallPoints
      <4>3. /\ pc' = "catch" /\ UNCHANGED <<tok, outcome>>
            /\ UNCHANGED <<p_state_stack, p_char_stack, p_not_finished, m_prevSave,
                          m_need_recover>>
        BY <2>7, <3>3 DEF RejectStep, object
      <4>4. ControlOK'
        BY <1>1, <3>3, <4>3 DEF IInv, ControlOK, GoesOnAt, IsPending, CallPoints, EndPoints
      <4>5. RecoverOK' /\ SavedOK' /\ OwnAssertionsHold'
        BY <1>1, <4>3 DEF IInv, GoesOnAt, RecoverOK, SavedOK, OwnAssertionsHold, IsPending
      <4>. QED
        BY <4>1, <4>2, <4>4, <4>5 DEF IInv
    <3>. QED
      BY <3>2, <3>3
  <2>. QED
    BY <2>1, <2>4, <2>5, <2>6, <2>7
<1>. QED
  BY <1>2, <1>3

------------------------------------------------------------------------------
(* The invariant *)

\* A parser just made satisfies the invariant.
LEMMA InitHolds == ASSUME Init PROVE IInv
<1>1. TypeOK
  <2>1. /\ << >> \in Seq(States) /\ << >> \in Seq(DChar) /\ << >> \in Seq(Tokens)
        /\ {} \subseteq Int
    OBVIOUS
  <2>. QED
    BY <2>1 DEF Init, TypeOK, NothingPending, NotFinished
<1>2. ControlOK /\ RecoverOK /\ SavedOK /\ PendingOK /\ ViablePrefix /\ OwnAssertionsHold
  BY DEF Init, ControlOK, RecoverOK, SavedOK, PendingOK, ViablePrefix, OwnAssertionsHold,
         IsPending, NothingPending, NotFinished, CallPoints, EndPoints
<1>. QED
  BY <1>1, <1>2 DEF IInv

\* A stuttering step keeps the invariant.
LEMMA StutterKeeps == ASSUME IInv, UNCHANGED vars PROVE IInv'
<1>1. ViablePrefix' /\ PendingOK'
  BY StacksKept DEF vars, object, stacks
<1>2. TypeOK' /\ ControlOK' /\ RecoverOK' /\ SavedOK' /\ OwnAssertionsHold'
  BY DEF IInv, vars, object, stacks, locals, ghosts, TypeOK, ControlOK, RecoverOK,
         SavedOK, OwnAssertionsHold, IsPending, Fresh
<1>. QED
  BY <1>1, <1>2 DEF IInv

\* For every grammar and every sound table, and whatever the callbacks answer: as
\* long as the caller stops or resets after an exception, the parser is in a
\* state of IInv between any two steps of feed(), end() and reset().
THEOREM Invariant == ASSUME ~GoesOn PROVE Spec => []IInv
<1>1. ASSUME IInv, Next PROVE IInv'
  <2>1. CASE FeedCall
    BY <1>1, <2>1, FeedCallKeeps
  <2>2. CASE EndCall
    BY <1>1, <2>2, EndCallKeeps
  <2>3. CASE ResetCall
    BY <1>1, <2>3, ResetCallKeeps
  <2>4. CASE Enter \/ NextSaved \/ Ahead \/ FeedToken \/ FeedAgain \/ FeedInternal
    BY <1>1, <2>4, EnterKeeps, NextSavedKeeps, AheadKeeps, FeedTokenKeeps,
       FeedAgainKeeps, FeedInternalKeeps
  <2>5. CASE RecoverOnFeed \/ RecoverOnCatch \/ RecoverOnEnd
    BY <1>1, <2>5, RecoverOnFeedKeeps, RecoverOnCatchKeeps, RecoverOnEndKeeps
  <2>6. CASE EndNextSaved \/ EndAhead \/ EndSkip \/ EndFed \/ EndCheck
    BY <1>1, <2>6, EndNextSavedKeeps, EndAheadKeeps, EndSkipKeeps, EndFedKeeps,
       EndCheckKeeps
  <2>. QED
    BY <1>1, <2>1, <2>2, <2>3, <2>4, <2>5, <2>6 DEF Next, Step
<1>2. ASSUME IInv, [Next]_vars PROVE IInv'
  BY <1>1, <1>2, StutterKeeps
<1>. QED
  BY InitHolds, <1>2, PTL DEF Spec

\* The object and the locals of a call hold states and chars of the grammar.
THEOREM TypeCorrect == ASSUME ~GoesOn PROVE Spec => []TypeOK
<1>1. IInv => TypeOK
  BY DEF IInv
<1>. QED
  BY Invariant, <1>1, PTL

\* What the items of the stacked states claim to have seen is on the char stack:
\* no reduction or decision ever takes its arguments from the wrong chars.
THEOREM ViablePrefixHolds == ASSUME ~GoesOn PROVE Spec => []ViablePrefix
<1>1. IInv => ViablePrefix
  BY DEF IInv
<1>. QED
  BY Invariant, <1>1, PTL

\* The assertions of do_reduce, feed_internal, the catch block of feed() and the
\* end of end() never fail.
THEOREM OwnAssertions == ASSUME ~GoesOn PROVE Spec => []OwnAssertionsHold
<1>1. IInv => OwnAssertionsHold
  BY DEF IInv
<1>. QED
  BY Invariant, <1>1, PTL

\* While a char waits for a lookahead between calls no token is saved, so that
\* end() meets nothing but its own eos.
THEOREM SavedTokens == ASSUME ~GoesOn PROVE Spec => []SavedOK
<1>1. IInv => SavedOK
  BY DEF IInv
<1>. QED
  BY Invariant, <1>1, PTL

\* A decision callback is only ever given the chars its rule says it gets.
THEOREM DecisionArgsHold == ASSUME ~GoesOn PROVE Spec => []DecisionArgs
<1>1. ASSUME IInv PROVE DecisionArgs
  <2>1. SUFFICES ASSUME pc = "feed", arg.id \in Symbols,
                        EntryOf(arg).type = "DECISION",
                        NEW i \in EntryOf(arg).evals
                 PROVE  LET chars == Append(p_char_stack, arg) IN
                        /\ i[2] <= Len(chars)
                        /\ \A k \in 1..i[2] :
                              chars[Len(chars) - i[2] + k].id = Rhs(i[1])[k]
    BY DEF DecisionArgs
  <2>2. /\ p_state_stack \in Seq(States) /\ p_state_stack # << >>
        /\ p_char_stack \in Seq(DChar) /\ arg \in DChar
        /\ Viable(p_state_stack, p_char_stack)
    BY <1>1, <2>1 DEF IInv, TypeOK, ControlOK, ViablePrefix, CallPoints
  <2>3. Top \in States
    BY <2>2, EmptySeq DEF Top
  <2>4. i \in Item /\ (i[2] = 0 \/ Advances(Top, arg.id, i))
    BY <2>1, <2>3, TableSound DEF EntrySound, EntryOf, IsSound
  <2>5. i[1] \in RuleId /\ i[2] \in Nat /\ i = <<i[1], i[2]>>
    BY <2>4 DEF Item
  <2>6. /\ Len(Append(p_char_stack, arg)) = Len(p_char_stack) + 1
        /\ Len(p_char_stack) \in Nat
    BY <2>2
  <2>7. CASE i[2] = 0
    BY <2>6, <2>7
  <2>8. CASE Advances(Top, arg.id, i)
    <3>1. /\ i[2] <= Len(p_char_stack) + 1
          /\ \A k \in 1..i[2] :
               Append(p_char_stack, arg)[Len(p_char_stack) + 1 - i[2] + k].id
                 = Rhs(i[1])[k]
      BY <2>2, <2>5, <2>8, ItemFits DEF Top
    <3>2. ASSUME NEW chars, chars = Append(p_char_stack, arg)
          PROVE  /\ i[2] <= Len(chars)
                 /\ \A k \in 1..i[2] : chars[Len(chars) - i[2] + k].id = Rhs(i[1])[k]
      <4>1. Len(chars) = Len(p_char_stack) + 1
        BY <2>6, <3>2
      <4>2. \A k \in 1..i[2] :
               chars[Len(p_char_stack) + 1 - i[2] + k].id = Rhs(i[1])[k]
        BY <3>1, <3>2, Zenon
      <4>3. i[2] <= Len(chars)
        BY <3>1, <4>1
      <4>. QED
        BY <4>1, <4>2, <4>3, <2>5, <2>6
    <3>. QED
      BY <3>2, Zenon
  <2>. QED
    BY <2>4, <2>7, <2>8
<1>. QED
  BY <1>1, Invariant, PTL


------------------------------------------------------------------------------
(* Chars in the order of their tokens *)

Slot == DChar \cup {None}

Before(A, B) == \A p \in A, q \in B : p < q

Ordered(s) == \A j, k \in DOMAIN s : j < k => Before(s[j].toks, s[k].toks)

\* A sequence of no chars, and of one.
LEMMA OrderedOne ==
  /\ PositionsOf(<< >>) = {} /\ Ordered(<< >>)
  /\ \A c : PositionsOf(<<c>>) = c.toks /\ Ordered(<<c>>)
<1>1. PositionsOf(<< >>) = {} /\ Ordered(<< >>)
  BY DEF PositionsOf, Ordered
<1>2. ASSUME NEW c PROVE PositionsOf(<<c>>) = c.toks /\ Ordered(<<c>>)
  <2>1. DOMAIN <<c>> = {1} /\ <<c>>[1] = c
    OBVIOUS
  <2>2. PositionsOf(<<c>>) = c.toks
    BY <2>1, Zenon DEF PositionsOf
  <2>3. Ordered(<<c>>)
    BY <2>1 DEF Ordered
  <2>. QED
    BY <2>2, <2>3
<1>. QED
  BY <1>1, <1>2

\* Two sequences in a row.
LEMMA OrderedCat ==
  ASSUME NEW s \in Seq(Slot), NEW t \in Seq(Slot)
  PROVE  /\ s \o t \in Seq(Slot)
         /\ PositionsOf(s \o t) = PositionsOf(s) \cup PositionsOf(t)
         /\ Ordered(s \o t) <=> /\ Ordered(s) /\ Ordered(t)
                                /\ Before(PositionsOf(s), PositionsOf(t))
<1> DEFINE m == Len(s)
           n == Len(t)
           u == s \o t
<1>1. m \in Nat /\ n \in Nat /\ DOMAIN s = 1..m /\ DOMAIN t = 1..n
  OBVIOUS
<1>2. u \in Seq(Slot) /\ DOMAIN u = 1..(m + n)
  OBVIOUS
<1>3. \A j \in 1..m : j \in DOMAIN u /\ u[j] = s[j]
  OBVIOUS
<1>4. \A j \in 1..n : m + j \in DOMAIN u /\ u[m + j] = t[j]
  OBVIOUS
<1>5. \A j \in DOMAIN u : j \in 1..m \/ \E k \in 1..n : j = m + k
  <2>1. \A j \in 1..(m + n) : j \in 1..m \/ (j - m \in 1..n /\ j = m + (j - m))
    BY <1>1
  <2>. QED
    BY <2>1, <1>2
<1> HIDE DEF m, n, u
<1>6. PositionsOf(u) = PositionsOf(s) \cup PositionsOf(t)
  <2>1. ASSUME NEW p \in PositionsOf(u) PROVE p \in PositionsOf(s) \cup PositionsOf(t)
    <3>1. PICK j \in DOMAIN u : p \in u[j].toks
      BY DEF PositionsOf
    <3>2. CASE j \in 1..m
      BY <3>1, <3>2, <1>1, <1>3 DEF PositionsOf
    <3>3. CASE \E k \in 1..n : j = m + k
      BY <3>1, <3>3, <1>1, <1>4 DEF PositionsOf
    <3>. QED
      BY <3>2, <3>3, <1>5
  <2>2. ASSUME NEW p \in PositionsOf(s) \cup PositionsOf(t) PROVE p \in PositionsOf(u)
    <3>1. \/ \E j \in 1..m : p \in s[j].toks
          \/ \E j \in 1..n : p \in t[j].toks
      BY <1>1 DEF PositionsOf
    <3>2. \E j \in DOMAIN u : p \in u[j].toks
      BY <3>1, <1>3, <1>4
    <3>. QED
      BY <3>2 DEF PositionsOf
  <2>. QED
    BY <2>1, <2>2
<1>7. ASSUME Ordered(u)
      PROVE  Ordered(s) /\ Ordered(t) /\ Before(PositionsOf(s), PositionsOf(t))
  <2>1. Ordered(s)
    BY <1>7, <1>1, <1>3 DEF Ordered
  <2>2. Ordered(t)
    <3>1. ASSUME NEW j \in 1..n, NEW k \in 1..n, j < k
          PROVE  Before(t[j].toks, t[k].toks)
      <4>1. m + j < m + k
        BY <1>1, <3>1
      <4>. QED
        BY <4>1, <1>7, <1>4 DEF Ordered
    <3>. QED
      BY <3>1, <1>1 DEF Ordered
  <2>3. ASSUME NEW p \in PositionsOf(s), NEW q \in PositionsOf(t) PROVE p < q
    <3>1. PICK j \in 1..m : p \in s[j].toks
      BY <1>1 DEF PositionsOf
    <3>2. PICK k \in 1..n : q \in t[k].toks
      BY <1>1 DEF PositionsOf
    <3>3. j < m + k
      BY <1>1
    <3>4. Before(s[j].toks, t[k].toks)
      BY <3>3, <1>3, <1>4, <1>7 DEF Ordered
    <3>. QED
      BY <3>1, <3>2, <3>4 DEF Before
  <2>. QED
    BY <2>1, <2>2, <2>3 DEF Before
<1>8. ASSUME Ordered(s), Ordered(t), Before(PositionsOf(s), PositionsOf(t))
      PROVE  Ordered(u)
  <2>1. SUFFICES ASSUME NEW j \in DOMAIN u, NEW k \in DOMAIN u, j < k
                 PROVE  Before(u[j].toks, u[k].toks)
    BY DEF Ordered
  <2>2. CASE j \in 1..m /\ k \in 1..m
    BY <2>1, <2>2, <1>1, <1>3, <1>8 DEF Ordered
  <2>3. CASE j \in 1..m /\ \E i \in 1..n : k = m + i
    <3>1. u[j].toks \subseteq PositionsOf(s) /\ u[k].toks \subseteq PositionsOf(t)
      BY <2>3, <1>1, <1>3, <1>4 DEF PositionsOf
    <3>. QED
      BY <3>1, <1>8 DEF Before
  <2>4. CASE (\E i \in 1..n : j = m + i) /\ (\E i \in 1..n : k = m + i)
    <3>1. PICK i \in 1..n, l \in 1..n : j = m + i /\ k = m + l
      BY <2>4
    <3>2. i < l
      BY <3>1, <2>1, <1>1
    <3>. QED
      BY <3>1, <3>2, <1>1, <1>4, <1>8 DEF Ordered
  <2>5. ~((\E i \in 1..n : j = m + i) /\ k \in 1..m)
    BY <2>1, <1>1
  <2>. QED
    BY <2>2, <2>3, <2>4, <2>5, <1>5
<1>. QED
  BY <1>2, <1>6, <1>7, <1>8 DEF u

\* One char more.
LEMMA OrderedAppend ==
  ASSUME NEW s \in Seq(Slot), NEW c \in Slot
  PROVE  /\ PositionsOf(Append(s, c)) = PositionsOf(s) \cup c.toks
         /\ Ordered(Append(s, c)) <=> Ordered(s) /\ Before(PositionsOf(s), c.toks)
<1> DEFINE t == <<c>>
<1>1. t \in Seq(Slot) /\ Len(t) = 1 /\ t[1] = c
  OBVIOUS
<1>2. Append(s, c) = s \o t
  <2>1. /\ s \o t \in Seq(Slot) /\ Len(s \o t) = Len(s) + 1
        /\ \A j \in 1..Len(s) : (s \o t)[j] = s[j]
        /\ (s \o t)[Len(s) + 1] = c
    <3> HIDE DEF t
    <3>. QED
      BY <1>1, ConcatProperties
  <2>2. /\ Append(s, c) \in Seq(Slot) /\ Len(Append(s, c)) = Len(s) + 1
        /\ \A j \in 1..Len(s) : Append(s, c)[j] = s[j]
        /\ Append(s, c)[Len(s) + 1] = c
    OBVIOUS
  <2>3. \A j \in 1..(Len(s) + 1) : j \in 1..Len(s) \/ j = Len(s) + 1
    OBVIOUS
  <2> HIDE DEF t
  <2>. QED
    BY <2>1, <2>2, <2>3, SeqEqual
<1>3. PositionsOf(t) = c.toks /\ Ordered(t)
  BY OrderedOne, Zenon
<1> HIDE DEF t
<1>4. /\ PositionsOf(s \o t) = PositionsOf(s) \cup PositionsOf(t)
      /\ Ordered(s \o t) <=> /\ Ordered(s) /\ Ordered(t)
                              /\ Before(PositionsOf(s), PositionsOf(t))
  BY <1>1, OrderedCat, Zenon
<1>. QED
  BY <1>2, <1>3, <1>4, Zenon

\* A sequence cut in two.
LEMMA OrderedSplit ==
  ASSUME NEW s \in Seq(Slot), NEW n \in 0..Len(s)
  PROVE  LET a == SubSeq(s, 1, n)
             b == SubSeq(s, n + 1, Len(s))
         IN  /\ PositionsOf(s) = PositionsOf(a) \cup PositionsOf(b)
             /\ Ordered(s) <=> /\ Ordered(a) /\ Ordered(b)
                               /\ Before(PositionsOf(a), PositionsOf(b))
<1> DEFINE a == SubSeq(s, 1, n)
           b == SubSeq(s, n + 1, Len(s))
<1>1. a \in Seq(Slot) /\ b \in Seq(Slot)
  BY SubSeqProperties
<1>2. a \o b = s
  <2>1. /\ Len(a) = n /\ Len(b) = Len(s) - n
        /\ \A j \in 1..n : a[j] = s[j]
        /\ \A j \in 1..(Len(s) - n) : b[j] = s[n + j]
    OBVIOUS
  <2> HIDE DEF a, b
  <2>2. /\ a \o b \in Seq(Slot) /\ Len(a \o b) = Len(s)
        /\ \A j \in 1..n : (a \o b)[j] = s[j]
        /\ \A j \in (n + 1)..Len(s) : (a \o b)[j] = s[j]
    <3>1. /\ a \o b \in Seq(Slot) /\ Len(a \o b) = Len(s)
          /\ \A j \in 1..Len(s) : (a \o b)[j] = IF j <= n THEN a[j] ELSE b[j - n]
      BY <1>1, <2>1, ConcatProperties
    <3>2. \A j \in (n + 1)..Len(s) : j - n \in 1..(Len(s) - n) /\ n + (j - n) = j
      OBVIOUS
    <3>. QED
      BY <2>1, <3>1, <3>2
  <2>3. \A j \in 1..Len(s) : (a \o b)[j] = s[j]
    BY <2>2
  <2>. QED
    BY <2>2, <2>3, SeqEqual
<1> HIDE DEF a, b
<1>3. /\ PositionsOf(s) = PositionsOf(a) \cup PositionsOf(b)
      /\ Ordered(s) <=> /\ Ordered(a) /\ Ordered(b)
                        /\ Before(PositionsOf(a), PositionsOf(b))
  BY <1>1, <1>2, OrderedCat
<1>. QED
  BY <1>3, Zenon DEF a, b

\* The positions held, one set for each place a token may be, in order.
Line(C, N, A, U, S, T) ==
    /\ Before(C, N) /\ Before(C, A) /\ Before(C, U) /\ Before(C, S) /\ Before(C, T)
    /\ Before(N, A) /\ Before(N, U) /\ Before(N, S) /\ Before(N, T)
    /\ Before(A, U) /\ Before(A, S) /\ Before(A, T)
    /\ Before(U, S) /\ Before(U, T) /\ Before(S, T)

Row(cs, n, a, u, s, t) == cs \o <<n, a, u>> \o s \o t

\* The places in a row are in order when each is and one comes before the other.
LEMMA HeldLine ==
  ASSUME NEW cs \in Seq(Slot), NEW n \in Slot, NEW a \in Slot, NEW u \in Slot,
         NEW s \in Seq(Slot), NEW t \in Seq(Slot), Len(t) <= 1
  PROVE  /\ PositionsOf(Row(cs, n, a, u, s, t)) = PositionsOf(cs) \cup n.toks \cup a.toks \cup u.toks
                               \cup PositionsOf(s) \cup PositionsOf(t)
         /\ Ordered(Row(cs, n, a, u, s, t)) <=>
                           /\ Ordered(cs) /\ Ordered(s)
                           /\ Line(PositionsOf(cs), n.toks, a.toks, u.toks,
                                   PositionsOf(s), PositionsOf(t))
<1> DEFINE m == <<n, a, u>>
<1>1. m \in Seq(Slot) /\ m = Append(Append(<<n>>, a), u)
  OBVIOUS
<1>2. /\ PositionsOf(m) = n.toks \cup a.toks \cup u.toks
      /\ Ordered(m) <=> /\ Before(n.toks, a.toks)
                        /\ Before(n.toks \cup a.toks, u.toks)
  <2>1. <<n>> \in Seq(Slot) /\ Append(<<n>>, a) \in Seq(Slot)
    OBVIOUS
  <2>2. PositionsOf(<<n>>) = n.toks /\ Ordered(<<n>>)
    BY OrderedOne, Zenon
  <2>3. /\ PositionsOf(Append(<<n>>, a)) = n.toks \cup a.toks
        /\ Ordered(Append(<<n>>, a)) <=> Before(n.toks, a.toks)
    BY <2>1, <2>2, OrderedAppend, Zenon
  <2> HIDE DEF m
  <2>4. /\ PositionsOf(m) = PositionsOf(Append(<<n>>, a)) \cup u.toks
        /\ Ordered(m) <=> /\ Ordered(Append(<<n>>, a))
                          /\ Before(PositionsOf(Append(<<n>>, a)), u.toks)
    BY <1>1, <2>1, OrderedAppend, Zenon
  <2>. QED
    BY <2>3, <2>4, Zenon
<1> HIDE DEF m
<1>3. Ordered(t)
  BY DEF Ordered
<1> DEFINE h1 == cs \o m
           h2 == h1 \o s
<1>4. /\ h1 \in Seq(Slot)
      /\ PositionsOf(h1) = PositionsOf(cs) \cup PositionsOf(m)
      /\ Ordered(h1) <=> /\ Ordered(cs) /\ Ordered(m)
                         /\ Before(PositionsOf(cs), PositionsOf(m))
  BY <1>1, OrderedCat
<1>5. /\ h2 \in Seq(Slot)
      /\ PositionsOf(h2) = PositionsOf(h1) \cup PositionsOf(s)
      /\ Ordered(h2) <=> /\ Ordered(h1) /\ Ordered(s)
                         /\ Before(PositionsOf(h1), PositionsOf(s))
  BY <1>4, OrderedCat
<1>6. /\ PositionsOf(h2 \o t) = PositionsOf(h2) \cup PositionsOf(t)
      /\ Ordered(h2 \o t) <=> /\ Ordered(h2) /\ Ordered(t)
                              /\ Before(PositionsOf(h2), PositionsOf(t))
  BY <1>5, OrderedCat
<1> HIDE DEF h1, h2
<1>7. /\ \A A, B, C : Before(A \cup B, C) <=> Before(A, C) /\ Before(B, C)
      /\ \A A, B, C : Before(C, A \cup B) <=> Before(C, A) /\ Before(C, B)
  BY DEF Before
<1>8. PositionsOf(h2 \o t) = PositionsOf(cs) \cup n.toks \cup a.toks \cup u.toks
                               \cup PositionsOf(s) \cup PositionsOf(t)
  BY <1>2, <1>4, <1>5, <1>6
<1>9. Ordered(h2 \o t) <=> /\ Ordered(cs) /\ Ordered(s)
                           /\ Line(PositionsOf(cs), n.toks, a.toks, u.toks,
                                   PositionsOf(s), PositionsOf(t))
  <2>1. Ordered(h2) <=> /\ Ordered(cs) /\ Ordered(s) /\ Ordered(m)
                        /\ Before(PositionsOf(cs), PositionsOf(m))
                        /\ Before(PositionsOf(cs), PositionsOf(s))
                        /\ Before(PositionsOf(m), PositionsOf(s))
    <3>1. \A p : p \in PositionsOf(h1) <=> p \in PositionsOf(cs) \/ p \in PositionsOf(m)
      BY <1>4
    <3>2. Before(PositionsOf(h1), PositionsOf(s)) <=>
             Before(PositionsOf(cs), PositionsOf(s)) /\ Before(PositionsOf(m), PositionsOf(s))
      BY <3>1 DEF Before
    <3>. QED
      BY <3>2, <1>4, <1>5, Zenon
  <2>2. Ordered(h2 \o t) <=> /\ Ordered(h2)
                             /\ Before(PositionsOf(cs), PositionsOf(t))
                             /\ Before(PositionsOf(m), PositionsOf(t))
                             /\ Before(PositionsOf(s), PositionsOf(t))
    <3>1. \A p : p \in PositionsOf(h2) <=> \/ p \in PositionsOf(cs)
                                           \/ p \in PositionsOf(m)
                                           \/ p \in PositionsOf(s)
      BY <1>4, <1>5
    <3>. QED
      BY <3>1, <1>3, <1>6 DEF Before
  <2>3. \A X : /\ Before(PositionsOf(m), X) <=> /\ Before(n.toks, X) /\ Before(a.toks, X)
                                                /\ Before(u.toks, X)
               /\ Before(X, PositionsOf(m)) <=> /\ Before(X, n.toks) /\ Before(X, a.toks)
                                                /\ Before(X, u.toks)
    <3>1. \A p : p \in PositionsOf(m) <=> p \in n.toks \/ p \in a.toks \/ p \in u.toks
      BY <1>2
    <3>. QED
      BY <3>1 DEF Before
  <2>4. Ordered(m) <=> /\ Before(n.toks, a.toks) /\ Before(n.toks, u.toks)
                       /\ Before(a.toks, u.toks)
    BY <1>2, <1>7
  <2>. QED
    BY <2>1, <2>2, <2>3, <2>4, Zenon DEF Line
<1>. QED
  BY <1>8, <1>9, Zenon DEF h1, h2, m, Row

------------------------------------------------------------------------------
(* The invariant of the tokens, place by place *)

All == (base + 1)..(base + Len(fed))

TokPos == IF pc \in {"enter", "catch"} THEN tok.toks ELSE {}

\* EveryTokenOnce, with the places told apart.
Laid ==
    /\ PositionsOf(p_char_stack) \cup p_not_finished.char.toks \cup arg.toks
         \cup cur.toks \cup PositionsOf(m_prevSave) \cup TokPos = All \ gone
    /\ Ordered(p_char_stack) /\ Ordered(m_prevSave)
    /\ Line(PositionsOf(p_char_stack), p_not_finished.char.toks, arg.toks, cur.toks,
            PositionsOf(m_prevSave), TokPos)

Good == /\ LocalsOK /\ QueueOK /\ GotoOK /\ AcceptOK
        /\ gone \subseteq All
        /\ Laid

\* The sequences of the parser are sequences of chars.
LEMMA Slots ==
  TypeOK => /\ p_char_stack \in Seq(Slot) /\ m_prevSave \in Seq(Slot)
            /\ p_not_finished.char \in Slot /\ arg \in Slot /\ cur \in Slot /\ tok \in Slot
            /\ base \in Nat /\ Len(fed) \in Nat
  BY DEF TypeOK, Slot

\* Laid says the same as EveryTokenOnce.
LEMMA LaidIsOnce == TypeOK /\ pc # "aborted" => (Laid <=> EveryTokenOnce)
<1> SUFFICES ASSUME TypeOK, pc # "aborted" PROVE Laid <=> EveryTokenOnce
  OBVIOUS
<1> DEFINE t == IF pc \in {"enter", "catch"} THEN <<tok>> ELSE << >>
<1>1. t \in Seq(Slot) /\ Len(t) <= 1
  BY Slots
<1>2. PositionsOf(t) = TokPos
  BY OrderedOne, Zenon DEF TokPos
<1>3. Held = Row(p_char_stack, p_not_finished.char, arg, cur, m_prevSave, t)
  BY DEF Held, Row
<1> HIDE DEF t
<1>4. /\ PositionsOf(Held) = PositionsOf(p_char_stack) \cup p_not_finished.char.toks
                               \cup arg.toks \cup cur.toks
                               \cup PositionsOf(m_prevSave) \cup TokPos
      /\ Ordered(Held) <=>
            /\ Ordered(p_char_stack) /\ Ordered(m_prevSave)
            /\ Line(PositionsOf(p_char_stack), p_not_finished.char.toks, arg.toks,
                    cur.toks, PositionsOf(m_prevSave), TokPos)
  <2>1. /\ p_char_stack \in Seq(Slot) /\ m_prevSave \in Seq(Slot)
        /\ p_not_finished.char \in Slot /\ arg \in Slot /\ cur \in Slot
    BY Slots
  <2>2. /\ PositionsOf(Held) = PositionsOf(p_char_stack) \cup p_not_finished.char.toks
                                 \cup arg.toks \cup cur.toks
                                 \cup PositionsOf(m_prevSave) \cup PositionsOf(t)
        /\ Ordered(Held) <=>
              /\ Ordered(p_char_stack) /\ Ordered(m_prevSave)
              /\ Line(PositionsOf(p_char_stack), p_not_finished.char.toks, arg.toks,
                      cur.toks, PositionsOf(m_prevSave), PositionsOf(t))
    <3> DEFINE r == Row(p_char_stack, p_not_finished.char, arg, cur, m_prevSave, t)
    <3>1. /\ PositionsOf(r) = PositionsOf(p_char_stack) \cup p_not_finished.char.toks
                                \cup arg.toks \cup cur.toks
                                \cup PositionsOf(m_prevSave) \cup PositionsOf(t)
          /\ Ordered(r) <=>
                /\ Ordered(p_char_stack) /\ Ordered(m_prevSave)
                /\ Line(PositionsOf(p_char_stack), p_not_finished.char.toks, arg.toks,
                        cur.toks, PositionsOf(m_prevSave), PositionsOf(t))
      BY <2>1, <1>1, HeldLine, Zenon
    <3>2. Held = r
      BY <1>3
    <3>. QED
      BY <3>1, <3>2, Zenon
  <2>. QED
    BY <2>2, <1>2, Zenon
<1>5. EveryTokenOnce <=> PositionsOf(Held) = All \ gone /\ Ordered(Held)
  BY DEF EveryTokenOnce, All, Ordered, Before
<1>. QED
  BY <1>4, <1>5, Zenon DEF Laid

\* What stands on the stacks was fed since the last reset.
LEMMA GoodIsFresh == TypeOK /\ Good => NoStaleToken
<1> SUFFICES ASSUME TypeOK, Good PROVE NoStaleToken
  OBVIOUS
<1> DEFINE m == <<p_not_finished.char, arg>>
<1>1. PositionsOf(p_char_stack) \cup p_not_finished.char.toks \cup arg.toks \subseteq All
  BY DEF Good, Laid
<1>2. m \in Seq(Slot) /\ m = Append(<<p_not_finished.char>>, arg)
      /\ <<p_not_finished.char>> \in Seq(Slot)
  BY Slots
<1>3. PositionsOf(m) = p_not_finished.char.toks \cup arg.toks
  <2>1. PositionsOf(<<p_not_finished.char>>) = p_not_finished.char.toks
    BY OrderedOne, Zenon
  <2>2. arg \in Slot
    BY Slots
  <2>. QED
    BY <1>2, <2>1, <2>2, OrderedAppend, Zenon
<1> HIDE DEF m
<1>4. PositionsOf(p_char_stack \o m) \subseteq All
  <2>1. PositionsOf(p_char_stack \o m) = PositionsOf(p_char_stack) \cup PositionsOf(m)
    BY <1>2, Slots, OrderedCat
  <2>. QED
    BY <1>1, <1>3, <2>1
<1>5. \A p \in All : p > base
  BY Slots DEF All
<1>. QED
  BY <1>4, <1>5 DEF NoStaleToken, m

\* A step that ends in a failed assertion moves no token.
LEMMA AbortIsFresh == ASSUME NoStaleToken, NEW a, Abort(a) PROVE NoStaleToken'
  BY DEF NoStaleToken, Abort, object, locals, ghosts

\* A token as it was fed.
LEMMA LeafFacts ==
  ASSUME NEW c \in Slot, IsLeaf(c)
  PROVE  /\ c # None /\ c \in DChar
         /\ c.id \in Tokens /\ c.id \notin Nonterms /\ c.parts = {}
         /\ \E p \in Int : c.toks = {p}
<1>1. PICK t \in Tokens, p \in c.toks : c = [id |-> t, toks |-> {p}, parts |-> {}]
  BY DEF IsLeaf
<1>2. c.id = t /\ c.toks = {p} /\ c.parts = {}
  BY <1>1
<1>3. c # None /\ c \in DChar
  BY <1>2, CharFacts DEF Slot
<1>4. p \in Int
  BY <1>2, <1>3, CharFacts
<1>. QED
  BY <1>2, <1>3, <1>4, CallerAssumption

------------------------------------------------------------------------------
(* Steps that only move a token from one place to the next *)

\* feed() is called with the next token: its position comes after all the others.
LEMMA FeedCallOnce == ASSUME ~GoesOn, IInv, Good, FeedCall PROVE Good'
<1>1. PICK t \in Tokens :
        /\ tok' = [id |-> t, toks |-> {base + Len(fed) + 1}, parts |-> {}]
        /\ fed' = Append(fed, t)
  BY DEF FeedCall
<1>2. /\ base' = base /\ base \in Nat /\ Len(fed) \in Nat /\ Len(fed') = Len(fed) + 1
      /\ pc = "idle" /\ pc' = "enter" /\ Fresh /\ outcome' = "running"
      /\ UNCHANGED <<p_state_stack, p_char_stack, p_not_finished, m_prevSave,
                     m_need_recover, ret, cur, arg, gone>>
  BY <1>1 DEF FeedCall, IInv, TypeOK, object, stacks
<1>3. IsLeaf(tok')
  BY <1>1 DEF IsLeaf
<1>4. LocalsOK' /\ QueueOK' /\ GotoOK' /\ AcceptOK'
  BY <1>2, <1>3 DEF Good, LocalsOK, QueueOK, GotoOK, AcceptOK, HasCur, CallPoints, EndPoints,
     Fresh, Keeping
<1>5. Laid' /\ gone' \subseteq All'
  <2> DEFINE p == base + Len(fed) + 1
  <2>1. /\ All' = All \cup {p} /\ p \notin All /\ gone \subseteq All
        /\ \A q \in All : q < p
    BY <1>2 DEF All, Good
  <2>2. TokPos = {} /\ TokPos' = {p}
    BY <1>1, <1>2 DEF TokPos
  <2> HIDE DEF p
  <2>. QED
    BY <1>2, <2>1, <2>2 DEF Good, Laid, Line, Before
<1>. QED
  BY <1>4, <1>5 DEF Good

\* In the loop of feed() the token saved becomes tt.
LEMMA NextSavedOnce == ASSUME IInv, Good, NextSaved PROVE Good'
<1>1. /\ pc = "loop" /\ IsLeaf(tok) /\ cur = None /\ arg = None /\ ~HasCur
      /\ UNCHANGED <<p_state_stack, p_char_stack, p_not_finished, m_need_recover, ret,
                     tok, arg, outcome, base, fed, gone>>
  BY DEF NextSaved, Good, LocalsOK, HasCur, stacks, ghosts, CallPoints
<1>2. CASE m_prevSave = << >>
  <2>1. pc' = "tail" /\ UNCHANGED <<m_prevSave, cur>>
    BY <1>2 DEF NextSaved
  <2>2. LocalsOK' /\ QueueOK' /\ GotoOK' /\ AcceptOK'
    BY <1>1, <1>2, <2>1 DEF Good, LocalsOK, QueueOK, GotoOK, AcceptOK, HasCur, CallPoints,
       EndPoints, IsLeaf
  <2>3. Laid' /\ gone' \subseteq All'
    BY <1>1, <2>1 DEF Good, Laid, All, TokPos
  <2>. QED
    BY <2>2, <2>3 DEF Good
<1>3. CASE m_prevSave = <<tok>>
  <2>1. pc' = "ahead" /\ cur' = tok /\ m_prevSave' = << >>
    BY <1>3 DEF NextSaved
  <2>2. LocalsOK' /\ QueueOK' /\ GotoOK' /\ AcceptOK'
    BY <1>1, <2>1, LeafFacts, Slots DEF IInv, Good, LocalsOK, QueueOK, GotoOK, AcceptOK, HasCur, CallPoints,
       EndPoints, IsLeaf
  <2>3. Laid' /\ gone' \subseteq All'
    <3>1. PositionsOf(m_prevSave) = tok.toks /\ PositionsOf(m_prevSave') = {}
          /\ Ordered(m_prevSave') /\ cur.toks = {}
      BY <1>1, <1>3, <2>1, OrderedOne, CharFacts, Zenon
    <3>. QED
      BY <1>1, <2>1, <3>1 DEF Good, Laid, All, TokPos, Line, Before
  <2>. QED
    BY <2>2, <2>3 DEF Good
<1>. QED
  BY <1>1, <1>2, <1>3 DEF Good, QueueOK

\* Handing tt to feed_internal.
LEMMA FeedTokenOnce == ASSUME IInv, Good, FeedToken PROVE Good'
<1>1. /\ pc = "ahead" /\ pc' = "feed" /\ ret' = "loop"
      /\ IsLeaf(tok) /\ cur = tok /\ arg = None /\ p_not_finished.char = None
      /\ arg' = tok /\ cur' = None /\ m_prevSave = << >>
      /\ UNCHANGED <<p_state_stack, p_char_stack, p_not_finished, m_prevSave,
                     m_need_recover, tok, outcome, base, fed, gone>>
  <2>1. pc = "ahead" /\ IsLeaf(tok)
    BY DEF FeedToken, Good, LocalsOK, CallPoints
  <2>2. tok # None
    BY <2>1, LeafFacts, Slots DEF IInv
  <2>. QED
    BY <2>1, <2>2 DEF FeedToken, Good, LocalsOK, QueueOK, HasCur, IsPending, object,
       stacks, ghosts
<1>2. LocalsOK' /\ QueueOK' /\ GotoOK' /\ AcceptOK'
  <2>1. arg'.id \notin Nonterms /\ tok # None
    BY <1>1, LeafFacts, Slots DEF IInv
  <2>. QED
    BY <1>1, <2>1 DEF Good, LocalsOK, QueueOK, GotoOK, AcceptOK, HasCur, CallPoints,
       EndPoints, IsLeaf
<1>3. Laid' /\ gone' \subseteq All'
  BY <1>1, CharFacts DEF Good, Laid, All, TokPos, Line, Before
<1>. QED
  BY <1>2, <1>3 DEF Good

\* The end of feed(): nothing is saved, so it does not call itself.
LEMMA FeedAgainOnce == ASSUME IInv, Good, FeedAgain PROVE Good'
<1>1. pc = "tail" /\ m_prevSave = << >> /\ ~m_need_recover /\ arg = None /\ cur = None
      /\ p_state_stack # << >>
  BY DEF FeedAgain, IInv, RecoverOK, ControlOK, CallPoints, Good, QueueOK, LocalsOK, HasCur
<1>2. /\ pc' = "idle" /\ outcome' = "fed" /\ tok' = None /\ arg' = None /\ cur' = None
      /\ UNCHANGED <<p_state_stack, p_char_stack, p_not_finished, m_prevSave,
                     m_need_recover, base, fed, gone>>
  BY <1>1 DEF FeedAgain, Return, NoLocals, stacks, ghosts
<1>3. LocalsOK' /\ QueueOK' /\ GotoOK' /\ AcceptOK'
  BY <1>1, <1>2 DEF Good, LocalsOK, QueueOK, GotoOK, AcceptOK, HasCur, CallPoints, EndPoints
<1>4. Laid' /\ gone' \subseteq All'
  BY <1>1, <1>2 DEF Good, Laid, All, TokPos
<1>. QED
  BY <1>3, <1>4 DEF Good

\* end() saves its eos, which has no position.
LEMMA EndCallOnce ==
  ASSUME ~GoesOn, IInv, Good, EndCall
  PROVE  Good' \/ \E a : Abort(a)
<1>1. /\ pc = "idle" /\ Fresh /\ arg = None /\ cur = None /\ tok = None
      /\ UNCHANGED <<p_state_stack, p_char_stack, p_not_finished, m_need_recover>>
  BY DEF EndCall, Good, LocalsOK, HasCur, stacks
<1>2. CASE p_state_stack = << >>
  <2>1. /\ pc' = "idle" /\ outcome' = "nothing" /\ tok' = None /\ arg' = None /\ cur' = None
        /\ gone' = gone /\ UNCHANGED <<base, fed, m_prevSave>>
    BY <1>1, <1>2, CharFacts DEF EndCall, Throw, Return, NoLocals
  <2>2. m_prevSave = << >> /\ ~m_need_recover
    BY <1>1, <1>2 DEF Good, QueueOK, Fresh, Keeping
  <2>3. LocalsOK' /\ QueueOK' /\ GotoOK' /\ AcceptOK'
    BY <1>1, <2>1, <2>2 DEF Good, LocalsOK, QueueOK, GotoOK, AcceptOK, HasCur, CallPoints,
       EndPoints
  <2>4. Laid' /\ gone' \subseteq All'
    BY <1>1, <2>1 DEF Good, Laid, All, TokPos
  <2>. QED
    BY <2>3, <2>4 DEF Good
<1>3. CASE /\ p_state_stack # << >> /\ outcome' = "running"
           /\ m_prevSave' = Append(m_prevSave, EOS)
           /\ pc' = IF m_need_recover THEN "end_recover" ELSE "end_loop"
           /\ UNCHANGED <<locals, ghosts>>
  <2>1. /\ tok' = None /\ arg' = None /\ cur' = None
        /\ UNCHANGED <<base, fed, gone>>
    BY <1>1, <1>3 DEF locals, ghosts
  <2>2. m_need_recover \/ m_prevSave = << >>
    BY <1>1 DEF Good, QueueOK, Fresh, Keeping
  <2>5. /\ m_prevSave \in Seq(Slot) /\ EOS \in Slot /\ m_prevSave' # << >>
        /\ m_prevSave = << >> => m_prevSave' = <<EOS>>
    <3>1. m_prevSave \in Seq(Slot) /\ EOS \in Slot
      BY Slots, CharFacts DEF IInv, Slot
    <3>2. Append(m_prevSave, EOS) # << >> /\ Append(<< >>, EOS) = <<EOS>>
      BY <3>1, AppendProperties
    <3>. QED
      BY <1>3, <3>1, <3>2, Zenon
  <2>3. LocalsOK' /\ QueueOK' /\ GotoOK' /\ AcceptOK'
    BY <1>1, <1>3, <2>1, <2>2, <2>5 DEF Good, LocalsOK, QueueOK, GotoOK, AcceptOK, HasCur,
       CallPoints, EndPoints
  <2>4. Laid' /\ gone' \subseteq All'
    <3>1. /\ PositionsOf(m_prevSave') = PositionsOf(m_prevSave)
          /\ Ordered(m_prevSave') <=> Ordered(m_prevSave)
      <4>1. EOS.toks = {} /\ Before(PositionsOf(m_prevSave), {})
        BY DEF EOS, Before
      <4>. QED
        BY <1>3, <2>5, <4>1, OrderedAppend
    <3>. QED
      BY <1>1, <1>3, <2>1, <3>1 DEF Good, Laid, All, TokPos
  <2>. QED
    BY <2>3, <2>4 DEF Good
<1>. QED
  BY <1>2, <1>3 DEF EndCall

\* In the loop of end() the eos becomes tt.
LEMMA EndNextSavedOnce == ASSUME IInv, Good, EndNextSaved PROVE Good'
<1>1. /\ pc = "end_loop" /\ tok = None /\ cur = None /\ arg = None
      /\ UNCHANGED <<p_state_stack, p_char_stack, p_not_finished, m_need_recover, ret,
                     tok, arg, outcome, base, fed, gone>>
  BY DEF EndNextSaved, Good, LocalsOK, HasCur, stacks, ghosts, EndPoints
<1>2. CASE m_prevSave = << >>
  <2>1. pc' = "end_check" /\ cur' = None /\ UNCHANGED m_prevSave /\ ~IsPending /\ ~IsPending'
    BY <1>1, <1>2 DEF EndNextSaved, Good, QueueOK, IsPending
  <2>2. LocalsOK' /\ QueueOK' /\ GotoOK' /\ AcceptOK'
    BY <1>1, <1>2, <2>1 DEF Good, LocalsOK, QueueOK, GotoOK, AcceptOK, HasCur, CallPoints,
       EndPoints
  <2>3. Laid' /\ gone' \subseteq All'
    BY <1>1, <2>1 DEF Good, Laid, All, TokPos
  <2>. QED
    BY <2>2, <2>3 DEF Good
<1>3. CASE m_prevSave = <<EOS>>
  <2>1. pc' = "end_ahead" /\ cur' = EOS /\ m_prevSave' = << >>
    BY <1>3 DEF EndNextSaved
  <2>2. LocalsOK' /\ QueueOK' /\ GotoOK' /\ AcceptOK'
    BY <1>1, <2>1 DEF Good, LocalsOK, QueueOK, GotoOK, AcceptOK, HasCur, CallPoints,
       EndPoints
  <2>3. Laid' /\ gone' \subseteq All'
    <3>1. PositionsOf(m_prevSave) = {} /\ PositionsOf(m_prevSave') = {}
          /\ Ordered(m_prevSave') /\ cur.toks = {} /\ cur'.toks = {}
      BY <1>1, <1>3, <2>1, OrderedOne, CharFacts, Zenon DEF EOS
    <3>. QED
      BY <1>1, <2>1, <3>1 DEF Good, Laid, All, TokPos
  <2>. QED
    BY <2>2, <2>3 DEF Good
<1>. QED
  BY <1>1, <1>2, <1>3 DEF Good, QueueOK

\* end() lets the eos go.
LEMMA EndSkipOnce == ASSUME IInv, Good, EndSkip PROVE Good'
<1>1. /\ pc = "end_ahead" /\ pc' = "end_loop" /\ ~IsPending /\ ~IsPending'
      /\ tok = None /\ arg = None /\ cur = EOS /\ cur' = None /\ m_prevSave = << >>
      /\ UNCHANGED <<p_state_stack, p_char_stack, p_not_finished, m_prevSave,
                     m_need_recover, tok, arg, outcome, base, fed, gone>>
  BY DEF EndSkip, Good, LocalsOK, QueueOK, HasCur, IsPending, object, stacks, ghosts,
     EndPoints
<1>2. LocalsOK' /\ QueueOK' /\ GotoOK' /\ AcceptOK'
  BY <1>1 DEF Good, LocalsOK, QueueOK, GotoOK, AcceptOK, HasCur, CallPoints, EndPoints
<1>3. Laid' /\ gone' \subseteq All'
  BY <1>1, CharFacts DEF Good, Laid, All, TokPos, EOS
<1>. QED
  BY <1>2, <1>3 DEF Good

\* end() goes on with the eos after it has served as a lookahead.
LEMMA EndFedOnce == ASSUME IInv, Good, EndFed PROVE Good'
<1>1. /\ pc = "end_fed" /\ pc' = "end_ahead" /\ tok = None /\ arg = None /\ cur = EOS
      /\ m_prevSave = << >>
      /\ UNCHANGED <<p_state_stack, p_char_stack, p_not_finished, m_prevSave,
                     m_need_recover, tok, cur, arg, outcome, base, fed, gone>>
  BY DEF EndFed, Good, LocalsOK, QueueOK, HasCur, object, stacks, ghosts, EndPoints
<1>2. LocalsOK' /\ QueueOK' /\ GotoOK' /\ AcceptOK'
  BY <1>1 DEF Good, LocalsOK, QueueOK, GotoOK, AcceptOK, HasCur, CallPoints, EndPoints
<1>3. Laid' /\ gone' \subseteq All'
  BY <1>1 DEF Good, Laid, All, TokPos
<1>. QED
  BY <1>2, <1>3 DEF Good

\* The check at the end of end(): all that is held is on the char stack.
LEMMA EndCheckOnce ==
  ASSUME IInv, Good, EndCheck
  PROVE  Good' \/ \E a : Abort(a)
<1>1. /\ pc = "end_check" /\ tok = None /\ arg = None /\ cur = None
      /\ m_prevSave = << >> /\ ~IsPending /\ ~m_need_recover
      /\ UNCHANGED <<p_state_stack, p_char_stack, p_not_finished, m_prevSave,
                     m_need_recover>>
  BY DEF EndCheck, Good, LocalsOK, QueueOK, IInv, RecoverOK, HasCur, EndPoints, object
<1>2. ASSUME pc' = "idle", outcome' \in {"syntax", "accept"},
             tok' = None, arg' = None, cur' = None, UNCHANGED <<base, fed, gone>>,
             outcome' = "accept" => Len(p_char_stack) = 1
      PROVE  Good'
  <2>1. LocalsOK' /\ QueueOK' /\ GotoOK' /\ AcceptOK'
    BY <1>1, <1>2 DEF LocalsOK, QueueOK, GotoOK, AcceptOK, HasCur, IsPending, CallPoints,
       EndPoints
  <2>2. Laid' /\ gone' \subseteq All'
    BY <1>1, <1>2 DEF Good, Laid, All, TokPos
  <2>. QED
    BY <2>1, <2>2 DEF Good
<1>3. \/ \E a : Abort(a)
      \/ Throw("syntax", {})
      \/ Len(p_char_stack) = 1 /\ Return("accept") /\ UNCHANGED ghosts
  BY DEF EndCheck
<1>4. CASE Throw("syntax", {})
  BY <1>1, <1>2, <1>4, CharFacts DEF Throw, Return, NoLocals
<1>5. CASE Len(p_char_stack) = 1 /\ Return("accept") /\ UNCHANGED ghosts
  BY <1>2, <1>5 DEF Return, NoLocals, ghosts
<1>. QED
  BY <1>3, <1>4, <1>5

------------------------------------------------------------------------------
(* Steps that give tokens up or bring them back *)

\* reset() where it finds no token saved: the next parse starts with none.
LEMMA ResetCallOnce ==
  ASSUME Keeping \cap ResetAfter = {}, IInv, Good, ResetCall
  PROVE  Good'
<1>1. /\ pc = "idle" /\ pc' = "idle" /\ outcome \in ResetAfter /\ outcome' = "none"
      /\ tok = None /\ arg = None /\ cur = None
      /\ p_char_stack' = << >> /\ p_not_finished' = NothingPending
      /\ base' = base + Len(fed) /\ fed' = << >> /\ gone' = {}
      /\ UNCHANGED <<m_prevSave, m_need_recover, tok, arg, cur>>
  BY DEF ResetCall, Good, LocalsOK, HasCur, locals
<1>2. m_prevSave = << >> /\ ~m_need_recover
  BY <1>1 DEF Good, QueueOK, Keeping
<1>3. LocalsOK' /\ QueueOK' /\ GotoOK' /\ AcceptOK'
  BY <1>1, <1>2 DEF Good, LocalsOK, QueueOK, GotoOK, AcceptOK, HasCur, CallPoints, EndPoints
<1>4. Laid' /\ gone' \subseteq All'
  <2>1. All' = {}
    <3>1. base' \in Nat /\ Len(fed') = 0
      BY <1>1, Slots DEF IInv
    <3>2. \A b \in Nat : (b + 1)..(b + 0) = {}
      OBVIOUS
    <3>. QED
      BY <3>1, <3>2, Zenon DEF All
  <2>2. p_not_finished'.char.toks = {} /\ None.toks = {} /\ TokPos' = {}
    BY <1>1, CharFacts DEF NothingPending, NotFinished, TokPos
  <2>3. PositionsOf(<< >>) = {} /\ Ordered(<< >>)
    BY OrderedOne
  <2>. QED
    BY <1>1, <1>2, <2>1, <2>2, <2>3 DEF Laid, Line, Before
<1>. QED
  BY <1>3, <1>4 DEF Good

\* The token of feed() is given up by m_preAction or saved.
LEMMA EnterOnce == ASSUME IInv, Good, Enter PROVE Good'
<1>1. /\ pc = "enter" /\ IsLeaf(tok) /\ arg = None /\ cur = None /\ outcome = "running"
      /\ UNCHANGED <<p_char_stack, p_not_finished, m_need_recover, base, fed>>
      /\ p_state_stack' # << >>
  BY DEF Enter, Good, LocalsOK, HasCur, CallPoints
<1>2. tok \in Slot /\ m_prevSave \in Seq(Slot)
  BY Slots DEF IInv
<1>3. CASE /\ gone' = gone \cup tok.toks
           /\ Return("fed")
           /\ UNCHANGED m_prevSave
  <2>1. /\ pc' = "idle" /\ outcome' = "fed" /\ tok' = None /\ arg' = None /\ cur' = None
    BY <1>3 DEF Return, NoLocals
  <2>2. LocalsOK' /\ QueueOK' /\ GotoOK' /\ AcceptOK'
    BY <1>1, <1>3, <2>1 DEF Good, LocalsOK, QueueOK, GotoOK, AcceptOK, HasCur, CallPoints,
       EndPoints, Keeping
  <2>3. Laid' /\ gone' \subseteq All'
    <3>1. TokPos = tok.toks /\ TokPos' = {} /\ \E p \in Int : tok.toks = {p}
      BY <1>1, <1>2, <2>1, LeafFacts DEF TokPos
    <3>. QED
      BY <1>1, <1>3, <2>1, <3>1 DEF Good, Laid, All, Line, Before
  <2>. QED
    BY <2>2, <2>3 DEF Good
<1>4. CASE /\ m_prevSave' = Append(m_prevSave, tok)
           /\ pc' = IF m_need_recover THEN "recover" ELSE "loop"
           /\ UNCHANGED <<locals, outcome, gone>>
  <2>1. UNCHANGED <<tok, cur, arg, ret>> /\ pc' \in {"recover", "loop"}
    BY <1>4 DEF locals
  <2>2. m_prevSave = << >> => m_prevSave' = <<tok>>
    BY <1>2, <1>4
  <2>3. LocalsOK' /\ QueueOK' /\ GotoOK' /\ AcceptOK'
    BY <1>1, <1>4, <2>1, <2>2 DEF Good, LocalsOK, QueueOK, GotoOK, AcceptOK, HasCur,
       CallPoints, EndPoints, IsLeaf
  <2>4. Laid' /\ gone' \subseteq All'
    <3>1. /\ PositionsOf(m_prevSave') = PositionsOf(m_prevSave) \cup tok.toks
          /\ Ordered(m_prevSave') <=> /\ Ordered(m_prevSave)
                                      /\ Before(PositionsOf(m_prevSave), tok.toks)
      BY <1>2, <1>4, OrderedAppend
    <3>2. TokPos = tok.toks /\ TokPos' = {}
      BY <1>1, <2>1 DEF TokPos
    <3>. QED
      BY <1>1, <1>4, <2>1, <3>1, <3>2 DEF Good, Laid, All, Line, Before
  <2>. QED
    BY <2>3, <2>4 DEF Good
<1>. QED
  BY <1>3, <1>4 DEF Enter

\* What an answer of m_recFn that keeps no token can be.
LEMMA AnswerKinds ==
  ASSUME ~KeepsTokens, NEW saved, NEW a \in Answers(saved)
  PROVE  /\ Recovery = {} => a.kind = "fail" /\ a.take = 0
         /\ a.kind = "resume" => a.take = Len(saved)
         /\ a.kind = "fail" /\ Recovery # {} => a.take = Len(saved)
         /\ a.kind = "wait" => a.take = 0 /\ "wait" \in Recovery
         /\ a.kind \in {"resume", "fail", "wait"}
  BY DEF Answers

\* Cutting the stacks and the saved tokens gives up exactly what it cuts off.
LEMMA CutLaid ==
  ASSUME IInv, p_state_stack # << >>, ~IsPending,
         NEW saved \in Seq(DChar), NEW a \in Answers(saved), Cut(a, saved),
         PositionsOf(p_char_stack) \cup PositionsOf(saved) = All \ gone,
         Ordered(p_char_stack), Ordered(saved),
         Before(PositionsOf(p_char_stack), PositionsOf(saved)),
         gone \subseteq All, gone' = gone \cup Dropped(a, saved),
         UNCHANGED <<base, fed>>, arg' = None, cur' = None, pc' \notin {"enter", "catch"}
  PROVE  Laid' /\ gone' \subseteq All'
<1> DEFINE n  == Len(p_char_stack) - a.rm
           c1 == SubSeq(p_char_stack, 1, n)
           c2 == SubSeq(p_char_stack, n + 1, Len(p_char_stack))
           s1 == SubSeq(saved, 1, a.take)
           s2 == SubSeq(saved, a.take + 1, Len(saved))
<1>1. a.rm \in 0..(Len(p_state_stack) - 1) /\ a.take \in 0..Len(saved)
  BY AnswerFacts DEF IInv
<1>2. /\ p_char_stack \in Seq(Slot) /\ saved \in Seq(Slot)
      /\ p_char_stack \in Seq(DChar) /\ p_state_stack \in Seq(States)
  BY Slots DEF IInv, TypeOK, Slot
<1>3. n \in 0..Len(p_char_stack)
  <2>1. a.rm <= Len(p_char_stack)
    BY <1>1, <1>2, ViableCut DEF IInv, ViablePrefix
  <2>. QED
    BY <2>1, <1>1, <1>2
<1>4. /\ PositionsOf(p_char_stack) = PositionsOf(c1) \cup PositionsOf(c2)
      /\ Ordered(c1) /\ Before(PositionsOf(c1), PositionsOf(c2))
  BY <1>2, <1>3, OrderedSplit
<1>5. /\ PositionsOf(saved) = PositionsOf(s1) \cup PositionsOf(s2)
      /\ Ordered(s2) /\ Before(PositionsOf(s1), PositionsOf(s2))
  BY <1>1, <1>2, OrderedSplit
<1>6. /\ p_char_stack' = c1 /\ m_prevSave' = s2 /\ UNCHANGED p_not_finished
      /\ Dropped(a, saved) = PositionsOf(s1) \cup PositionsOf(c2)
  <2>1. Len(p_char_stack) - a.rm + 1 = n + 1
    OBVIOUS
  <2>. QED
    BY <2>1, Zenon DEF Cut, Dropped
<1>7. p_not_finished'.char.toks = {} /\ arg'.toks = {} /\ cur'.toks = {}
      /\ TokPos' = {} /\ All' = All /\ All \subseteq Int
  BY <1>6, CharFacts DEF IsPending, TokPos, All
<1> HIDE DEF n, c1, c2, s1, s2
<1>8. PositionsOf(c1) \cup PositionsOf(s2) = All \ gone'
  <2>1. PositionsOf(c1) \cup PositionsOf(s2) \subseteq Int
    BY <1>4, <1>5, <1>7
  <2>2. /\ Before(PositionsOf(c1), PositionsOf(c2)) /\ Before(PositionsOf(c1), PositionsOf(s1))
        /\ Before(PositionsOf(c2), PositionsOf(s2)) /\ Before(PositionsOf(s1), PositionsOf(s2))
    BY <1>4, <1>5 DEF Before
  <2>3. \A p \in PositionsOf(c1) : p \notin PositionsOf(c2) /\ p \notin PositionsOf(s1)
    BY <2>1, <2>2 DEF Before
  <2>4. \A p \in PositionsOf(s2) : p \notin PositionsOf(c2) /\ p \notin PositionsOf(s1)
    BY <2>1, <2>2 DEF Before
  <2>. QED
    BY <1>4, <1>5, <1>6, <2>3, <2>4
<1>9. Before(PositionsOf(c1), PositionsOf(s2))
  BY <1>4, <1>5 DEF Before
<1>10. gone' \subseteq All
  BY <1>4, <1>5, <1>6
<1>11. \A X : Before(X, {}) /\ Before({}, X)
  BY DEF Before
<1>12. Line(PositionsOf(c1), {}, {}, {}, PositionsOf(s2), {})
  BY <1>9, <1>11 DEF Line
<1>. QED
  BY <1>4, <1>5, <1>6, <1>7, <1>8, <1>10, <1>12 DEF Laid

\* The recovery shown a saved rejection by feed().
LEMMA RecoverOnFeedOnce ==
  ASSUME ~KeepsTokens, IInv, Good, RecoverOnFeed
  PROVE  Good' \/ \E a : Abort(a)
<1>1. /\ pc = "recover" /\ m_prevSave \in Seq(DChar) /\ p_state_stack # << >>
      /\ arg = None /\ cur = None /\ IsLeaf(tok) /\ outcome = "running"
      /\ m_need_recover /\ "wait" \in Recovery /\ ~IsPending /\ TokPos = {}
  BY DEF RecoverOnFeed, IInv, TypeOK, ControlOK, RecoverOK, Good, LocalsOK, QueueOK,
     HasCur, TokPos, CallPoints
<1>2. PICK a \in Answers(m_prevSave) :
        \/ Abort("recover_from_reject")
        \/ Resume(a, m_prevSave, "loop")
        \/ a.kind = "fail" /\ GiveUp(a, m_prevSave, "optional")
        \/ Return("fed") /\ UNCHANGED <<object, ghosts>>
  BY DEF RecoverOnFeed
<1>3. /\ PositionsOf(p_char_stack) \cup PositionsOf(m_prevSave) = All \ gone
      /\ Ordered(p_char_stack) /\ Ordered(m_prevSave) /\ gone \subseteq All
      /\ Before(PositionsOf(p_char_stack), PositionsOf(m_prevSave))
  BY <1>1, CharFacts DEF Good, Laid, Line, IsPending
<1>4. ASSUME Cut(a, m_prevSave), a.take = Len(m_prevSave) PROVE m_prevSave' = << >>
  BY <1>1, <1>4, SubSeqEmpty DEF Cut
<1>5. CASE Resume(a, m_prevSave, "loop")
  <2>1. /\ pc' = "loop" /\ m_prevSave' = << >> /\ ~m_need_recover' /\ arg' = None
        /\ UNCHANGED <<ret, tok, cur, outcome, base, fed>>
        /\ Cut(a, m_prevSave) /\ gone' = gone \cup Dropped(a, m_prevSave)
    BY <1>4, <1>5, AnswerKinds DEF Resume
  <2>2. LocalsOK' /\ QueueOK' /\ GotoOK' /\ AcceptOK'
    BY <1>1, <2>1 DEF LocalsOK, QueueOK, GotoOK, AcceptOK, HasCur, CallPoints, EndPoints,
       IsLeaf
  <2>3. Laid' /\ gone' \subseteq All'
    BY <1>1, <1>3, <2>1, CutLaid
  <2>. QED
    BY <2>2, <2>3 DEF Good
<1>6. CASE a.kind = "fail" /\ GiveUp(a, m_prevSave, "optional")
  <2>1. /\ pc' = "idle" /\ m_prevSave' = << >> /\ ~m_need_recover' /\ outcome' = "optional"
        /\ arg' = None /\ cur' = None /\ tok' = None
        /\ UNCHANGED <<base, fed>>
        /\ Cut(a, m_prevSave) /\ gone' = gone \cup Dropped(a, m_prevSave)
    BY <1>1, <1>4, <1>6, AnswerKinds, CharFacts DEF GiveUp, Throw, Return, NoLocals
  <2>2. LocalsOK' /\ QueueOK' /\ GotoOK' /\ AcceptOK'
    BY <1>1, <2>1 DEF LocalsOK, QueueOK, GotoOK, AcceptOK, HasCur, CallPoints, EndPoints
  <2>3. Laid' /\ gone' \subseteq All'
    BY <1>1, <1>3, <2>1, CutLaid
  <2>. QED
    BY <2>2, <2>3 DEF Good
<1>7. CASE Return("fed") /\ UNCHANGED <<object, ghosts>>
  <2>1. /\ pc' = "idle" /\ outcome' = "fed" /\ arg' = None /\ cur' = None /\ tok' = None
        /\ UNCHANGED <<p_state_stack, p_char_stack, p_not_finished, m_prevSave,
                       m_need_recover, base, fed, gone>>
    BY <1>7 DEF Return, NoLocals, object, stacks, ghosts
  <2>2. LocalsOK' /\ QueueOK' /\ GotoOK' /\ AcceptOK'
    BY <1>1, <2>1 DEF LocalsOK, QueueOK, GotoOK, AcceptOK, HasCur, CallPoints, EndPoints,
       Keeping
  <2>3. Laid' /\ gone' \subseteq All'
    BY <1>1, <2>1 DEF Good, Laid, All, TokPos
  <2>. QED
    BY <2>2, <2>3 DEF Good
<1>. QED
  BY <1>2, <1>5, <1>6, <1>7

\* The recovery in the catch block of feed(): the token that was rejected is saved
\* and is held nowhere else.
LEMMA RecoverOnCatchOnce ==
  ASSUME ~KeepsTokens, IInv, Good, RecoverOnCatch
  PROVE  Good' \/ \E a : Abort(a)
<1> DEFINE saved == Append(m_prevSave, tok)
<1>1. /\ pc = "catch" /\ p_state_stack # << >> /\ IsLeaf(tok) /\ m_prevSave = << >>
      /\ arg = None /\ cur = None /\ outcome = "running"
      /\ ~IsPending /\ TokPos = tok.toks
  BY DEF RecoverOnCatch, IInv, ControlOK, RecoverOK, Good, LocalsOK, QueueOK,
     HasCur, TokPos, CallPoints
<1>2. /\ tok \in DChar /\ saved \in Seq(DChar) /\ saved = <<tok>>
      /\ PositionsOf(saved) = tok.toks /\ Ordered(saved)
  <2>1. tok \in DChar /\ saved = <<tok>>
    BY <1>1, LeafFacts, Slots DEF IInv
  <2>2. saved \in Seq(DChar)
    BY <2>1
  <2>. QED
    BY <2>1, <2>2, OrderedOne, Zenon
<1>3. PICK a \in Answers(saved) :
        \/ \E b : Abort(b)
        \/ Resume(a, saved, "tail")
        \/ a.kind = "fail" /\ GiveUp(a, saved, "reject")
        \/ /\ a.kind = "wait"
           /\ m_prevSave' = saved /\ m_need_recover' = TRUE
           /\ Return("fed")
           /\ UNCHANGED <<stacks, p_not_finished, ghosts>>
  BY DEF RecoverOnCatch
<1> HIDE DEF saved
<1>4. /\ PositionsOf(p_char_stack) \cup PositionsOf(saved) = All \ gone
      /\ Ordered(p_char_stack) /\ gone \subseteq All
      /\ Before(PositionsOf(p_char_stack), PositionsOf(saved))
  <2>1. PositionsOf(m_prevSave) = {}
    BY <1>1, OrderedOne
  <2>. QED
    BY <1>1, <1>2, <2>1, CharFacts DEF Good, Laid, Line, IsPending
<1>5. ASSUME Cut(a, saved), a.take = Len(saved) PROVE m_prevSave' = << >>
  BY <1>2, <1>5, SubSeqEmpty DEF Cut
<1>6. CASE Resume(a, saved, "tail")
  <2>1. /\ pc' = "tail" /\ m_prevSave' = << >> /\ ~m_need_recover' /\ arg' = None
        /\ UNCHANGED <<ret, tok, cur, outcome, base, fed>>
        /\ Cut(a, saved) /\ gone' = gone \cup Dropped(a, saved)
    BY <1>5, <1>6, AnswerKinds DEF Resume
  <2>2. LocalsOK' /\ QueueOK' /\ GotoOK' /\ AcceptOK'
    BY <1>1, <2>1 DEF LocalsOK, QueueOK, GotoOK, AcceptOK, HasCur, CallPoints, EndPoints,
       IsLeaf
  <2>3. Laid' /\ gone' \subseteq All'
    BY <1>1, <1>2, <1>4, <2>1, CutLaid
  <2>. QED
    BY <2>2, <2>3 DEF Good
<1>7. CASE a.kind = "fail" /\ GiveUp(a, saved, "reject")
  <2>1. /\ pc' = "idle" /\ ~m_need_recover' /\ outcome' = "reject"
        /\ Recovery # {} => m_prevSave' = << >>
        /\ arg' = None /\ cur' = None /\ tok' = None
        /\ UNCHANGED <<base, fed>>
        /\ Cut(a, saved) /\ gone' = gone \cup Dropped(a, saved)
    BY <1>1, <1>5, <1>7, AnswerKinds, CharFacts DEF GiveUp, Throw, Return, NoLocals
  <2>2. LocalsOK' /\ QueueOK' /\ GotoOK' /\ AcceptOK'
    BY <1>1, <2>1 DEF LocalsOK, QueueOK, GotoOK, AcceptOK, HasCur, CallPoints, EndPoints,
       Keeping
  <2>3. Laid' /\ gone' \subseteq All'
    BY <1>1, <1>2, <1>4, <2>1, CutLaid
  <2>. QED
    BY <2>2, <2>3 DEF Good
<1>8. CASE /\ a.kind = "wait"
           /\ m_prevSave' = saved /\ m_need_recover' = TRUE
           /\ Return("fed")
           /\ UNCHANGED <<stacks, p_not_finished, ghosts>>
  <2>1. /\ pc' = "idle" /\ outcome' = "fed" /\ arg' = None /\ cur' = None /\ tok' = None
        /\ UNCHANGED <<p_state_stack, p_char_stack, p_not_finished, base, fed, gone>>
        /\ "wait" \in Recovery
    BY <1>8, AnswerKinds DEF Return, NoLocals, stacks, ghosts
  <2>2. LocalsOK' /\ QueueOK' /\ GotoOK' /\ AcceptOK'
    BY <1>1, <1>8, <2>1 DEF LocalsOK, QueueOK, GotoOK, AcceptOK, HasCur, CallPoints,
       EndPoints, Keeping
  <2>3. Laid' /\ gone' \subseteq All'
    BY <1>1, <1>2, <1>4, <1>8, <2>1, CharFacts DEF IsPending, Laid, Line, Before, All, TokPos
  <2>. QED
    BY <2>2, <2>3 DEF Good
<1>. QED
  BY <1>3, <1>6, <1>7, <1>8

\* The recovery in end().
LEMMA RecoverOnEndOnce ==
  ASSUME ~KeepsTokens, IInv, Good, RecoverOnEnd
  PROVE  Good' \/ \E a : Abort(a)
<1>1. /\ pc = "end_recover" /\ m_prevSave \in Seq(DChar) /\ p_state_stack # << >>
      /\ arg = None /\ cur = None /\ tok = None /\ outcome = "running"
      /\ m_need_recover /\ "wait" \in Recovery /\ ~IsPending /\ TokPos = {}
  BY DEF RecoverOnEnd, IInv, TypeOK, ControlOK, RecoverOK, Good, LocalsOK, QueueOK,
     HasCur, TokPos, EndPoints
<1>2. PICK a \in Answers(m_prevSave) :
        \/ Abort("recover_from_reject")
        \/ Resume(a, m_prevSave, "end_loop")
        \/ GiveUp(a, m_prevSave, "optional")
  BY DEF RecoverOnEnd
<1>3. /\ PositionsOf(p_char_stack) \cup PositionsOf(m_prevSave) = All \ gone
      /\ Ordered(p_char_stack) /\ Ordered(m_prevSave) /\ gone \subseteq All
      /\ Before(PositionsOf(p_char_stack), PositionsOf(m_prevSave))
  BY <1>1, CharFacts DEF Good, Laid, Line, IsPending
<1>4. ASSUME Cut(a, m_prevSave), a.take = Len(m_prevSave) PROVE m_prevSave' = << >>
  BY <1>1, <1>4, SubSeqEmpty DEF Cut
<1>5. CASE Resume(a, m_prevSave, "end_loop")
  <2>1. /\ pc' = "end_loop" /\ m_prevSave' = << >> /\ ~m_need_recover' /\ arg' = None
        /\ UNCHANGED <<ret, tok, cur, outcome, base, fed, p_not_finished>>
        /\ Cut(a, m_prevSave) /\ gone' = gone \cup Dropped(a, m_prevSave)
    BY <1>4, <1>5, AnswerKinds DEF Resume, Cut
  <2>2. LocalsOK' /\ QueueOK' /\ GotoOK' /\ AcceptOK'
    BY <1>1, <2>1 DEF LocalsOK, QueueOK, GotoOK, AcceptOK, HasCur, IsPending, CallPoints,
       EndPoints
  <2>3. Laid' /\ gone' \subseteq All'
    BY <1>1, <1>3, <2>1, CutLaid
  <2>. QED
    BY <2>2, <2>3 DEF Good
<1>6. CASE GiveUp(a, m_prevSave, "optional")
  <2>1. /\ pc' = "idle" /\ ~m_need_recover' /\ outcome' = "optional"
        /\ arg' = None /\ cur' = None /\ tok' = None
        /\ UNCHANGED <<base, fed>>
        /\ Cut(a, m_prevSave) /\ gone' = gone \cup Dropped(a, m_prevSave)
    BY <1>1, <1>6, CharFacts DEF GiveUp, Throw, Return, NoLocals
  <2>2. LocalsOK' /\ QueueOK' /\ GotoOK' /\ AcceptOK'
    BY <1>1, <2>1 DEF LocalsOK, QueueOK, GotoOK, AcceptOK, HasCur, CallPoints, EndPoints,
       Keeping
  <2>3. Laid' /\ gone' \subseteq All'
    BY <1>1, <1>3, <2>1, CutLaid
  <2>. QED
    BY <2>2, <2>3 DEF Good
<1>. QED
  BY <1>2, <1>5, <1>6

------------------------------------------------------------------------------
(* Steps that reduce *)

\* Where a running call may be when it reduces char c, and where it goes on: at a
\* lookahead c is the char that waited for it, in feed_internal it is arg.
Reducing(c, back) ==
    \/ pc = "ahead" /\ back = "ahead" /\ c = p_not_finished.char /\ arg = None
    \/ pc = "end_ahead" /\ back = "end_fed" /\ c = p_not_finished.char /\ arg = None
    \/ pc = "feed" /\ back = ret /\ c = arg /\ p_not_finished.char = None

\* The tokens at such a point.
LEMMA ReducingLaid ==
  ASSUME IInv, Good, NEW c \in DChar, NEW back, Reducing(c, back)
  PROVE  /\ outcome = "running" /\ m_prevSave = << >> /\ ~m_need_recover
         /\ PositionsOf(m_prevSave) = {} /\ TokPos = {}
         /\ back \in {"loop", "ahead", "end_fed"}
         /\ cur = IF back = "loop" THEN None ELSE IF tok = None THEN EOS ELSE tok
         /\ IF back = "end_fed" THEN tok = None ELSE IsLeaf(tok)
         /\ PositionsOf(p_char_stack) \cup c.toks \cup cur.toks = All \ gone
         /\ Ordered(p_char_stack) /\ gone \subseteq All
         /\ Before(PositionsOf(p_char_stack), c.toks)
         /\ Before(PositionsOf(p_char_stack), cur.toks) /\ Before(c.toks, cur.toks)
         /\ arg = c \/ arg = None
<1>1. /\ outcome = "running" /\ m_prevSave = << >> /\ ~m_need_recover /\ TokPos = {}
      /\ back \in {"loop", "ahead", "end_fed"}
  BY DEF Reducing, Good, LocalsOK, QueueOK, IInv, RecoverOK, ControlOK, TokPos
<1>2. IF back = "end_fed" THEN tok = None ELSE IsLeaf(tok)
  BY <1>1 DEF Reducing, Good, LocalsOK, CallPoints, EndPoints
<1>3. cur = IF back = "loop" THEN None ELSE IF tok = None THEN EOS ELSE tok
  BY <1>1 DEF Reducing, Good, LocalsOK, HasCur
<1>4. PositionsOf(m_prevSave) = {}
  BY <1>1, OrderedOne
<1>5. /\ PositionsOf(p_char_stack) \cup c.toks \cup cur.toks = All \ gone
      /\ Ordered(p_char_stack) /\ gone \subseteq All
      /\ Before(PositionsOf(p_char_stack), c.toks)
      /\ Before(PositionsOf(p_char_stack), cur.toks) /\ Before(c.toks, cur.toks)
  BY <1>1, <1>4, CharFacts DEF Reducing, Good, Laid, Line
<1>. QED
  BY <1>1, <1>2, <1>3, <1>4, <1>5 DEF Reducing

\* Chars and what follows, once the chars are split in two.
LEMMA SplitLine ==
  ASSUME NEW B, NEW K, NEW U, Before(B, K), Before(B \cup K, U)
  PROVE  /\ Line(B, {}, K, U, {}, {}) /\ Line(B \cup K, {}, {}, U, {}, {})
         /\ Line(B, {}, {}, {}, {}, {})
  BY DEF Line, Before

\* A reduction gives the tokens of its right side to the nonterminal.
LEMMA DoReduceOnce ==
  ASSUME IInv, Good, NEW c \in DChar, NEW e, ReduceSound(Top, c.id, e),
         NEW back, GoesOnAt(back), Reducing(c, back),
         NEW waiting, waiting.char = None, DoReduce(e.rule, c, back, waiting)
  PROVE  Good'
<1> DEFINE n      == Len(Rhs(e.rule))
           chars  == Append(p_char_stack, c)
           states == Append(p_state_stack, StartState)
           kids   == SubSeq(chars, Len(chars) - n + 1, Len(chars))
           below  == Below(e.rule, chars)
           left   == Below(e.rule, states)
           nt     == Reduction(e.rule, kids)
<1>1. /\ p_state_stack \in Seq(States) /\ p_char_stack \in Seq(DChar)
      /\ p_state_stack # << >> /\ e.rule \in RuleId
      /\ Viable(p_state_stack, p_char_stack)
  BY DEF IInv, TypeOK, ViablePrefix, GoesOnAt, ReduceSound
<1>2. ReduceSound(p_state_stack[Len(p_state_stack)], c.id, e)
  BY DEF Top
<1>3. /\ n \in Nat \ {0} /\ n <= Len(p_state_stack) /\ n <= Len(p_char_stack) + 1
      /\ <<e.rule, 0>> \in StateItems[p_state_stack[Len(p_state_stack) + 1 - n]]
  BY <1>1, <1>2, ReduceFits, Zenon
<1>4. /\ DoReduceAsserts(e.rule, chars, states)
      /\ left \in Seq(States) /\ left # << >>
      /\ kids \in Seq(DChar) /\ below \in Seq(DChar)
  BY <1>1, <1>2, ReduceStacks, Zenon DEF Below
<1>5. <<e.rule, 0>> \in StateItems[left[Len(left)]]
  <2>1. Len(states) = Len(p_state_stack) + 1 /\ Len(p_state_stack) \in Nat
        /\ \A j \in 1..Len(p_state_stack) : states[j] = p_state_stack[j]
    BY <1>1
  <2>2. Len(p_state_stack) + 1 - n \in 1..Len(p_state_stack)
    BY <1>1, <1>3
  <2>3. left = SubSeq(states, 1, Len(p_state_stack) + 1 - n)
    BY <2>1 DEF Below
  <2>4. Len(left) = Len(p_state_stack) + 1 - n /\ left[Len(left)] = states[Len(left)]
    BY <2>1, <2>2, <2>3
  <2>. QED
    BY <1>3, <2>1, <2>2, <2>4
<1>6. /\ chars \in Seq(Slot)
      /\ PositionsOf(chars) = PositionsOf(p_char_stack) \cup c.toks
      /\ Ordered(chars) <=> Ordered(p_char_stack) /\ Before(PositionsOf(p_char_stack), c.toks)
  <2>1. p_char_stack \in Seq(Slot) /\ c \in Slot
    BY <1>1 DEF Slot
  <2>2. chars \in Seq(Slot)
    BY <2>1
  <2>. QED
    BY <2>1, <2>2, OrderedAppend
<1>7. /\ PositionsOf(chars) = PositionsOf(below) \cup PositionsOf(kids)
      /\ Ordered(chars) <=> /\ Ordered(below) /\ Ordered(kids)
                            /\ Before(PositionsOf(below), PositionsOf(kids))
  <2> DEFINE b == Len(chars) - n
  <2>1. b \in 0..Len(chars) /\ b + 1 = Len(chars) - n + 1
    BY <1>1, <1>3
  <2>2. kids = SubSeq(chars, b + 1, Len(chars)) /\ below = SubSeq(chars, 1, b)
    BY Zenon DEF Below
  <2> HIDE DEF b, chars, kids, below
  <2>. QED
    BY <2>1, <2>2, <1>6, OrderedSplit
<1>8. c.toks \subseteq PositionsOf(kids)
  <2>1. /\ Len(chars) = Len(p_char_stack) + 1 /\ chars[Len(chars)] = c
        /\ Len(chars) \in Nat /\ Len(chars) - n + 1 \in 1..Len(chars)
    BY <1>1, <1>3
  <2>2. n \in DOMAIN kids /\ kids[n] = c
    <3> HIDE DEF chars
    <3>. QED
      BY <2>1, <1>3
  <2> HIDE DEF kids
  <2>. QED
    BY <2>2 DEF PositionsOf
<1>9. /\ nt.id = Lhs(e.rule) /\ nt.toks = PositionsOf(kids) /\ nt.id \in Nonterms
      /\ below \in Seq(Slot) /\ nt \in Slot
  <2>1. nt.id = Lhs(e.rule) /\ nt.toks = PositionsOf(kids)
    BY DEF Reduction
  <2>2. nt \in DChar
    BY <1>1, <1>4, ReductionIsChar
  <2>3. below \in Seq(Slot)
    BY <1>4 DEF Slot
  <2>. QED
    BY <2>1, <2>2, <2>3, <1>1, GrammarAssumption DEF Slot, IsGrammar
<1>10. /\ p_state_stack' = left
       /\ p_not_finished' = waiting
       /\ UNCHANGED <<m_prevSave, m_need_recover>>
       /\ \/ /\ p_char_stack' = below
             /\ Throw("error", PositionsOf(kids))
          \/ /\ Lhs(e.rule) = RealStart
             /\ p_char_stack' = Append(below, nt)
             /\ pc' = back /\ ret' = "" /\ arg' = None
             /\ UNCHANGED <<tok, cur, outcome, ghosts>>
          \/ /\ Lhs(e.rule) # RealStart
             /\ p_char_stack' = below
             /\ pc' = "feed" /\ ret' = back /\ arg' = nt
             /\ UNCHANGED <<tok, cur, outcome, ghosts>>
  BY <1>4, Zenon DEF DoReduce
<1>11. /\ outcome = "running" /\ m_prevSave = << >> /\ ~m_need_recover
       /\ PositionsOf(m_prevSave) = {} /\ TokPos = {}
       /\ back \in {"loop", "ahead", "end_fed"}
       /\ cur = IF back = "loop" THEN None ELSE IF tok = None THEN EOS ELSE tok
       /\ IF back = "end_fed" THEN tok = None ELSE IsLeaf(tok)
       /\ PositionsOf(p_char_stack) \cup c.toks \cup cur.toks = All \ gone
       /\ Ordered(p_char_stack) /\ gone \subseteq All
       /\ Before(PositionsOf(p_char_stack), c.toks)
       /\ Before(PositionsOf(p_char_stack), cur.toks) /\ Before(c.toks, cur.toks)
       /\ arg = c \/ arg = None
  BY ReducingLaid
<1> HIDE DEF n, chars, states, kids, below, left, nt
<1>12. /\ PositionsOf(below) \cup PositionsOf(kids) \cup cur.toks = All \ gone
       /\ Ordered(below) /\ Before(PositionsOf(below), PositionsOf(kids))
       /\ Before(PositionsOf(below) \cup PositionsOf(kids), cur.toks)
  BY <1>6, <1>7, <1>11 DEF Before
<1>13. /\ Line(PositionsOf(below), {}, PositionsOf(kids), cur.toks, {}, {})
       /\ Line(PositionsOf(below) \cup PositionsOf(kids), {}, {}, cur.toks, {}, {})
       /\ Line(PositionsOf(below), {}, {}, {}, {}, {})
  BY <1>12, SplitLine
<1>14. /\ None.toks = {} /\ p_not_finished'.char.toks = {} /\ PositionsOf(m_prevSave') = {}
       /\ Ordered(m_prevSave') /\ m_prevSave' = << >> /\ ~m_need_recover'
  BY <1>10, <1>11, CharFacts, OrderedOne
<1>15. CASE p_char_stack' = below /\ Throw("error", PositionsOf(kids))
  <2>1. /\ pc' = "idle" /\ outcome' = "error" /\ tok' = None /\ arg' = None /\ cur' = None
        /\ gone' = gone \cup arg.toks \cup cur.toks \cup PositionsOf(kids)
        /\ All' = All /\ TokPos' = {}
    BY <1>15 DEF Throw, Return, NoLocals, All, TokPos
  <2>2. LocalsOK' /\ QueueOK' /\ GotoOK' /\ AcceptOK'
    BY <1>14, <2>1 DEF LocalsOK, QueueOK, GotoOK, AcceptOK, HasCur, CallPoints, EndPoints
  <2>3. gone' = gone \cup cur.toks \cup PositionsOf(kids)
    BY <2>1, <1>8, <1>11, <1>14
  <2>4. PositionsOf(below) = All \ gone' /\ gone' \subseteq All
    <3>1. \A p \in PositionsOf(below) : p \in Int /\ p \notin PositionsOf(kids) /\ p \notin cur.toks
      <4>1. PositionsOf(below) \subseteq Int
        BY <1>12 DEF All
      <4>. QED
        BY <4>1, <1>12 DEF Before
    <3>. QED
      BY <2>3, <3>1, <1>11, <1>12
  <2>5. Laid'
    BY <1>12, <1>13, <1>14, <1>15, <2>1, <2>4 DEF Laid
  <2>. QED
    BY <2>1, <2>2, <2>4, <2>5 DEF Good
<1>16. CASE /\ p_char_stack' = Append(below, nt)
            /\ pc' = back /\ ret' = "" /\ arg' = None
            /\ UNCHANGED <<tok, cur, outcome, ghosts>>
  <2>1. LocalsOK' /\ QueueOK' /\ GotoOK' /\ AcceptOK'
    BY <1>11, <1>14, <1>16 DEF LocalsOK, QueueOK, GotoOK, AcceptOK, HasCur, CallPoints,
       EndPoints, IsLeaf
  <2>2. All' = All /\ TokPos' = {} /\ gone' = gone
    BY <1>11, <1>16 DEF All, TokPos, ghosts
  <2>3. /\ PositionsOf(p_char_stack') = PositionsOf(below) \cup PositionsOf(kids)
        /\ Ordered(p_char_stack')
    BY <1>9, <1>12, <1>16, OrderedAppend
  <2>4. Laid'
    BY <1>12, <1>13, <1>14, <1>16, <2>2, <2>3 DEF Laid
  <2>. QED
    BY <1>11, <2>1, <2>2, <2>4 DEF Good
<1>17. CASE /\ Lhs(e.rule) # RealStart
            /\ p_char_stack' = below
            /\ pc' = "feed" /\ ret' = back /\ arg' = nt
            /\ UNCHANGED <<tok, cur, outcome, ghosts>>
  <2>1. LocalsOK' /\ QueueOK' /\ AcceptOK'
    BY <1>9, <1>11, <1>14, <1>17 DEF LocalsOK, QueueOK, AcceptOK, HasCur, CallPoints,
       EndPoints, IsLeaf
  <2>2. GotoOK'
    BY <1>1, <1>5, <1>9, <1>10, <1>17 DEF GotoOK, Top
  <2>3. All' = All /\ TokPos' = {} /\ gone' = gone
    BY <1>11, <1>17 DEF All, TokPos, ghosts
  <2>4. Laid'
    BY <1>9, <1>12, <1>13, <1>14, <1>17, <2>3 DEF Laid
  <2>. QED
    BY <1>11, <2>1, <2>2, <2>3, <2>4 DEF Good
<1>. QED
  BY <1>10, <1>15, <1>16, <1>17

\* handle_lookahead, from feed() or from end().
LEMMA HandleLookaheadOnce ==
  ASSUME IInv, Good, NEW back, GoesOnAt(back), cur # None, HandleLookahead(back),
         \/ pc = "ahead" /\ back = "ahead"
         \/ pc = "end_ahead" /\ back = "end_fed"
  PROVE  Good'
<1> DEFINE entry == p_not_finished.next[cur.id]
           c     == p_not_finished.char
<1>1. /\ IsPending /\ c \in DChar /\ c # None /\ p_state_stack # << >>
      /\ arg = None /\ Reducing(c, back)
  BY DEF HandleLookahead, IsPending, IInv, TypeOK, GoesOnAt, Good, LocalsOK, Reducing
<1>2. /\ outcome = "running" /\ m_prevSave = << >> /\ ~m_need_recover
      /\ PositionsOf(m_prevSave) = {} /\ TokPos = {}
      /\ cur = IF tok = None THEN EOS ELSE tok
      /\ IF back = "end_fed" THEN tok = None ELSE IsLeaf(tok)
      /\ PositionsOf(p_char_stack) \cup c.toks \cup cur.toks = All \ gone
      /\ Ordered(p_char_stack) /\ gone \subseteq All
      /\ Before(PositionsOf(p_char_stack), c.toks)
      /\ Before(PositionsOf(p_char_stack), cur.toks) /\ Before(c.toks, cur.toks)
  <2> HIDE DEF c
  <2>. QED
    BY <1>1, ReducingLaid
<1>3. LookaheadSound(Top, c.id, LOOKAHEAD(p_not_finished.next))
  BY <1>1 DEF IInv, PendingOK
<1>4. /\ DOMAIN p_not_finished.next = Terms \cup {EOF}
      /\ \A t \in Terms \cup {EOF} :
            \/ ShiftSound(Top, c.id, p_not_finished.next[t])
            \/ ReduceSound(Top, c.id, p_not_finished.next[t])
  BY <1>3 DEF LookaheadSound, LOOKAHEAD
<1>5. CASE Throw("unknown", {}) /\ UNCHANGED object
  <2>1. /\ pc' = "idle" /\ outcome' = "unknown" /\ tok' = None /\ arg' = None /\ cur' = None
        /\ UNCHANGED <<p_state_stack, p_char_stack, p_not_finished, m_prevSave,
                       m_need_recover, base, fed>>
        /\ gone' = gone \cup cur.toks
    BY <1>1, <1>5, CharFacts DEF Throw, Return, NoLocals, object, stacks
  <2>2. LocalsOK' /\ QueueOK' /\ GotoOK' /\ AcceptOK'
    BY <1>2, <2>1 DEF LocalsOK, QueueOK, GotoOK, AcceptOK, HasCur, CallPoints, EndPoints
  <2>3. All' = All /\ TokPos' = {} /\ All \subseteq Int
    BY <2>1 DEF All, TokPos
  <2>4. Laid' /\ gone' \subseteq All'
    <3>1. \A p \in cur.toks : p \notin PositionsOf(p_char_stack) /\ p \notin c.toks
      <4>1. cur.toks \subseteq Int
        BY <1>2, <2>3
      <4>. QED
        BY <4>1, <1>2 DEF Before
    <3>2. PositionsOf(p_char_stack) \cup c.toks = All \ gone' /\ gone' \subseteq All
      BY <1>2, <2>1, <3>1
    <3>3. Line(PositionsOf(p_char_stack), c.toks, {}, {}, {}, {})
      BY <1>2 DEF Line, Before
    <3>. QED
      BY <1>2, <2>1, <2>3, <3>2, <3>3, CharFacts DEF Good, Laid
  <2>. QED
    BY <2>2, <2>4 DEF Good
<1>6. CASE /\ cur.id \in DOMAIN p_not_finished.next /\ entry.type = "REDUCE"
           /\ DoReduce(entry.rule, c, back, NothingPending)
  <2>1. ReduceSound(Top, c.id, entry)
    BY <1>4, <1>6 DEF ShiftSound
  <2>2. NothingPending.char = None
    BY DEF NothingPending, NotFinished
  <2>. QED
    BY <1>1, <1>6, <2>1, <2>2, DoReduceOnce
<1>7. CASE /\ DoShift(entry.state, c)
           /\ p_not_finished' = NothingPending
           /\ pc' = back
           /\ UNCHANGED <<m_prevSave, m_need_recover, locals, outcome, ghosts>>
  <2>1. /\ p_char_stack' = Append(p_char_stack, c) /\ p_not_finished'.char = None
        /\ UNCHANGED <<ret, tok, cur, arg, base, fed, gone, m_prevSave, m_need_recover,
                       outcome>>
    BY <1>7 DEF DoShift, NothingPending, NotFinished, locals, ghosts
  <2>2. LocalsOK' /\ QueueOK' /\ GotoOK' /\ AcceptOK'
    BY <1>1, <1>2, <1>7, <2>1 DEF LocalsOK, QueueOK, GotoOK, AcceptOK, HasCur, CallPoints,
       EndPoints, IsLeaf
  <2>3. /\ PositionsOf(p_char_stack') = PositionsOf(p_char_stack) \cup c.toks
        /\ Ordered(p_char_stack')
    <3>1. p_char_stack \in Seq(Slot) /\ c \in Slot
      BY Slots DEF IInv
    <3> HIDE DEF c
    <3>. QED
      BY <3>1, <1>2, <2>1, OrderedAppend
  <2>4. Laid' /\ gone' \subseteq All'
    BY <1>1, <1>2, <1>7, <2>1, <2>3, CharFacts DEF Good, Laid, Line, Before, All, TokPos
  <2>. QED
    BY <2>2, <2>4 DEF Good
<1>. QED
  BY <1>5, <1>6, <1>7 DEF HandleLookahead

\* handle_lookahead in feed() and in end().
LEMMA AheadOnce == ASSUME IInv, Good, Ahead \/ EndAhead PROVE Good'
<1>1. CASE Ahead
  <2>1. GoesOnAt("ahead") /\ cur # None /\ HandleLookahead("ahead")
        /\ pc = "ahead"
    BY <1>1 DEF Ahead, IInv, ControlOK, RecoverOK, GoesOnAt, CallPoints
  <2>. QED
    BY <2>1, HandleLookaheadOnce
<1>2. CASE EndAhead
  <2>1. GoesOnAt("end_fed") /\ cur # None /\ HandleLookahead("end_fed") /\ pc = "end_ahead"
    BY <1>2 DEF EndAhead, HandleLookahead, IInv, ControlOK, RecoverOK, SavedOK, GoesOnAt,
       EndPoints
  <2>. QED
    BY <2>1, HandleLookaheadOnce
<1>. QED
  BY <1>1, <1>2

\* feed_internal, for each kind of entry; only a token is ever rejected.
LEMMA FeedInternalOnce ==
  ASSUME GotoDefined, IInv, Good, FeedInternal PROVE Good'
<1>1. /\ pc = "feed" /\ ~IsPending /\ p_not_finished.char = None
      /\ arg \in DChar /\ arg # None /\ p_state_stack # << >>
      /\ GoesOnAt(ret) /\ Reducing(arg, ret)
  BY DEF FeedInternal, IInv, TypeOK, ControlOK, RecoverOK, SavedOK, GoesOnAt, CallPoints,
     IsPending, Reducing
<1>2. /\ outcome = "running" /\ m_prevSave = << >> /\ ~m_need_recover
      /\ PositionsOf(m_prevSave) = {} /\ TokPos = {}
      /\ ret \in {"loop", "ahead", "end_fed"}
      /\ cur = IF ret = "loop" THEN None ELSE IF tok = None THEN EOS ELSE tok
      /\ IF ret = "end_fed" THEN tok = None ELSE IsLeaf(tok)
      /\ PositionsOf(p_char_stack) \cup arg.toks \cup cur.toks = All \ gone
      /\ Ordered(p_char_stack) /\ gone \subseteq All
      /\ Before(PositionsOf(p_char_stack), arg.toks)
      /\ Before(PositionsOf(p_char_stack), cur.toks) /\ Before(arg.toks, cur.toks)
  BY <1>1, ReducingLaid
<1>3. CASE arg.id \notin Symbols
  <2>1. Throw("unknown", {}) /\ UNCHANGED object
    BY <1>1, <1>3 DEF FeedInternal
  <2>2. /\ pc' = "idle" /\ outcome' = "unknown" /\ tok' = None /\ arg' = None /\ cur' = None
        /\ UNCHANGED <<p_state_stack, p_char_stack, p_not_finished, m_prevSave,
                       m_need_recover, base, fed>>
        /\ gone' = gone \cup arg.toks \cup cur.toks
    BY <2>1, CharFacts DEF Throw, Return, NoLocals, object, stacks
  <2>3. LocalsOK' /\ QueueOK' /\ GotoOK' /\ AcceptOK'
    BY <1>2, <2>2 DEF LocalsOK, QueueOK, GotoOK, AcceptOK, HasCur, CallPoints, EndPoints
  <2>4. All' = All /\ TokPos' = {} /\ All \subseteq Int
    BY <2>2 DEF All, TokPos
  <2>5. Laid' /\ gone' \subseteq All'
    <3>1. \A p \in PositionsOf(p_char_stack) : p \notin arg.toks /\ p \notin cur.toks
      <4>1. PositionsOf(p_char_stack) \subseteq Int
        BY <1>2, <2>4
      <4>. QED
        BY <4>1, <1>2 DEF Before
    <3>2. PositionsOf(p_char_stack) = All \ gone' /\ gone' \subseteq All
      BY <1>2, <2>2, <3>1
    <3>3. Line(PositionsOf(p_char_stack), {}, {}, {}, {}, {})
      BY DEF Line, Before
    <3>. QED
      BY <1>1, <1>2, <2>2, <2>4, <3>2, <3>3, CharFacts DEF Good, Laid
  <2>. QED
    BY <2>3, <2>5 DEF Good
<1>4. CASE arg.id \in Symbols
  <2>1. PICK e \in Resolved(EntryOf(arg)) :
          ShiftStep(e) \/ ReduceStep(e) \/ LookaheadStep(e) \/ RejectStep(e)
    BY <1>1, <1>4 DEF FeedInternal
  <2>2. Top \in States
    BY <1>1, EmptySeq DEF IInv, TypeOK, Top
  <2>3. PlainSound(Top, arg.id, e)
    BY <1>4, <2>1, <2>2, EntriesSound DEF EntryOf
  <2>4. CASE ShiftStep(e)
    <3>1. /\ p_char_stack' = Append(p_char_stack, arg) /\ pc' = ret /\ arg' = None
          /\ UNCHANGED <<p_not_finished, m_prevSave, m_need_recover, tok, cur, outcome,
                         base, fed, gone>>
      BY <2>4 DEF ShiftStep, DoShift, ghosts
    <3>2. LocalsOK' /\ QueueOK' /\ GotoOK' /\ AcceptOK'
      BY <1>2, <3>1 DEF LocalsOK, QueueOK, GotoOK, AcceptOK, HasCur, CallPoints, EndPoints,
         IsLeaf
    <3>3. /\ PositionsOf(p_char_stack') = PositionsOf(p_char_stack) \cup arg.toks
          /\ Ordered(p_char_stack')
      <4>1. p_char_stack \in Seq(Slot) /\ arg \in Slot
        BY Slots DEF IInv
      <4>. QED
        BY <4>1, <1>2, <3>1, OrderedAppend
    <3>4. Laid' /\ gone' \subseteq All'
      BY <1>1, <1>2, <3>1, <3>3, CharFacts DEF Good, Laid, Line, Before, All, TokPos
    <3>. QED
      BY <3>2, <3>4 DEF Good
  <2>5. CASE ReduceStep(e)
    <3>1. /\ ReduceSound(Top, arg.id, e)
          /\ DoReduce(e.rule, arg, ret, p_not_finished)
      BY <1>1, <2>3, <2>5 DEF PlainSound, ReduceStep
    <3>. QED
      BY <1>1, <3>1, DoReduceOnce
  <2>6. CASE LookaheadStep(e)
    <3>1. /\ p_not_finished'.char = arg /\ pc' = ret /\ arg' = None
          /\ UNCHANGED <<p_char_stack, m_prevSave, m_need_recover, tok, cur, outcome,
                         base, fed, gone>>
      BY <2>6 DEF LookaheadStep, NotFinished, stacks, ghosts
    <3>2. LocalsOK' /\ QueueOK' /\ GotoOK' /\ AcceptOK'
      BY <1>2, <3>1 DEF LocalsOK, QueueOK, GotoOK, AcceptOK, HasCur, CallPoints, EndPoints,
         IsLeaf
    <3>3. Laid' /\ gone' \subseteq All'
      BY <1>1, <1>2, <3>1, CharFacts DEF Good, Laid, Line, Before, All, TokPos
    <3>. QED
      BY <3>2, <3>3 DEF Good
  <2>7. CASE RejectStep(e)
    <3>1. arg.id \notin Nonterms
      <4>1. SUFFICES ASSUME arg.id \in Nonterms PROVE FALSE
        OBVIOUS
      <4>2. PICK r \in RuleId : /\ <<r, 0>> \in StateItems[Top]
                                /\ Lhs(r) = arg.id /\ Lhs(r) # RealStart
        BY <1>1, <4>1 DEF Good, GotoOK
      <4>. QED
        BY <2>1, <2>2, <2>7, <4>2 DEF GotoDefined, EntryOf, RejectStep
    <3>2. ret = "loop" /\ arg = tok /\ cur = None /\ IsLeaf(tok) /\ tok # None
      BY <1>1, <1>2, <3>1, CharFacts DEF Good, LocalsOK
    <3>3. /\ pc' = "catch" /\ cur' = None /\ arg' = None /\ UNCHANGED <<tok, outcome>>
          /\ UNCHANGED <<p_char_stack, p_not_finished, m_prevSave, m_need_recover,
                         base, fed, gone>>
      BY <2>7, <3>1, <3>2 DEF RejectStep, object, stacks, ghosts
    <3>4. LocalsOK' /\ QueueOK' /\ GotoOK' /\ AcceptOK'
      BY <1>2, <3>2, <3>3 DEF LocalsOK, QueueOK, GotoOK, AcceptOK, HasCur, CallPoints,
         EndPoints, IsLeaf
    <3>5. Laid' /\ gone' \subseteq All'
      BY <1>1, <1>2, <3>2, <3>3, CharFacts DEF Good, Laid, Line, Before, All, TokPos
    <3>. QED
      BY <3>4, <3>5 DEF Good
  <2>. QED
    BY <2>1, <2>4, <2>5, <2>6, <2>7
<1>. QED
  BY <1>3, <1>4

------------------------------------------------------------------------------
(* The invariant *)

\* A parser just made holds no token and has been fed none.
LEMMA InitOnce == ASSUME Init PROVE Good
<1>1. /\ PositionsOf(<< >>) = {} /\ Ordered(<< >>) /\ None.toks = {}
      /\ NothingPending.char = None
  BY OrderedOne, CharFacts DEF NothingPending, NotFinished
<1>2. All = {}
  <2>1. \A b \in Nat : (b + 1)..(b + 0) = {}
    OBVIOUS
  <2>2. base = 0 /\ Len(fed) = 0
    BY DEF Init
  <2>. QED
    BY <2>1, <2>2 DEF All
<1>3. Laid /\ gone \subseteq All
  BY <1>1, <1>2 DEF Init, Laid, Line, Before, TokPos
<1>4. LocalsOK /\ QueueOK /\ GotoOK /\ AcceptOK
  BY DEF Init, LocalsOK, QueueOK, GotoOK, AcceptOK, HasCur, CallPoints, EndPoints
<1>. QED
  BY <1>3, <1>4 DEF Good

\* A stuttering step moves no token.
LEMMA StutterOnce == ASSUME TokenInv, UNCHANGED vars PROVE TokenInv'
<1>1. /\ UNCHANGED <<p_state_stack, p_char_stack, p_not_finished, m_prevSave, m_need_recover>>
      /\ UNCHANGED <<pc, ret, tok, cur, arg, outcome, base, fed, gone>>
  BY DEF vars, object, stacks, locals, ghosts
<1>2. NoStaleToken' = NoStaleToken
  BY <1>1 DEF NoStaleToken
<1>3. /\ LocalsOK' = LocalsOK /\ QueueOK' = QueueOK /\ GotoOK' = GotoOK
      /\ AcceptOK' = AcceptOK
  BY <1>1 DEF LocalsOK, QueueOK, GotoOK, AcceptOK, HasCur, Top, IsPending
<1>4. EveryTokenOnce' = EveryTokenOnce
  <2>1. Held' = Held
    BY <1>1 DEF Held
  <2>. QED
    BY <1>1, <2>1, Zenon DEF EveryTokenOnce
<1>. QED
  BY <1>1, <1>2, <1>3, <1>4 DEF TokenInv

\* Every step from a state in which the tokens are as they should be leads to one,
\* or to a failed assertion.
LEMMA NextOnce ==
  ASSUME ~GoesOn, ~KeepsTokens, Keeping \cap ResetAfter = {}, GotoDefined,
         IInv, Good, Next
  PROVE  Good' \/ \E a : Abort(a)
<1>1. CASE FeedCall
  BY <1>1, FeedCallOnce
<1>2. CASE EndCall
  BY <1>2, EndCallOnce
<1>3. CASE ResetCall
  BY <1>3, ResetCallOnce
<1>4. CASE Enter \/ NextSaved \/ Ahead \/ FeedToken \/ FeedAgain \/ FeedInternal
  BY <1>4, EnterOnce, NextSavedOnce, AheadOnce, FeedTokenOnce, FeedAgainOnce, FeedInternalOnce
<1>5. CASE RecoverOnFeed \/ RecoverOnCatch \/ RecoverOnEnd
  BY <1>5, RecoverOnFeedOnce, RecoverOnCatchOnce, RecoverOnEndOnce
<1>6. CASE EndNextSaved \/ EndAhead \/ EndSkip \/ EndFed \/ EndCheck
  BY <1>6, EndNextSavedOnce, AheadOnce, EndSkipOnce, EndFedOnce, EndCheckOnce
<1>. QED
  BY <1>1, <1>2, <1>3, <1>4, <1>5, <1>6 DEF Next, Step

\* No step leads out of a failed assertion.
LEMMA AbortedStays == ASSUME pc = "aborted" PROVE ~Next
  BY DEF Next, Step, FeedCall, EndCall, ResetCall, Enter, NextSaved, Ahead, FeedToken,
     FeedAgain, FeedInternal, RecoverOnFeed, RecoverOnCatch, RecoverOnEnd, EndNextSaved,
     EndAhead, EndSkip, EndFed, EndCheck

\* TokenInv, with EveryTokenOnce told place by place.
LEMMA TokenInvIsGood == IInv => (TokenInv <=> NoStaleToken /\ (pc # "aborted" => Good))
  BY LaidIsOnce DEF IInv, TokenInv, Good, All

\* For a recovery that keeps no token, a caller that resets only where no token is
\* saved and a table that never rejects a nonterminal: every token fed is where it
\* should be between any two steps of feed(), end() and reset().
THEOREM TokenInvariant ==
  ASSUME ~GoesOn, ~KeepsTokens, Keeping \cap ResetAfter = {}, GotoDefined
  PROVE  Spec => []TokenInv
<1>1. Init => TokenInv
  <2>1. ASSUME Init PROVE TokenInv
    <3>1. IInv /\ Good
      BY <2>1, InitHolds, InitOnce
    <3>2. NoStaleToken
      BY <3>1, GoodIsFresh DEF IInv
    <3>. QED
      BY <3>1, <3>2, TokenInvIsGood
  <2>. QED
    BY <2>1
<1>2. TokenInv /\ IInv /\ IInv' /\ [Next]_vars => TokenInv'
  <2>1. ASSUME TokenInv, IInv, IInv', Next PROVE TokenInv'
    <3>1. (IInv => (TokenInv <=> NoStaleToken /\ (pc # "aborted" => Good)))'
      BY TokenInvIsGood, PTL
    <3>2. TypeOK' /\ Good' => NoStaleToken'
      BY GoodIsFresh, PTL
    <3>3. NoStaleToken /\ Good
      BY <2>1, AbortedStays, TokenInvIsGood
    <3>4. CASE Good'
      BY <2>1, <3>1, <3>2, <3>4 DEF IInv
    <3>5. CASE \E a : Abort(a)
      BY <2>1, <3>1, <3>3, <3>5, AbortIsFresh DEF Abort
    <3>. QED
      BY <2>1, <3>3, <3>4, <3>5, NextOnce
  <2>. QED
    BY <2>1, StutterOnce
<1>. QED
  BY <1>1, <1>2, Invariant, PTL DEF Spec

\* Every token fed since the last reset is held exactly once and in input order,
\* unless it was given up with the caller's knowledge.
THEOREM TokensOnce ==
  ASSUME ~GoesOn, ~KeepsTokens, Keeping \cap ResetAfter = {}, GotoDefined
  PROVE  Spec => []EveryTokenOnce
<1>1. TokenInv => EveryTokenOnce
  BY DEF TokenInv, EveryTokenOnce
<1>. QED
  BY TokenInvariant, <1>1, PTL

\* A parse never depends on the parse before it.
THEOREM NoTokenFromBefore ==
  ASSUME ~GoesOn, ~KeepsTokens, Keeping \cap ResetAfter = {}, GotoDefined
  PROVE  Spec => []NoStaleToken
<1>1. TokenInv => NoStaleToken
  BY DEF TokenInv
<1>. QED
  BY TokenInvariant, <1>1, PTL

\* What end() returns is built from the whole input.
THEOREM WholeInputAccepted ==
  ASSUME ~GoesOn, ~KeepsTokens, Keeping \cap ResetAfter = {}, GotoDefined
  PROVE  Spec => []AcceptedIsWhole
<1>1. IInv /\ TokenInv => AcceptedIsWhole
  <2>1. SUFFICES ASSUME IInv, TokenInv, pc = "idle", outcome = "accept"
                 PROVE  /\ p_char_stack[1].toks = All \ gone
                        /\ ~IsPending /\ m_prevSave = << >>
    BY DEF AcceptedIsWhole, All
  <2>2. /\ Good /\ Len(p_char_stack) = 1 /\ ~IsPending /\ m_prevSave = << >>
        /\ arg = None /\ cur = None /\ TokPos = {}
    BY <2>1, TokenInvIsGood DEF Good, AcceptOK, QueueOK, LocalsOK, Keeping, HasCur, TokPos
  <2>3. PositionsOf(p_char_stack) = p_char_stack[1].toks
    <3>1. DOMAIN p_char_stack = {1}
      BY <2>1, <2>2 DEF IInv, TypeOK
    <3>. QED
      BY <3>1, Zenon DEF PositionsOf
  <2>4. PositionsOf(m_prevSave) = {}
    BY <2>2, OrderedOne
  <2>. QED
    BY <2>2, <2>3, <2>4, CharFacts DEF Good, Laid, IsPending
<1>. QED
  BY Invariant, TokenInvariant, <1>1, PTL

------------------------------------------------------------------------------
(* The abstract parser *)

\* The chars the abstract parser holds, and the tokens given that are neither
\* below one of them nor spent.
Front == p_char_stack \o
         (IF IsPending THEN <<p_not_finished.char>> ELSE << >>) \o
         (IF arg # None THEN <<arg>> ELSE << >>)

Coming == All \ (gone \cup PositionsOf(Front))

Verdict == IF outcome = "accept" THEN "accepted" ELSE "open"

\* The positions below chars are the same to both specifications.
LEMMA SamePositions == \A s : Abstract!Positions(s) = PositionsOf(s)
  BY DEF Abstract!Positions, PositionsOf

\* What waits in the abstract parser is what is still to come here.
LEMMA SameWaiting ==
  ASSUME TypeOK PROVE Abstract!Waiting = Coming
<1>1. base \in Nat /\ Len(fed) \in Nat
  BY DEF TypeOK
<1>2. Abstract!Waiting = (1..(base + Len(fed))) \ (((1..base) \cup gone) \cup PositionsOf(Front))
  BY SamePositions DEF Abstract!Waiting, Front
<1>. QED
  BY <1>1, <1>2 DEF Coming, All

\* A step that changes nothing the abstract parser has is a stutter.
LEMMA StutterStep ==
  ASSUME UNCHANGED <<Front, base, fed, gone, Verdict>>
  PROVE  UNCHANGED Abstract!parser
  BY DEF Front, Verdict, Abstract!parser

\* Front and the tokens to come, by what the running call is at.
FrontFits ==
    /\ IsPending => arg = None /\ Front = Append(p_char_stack, p_not_finished.char)
    /\ arg # None => ~IsPending /\ Front = Append(p_char_stack, arg)
    /\ ~IsPending /\ arg = None => Front = p_char_stack
    /\ Front \in Seq(Slot) /\ p_char_stack \in Seq(DChar)
    /\ PositionsOf(Front) = PositionsOf(p_char_stack) \cup p_not_finished.char.toks
                              \cup arg.toks
    /\ Coming = cur.toks \cup PositionsOf(m_prevSave) \cup TokPos
    /\ PositionsOf(Front) \cup Coming = All \ gone
    /\ Before(PositionsOf(Front), Coming)

\* What is not in front comes after it.
LEMMA FrontRest ==
  ASSUME IInv, Good,
         PositionsOf(Front) = PositionsOf(p_char_stack) \cup p_not_finished.char.toks
                                \cup arg.toks
  PROVE  /\ Coming = cur.toks \cup PositionsOf(m_prevSave) \cup TokPos
         /\ PositionsOf(Front) \cup Coming = All \ gone
         /\ Before(PositionsOf(Front), Coming)
<1> DEFINE rest == cur.toks \cup PositionsOf(m_prevSave) \cup TokPos
<1>1. PositionsOf(Front) \cup rest = All \ gone
  BY DEF Good, Laid
<1>2. Before(PositionsOf(Front), rest)
  BY DEF Good, Laid, Line, Before
<1>3. All \subseteq Int
  BY DEF All
<1> HIDE DEF rest
<1>4. \A p \in rest : p \notin PositionsOf(Front)
  <2>1. rest \subseteq Int
    BY <1>1, <1>3
  <2>. QED
    BY <1>2, <2>1 DEF Before
<1>5. Coming = rest
  BY <1>1, <1>4 DEF Coming
<1>. QED
  BY <1>1, <1>2, <1>5 DEF rest

\* Between two steps at most one char is held beside the stack: the one that waits
\* for a lookahead or the one being fed.
LEMMA FrontShape == IInv /\ Good => FrontFits
<1> SUFFICES ASSUME IInv, Good PROVE FrontFits
  OBVIOUS
<1>1. arg # None => ~IsPending
  BY DEF IInv, SavedOK, Good, LocalsOK
<1>2. /\ p_char_stack \in Seq(Slot) /\ p_char_stack \in Seq(DChar)
      /\ p_not_finished.char \in Slot /\ arg \in Slot
  BY Slots DEF IInv, TypeOK
<1>3. /\ << >> \o << >> = << >> /\ p_char_stack \o << >> = p_char_stack
      /\ \A c \in Slot : /\ << >> \o <<c>> = <<c>> /\ <<c>> \o << >> = <<c>>
                         /\ p_char_stack \o <<c>> = Append(p_char_stack, c)
  BY <1>2
<1>4. CASE IsPending
  <2>1. Front = Append(p_char_stack, p_not_finished.char)
    BY <1>1, <1>2, <1>3, <1>4 DEF Front
  <2>2. Front \in Seq(Slot)
    BY <1>2, <2>1
  <2>3. PositionsOf(Front) = PositionsOf(p_char_stack) \cup p_not_finished.char.toks
    BY <1>2, <2>1, OrderedAppend
  <2>. QED
    BY <1>1, <1>2, <1>4, <2>1, <2>2, <2>3, FrontRest, CharFacts DEF FrontFits
<1>5. CASE arg # None
  <2>1. Front = Append(p_char_stack, arg) /\ ~IsPending
    BY <1>1, <1>2, <1>3, <1>5 DEF Front
  <2>2. Front \in Seq(Slot)
    BY <1>2, <2>1
  <2>3. PositionsOf(Front) = PositionsOf(p_char_stack) \cup arg.toks
    BY <1>2, <2>1, OrderedAppend
  <2>. QED
    BY <1>2, <1>5, <2>1, <2>2, <2>3, FrontRest, CharFacts DEF IsPending, FrontFits
<1>6. CASE ~IsPending /\ arg = None
  <2>1. Front = p_char_stack
    BY <1>2, <1>3, <1>6 DEF Front
  <2>. QED
    BY <1>2, <1>6, <2>1, FrontRest, CharFacts DEF IsPending, FrontFits
<1>. QED
  BY <1>4, <1>5, <1>6

\* The same of the state a step leads to.
LEMMA FrontNext == ASSUME IInv', Good' PROVE FrontFits'
<1>1. (IInv /\ Good => FrontFits)'
  BY FrontShape, PTL
<1>. QED
  BY <1>1

\* What the abstract parser gives up, told of the concrete one.
LEMMA GiveUpIs ==
  Abstract!GiveUp <=>
     \E k \in 0..Len(Front) :
        LET lost == Abstract!Positions(SubSeq(Front, Len(Front) - k + 1, Len(Front)))
        IN  /\ Front' = SubSeq(Front, 1, Len(Front) - k)
            /\ ((1..base) \cup gone) \cup lost \subseteq (1..base') \cup gone'
            /\ (1..base') \cup gone' \subseteq
                  (((1..base) \cup gone) \cup lost) \cup Abstract!Waiting
            /\ UNCHANGED <<base + Len(fed), Verdict>>
  BY DEF Abstract!GiveUp, Front, Verdict

\* Some of the last chars are given up, and any tokens to come with them.
LEMMA GiveUpStep ==
  ASSUME IInv, Good, IInv', Good', NEW k \in 0..Len(Front),
         Front' = SubSeq(Front, 1, Len(Front) - k),
         gone \cup PositionsOf(SubSeq(Front, Len(Front) - k + 1, Len(Front))) \subseteq gone',
         UNCHANGED <<base, fed, Verdict>>
  PROVE  Abstract!Next
<1> DEFINE n    == Len(Front) - k
           left == SubSeq(Front, 1, n)
           lost == SubSeq(Front, n + 1, Len(Front))
<1>1. FrontFits /\ FrontFits'
  BY FrontShape, FrontNext
<1>2. n \in 0..Len(Front) /\ Len(Front) - k + 1 = n + 1
  BY <1>1 DEF FrontFits
<1>3. PositionsOf(Front) = PositionsOf(left) \cup PositionsOf(lost)
  BY <1>1, <1>2, OrderedSplit DEF FrontFits
<1>4. Front' = left /\ gone \cup PositionsOf(lost) \subseteq gone'
  BY <1>2
<1>5. gone' \subseteq gone \cup PositionsOf(lost) \cup Coming
  <2>1. All' = All /\ gone' \subseteq All'
    BY DEF All, Good
  <2>2. PositionsOf(left) \cap gone' = {}
    BY <1>1, <1>4 DEF FrontFits
  <2> HIDE DEF left, lost
  <2>. QED
    BY <1>3, <2>1, <2>2 DEF Coming
<1>6. /\ Abstract!Positions(lost) = PositionsOf(lost)
      /\ Abstract!Waiting = Coming
  BY SamePositions, SameWaiting DEF IInv
<1>7. Abstract!GiveUp
  <2>1. SubSeq(Front, Len(Front) - k + 1, Len(Front)) = lost /\ SubSeq(Front, 1, Len(Front) - k) = left
    BY <1>2
  <2>2. UNCHANGED base
    OBVIOUS
  <2> HIDE DEF left, lost
  <2>. QED
    BY <1>4, <1>5, <1>6, <2>1, <2>2, GiveUpIs
<1>. QED
  BY <1>7 DEF Abstract!Next

------------------------------------------------------------------------------
(* Steps that only change who gives up what, and when the input is accepted *)

Moves == Abstract!Next \/ UNCHANGED Abstract!parser

\* As long as the call runs nothing is accepted.
LEMMA StillOpen == ASSUME outcome # "accept", outcome' # "accept" PROVE UNCHANGED Verdict
  BY DEF Verdict

\* A step between two places of a call that touches no char.
LEMMA QuietStep ==
  ASSUME UNCHANGED <<p_char_stack, p_not_finished, arg, base, fed, gone>>,
         outcome # "accept", outcome' # "accept"
  PROVE  Moves
<1>1. UNCHANGED Front
  BY DEF Front, IsPending
<1>. QED
  BY <1>1, StillOpen, StutterStep DEF Moves

\* A token given up that no char has been built from.
LEMMA DropStep ==
  ASSUME IInv, Good, IInv', Good',
         UNCHANGED <<p_char_stack, p_not_finished, arg, base, fed>>,
         gone \subseteq gone', outcome # "accept", outcome' # "accept"
  PROVE  Moves
<1>1. Front' = Front /\ Front \in Seq(Slot)
  BY FrontShape DEF Front, IsPending, FrontFits
<1> HIDE DEF Front
<1>2. Front = SubSeq(Front, 1, Len(Front) - 0) /\ 0 \in 0..Len(Front)
  BY <1>1
<1>3. SubSeq(Front, Len(Front) - 0 + 1, Len(Front)) = << >>
  BY <1>1
<1>4. PositionsOf(<< >>) = {}
  BY OrderedOne
<1>5. gone \cup PositionsOf(SubSeq(Front, Len(Front) - 0 + 1, Len(Front))) \subseteq gone'
  BY <1>3, <1>4
<1>. QED
  BY <1>1, <1>2, <1>5, GiveUpStep, StillOpen DEF Moves

\* A call of feed() gives the abstract parser one more token.
LEMMA FeedCallMoves ==
  ASSUME ~GoesOn, IInv, Good, FeedCall PROVE Moves
<1>1. /\ UNCHANGED <<p_char_stack, p_not_finished, arg, base, gone>>
      /\ outcome # "accept" /\ outcome' # "accept"
      /\ base \in Nat /\ Len(fed) \in Nat /\ Len(fed') = Len(fed) + 1
  BY DEF FeedCall, Fresh, object, stacks, IInv, TypeOK
<1>2. base' + Len(fed') = base + Len(fed) + 1
  BY <1>1
<1>3. Abstract!Give
  BY <1>1, <1>2 DEF Abstract!Give, Front, IsPending
<1>. QED
  BY <1>3 DEF Abstract!Next, Moves

\* reset() spends all the tokens given.
LEMMA ResetCallMoves == ASSUME IInv, Good, ResetCall PROVE Moves
<1>1. /\ p_char_stack' = << >> /\ p_not_finished' = NothingPending
      /\ outcome' = "none" /\ base' = base + Len(fed) /\ fed' = << >> /\ gone' = {}
      /\ arg' = None
  BY DEF ResetCall, locals, Good, LocalsOK
<1>2. base \in Nat /\ Len(fed) \in Nat /\ base' + Len(fed') = base + Len(fed)
  BY <1>1 DEF IInv, TypeOK
<1>3. Front' = << >>
  BY <1>1 DEF Front, IsPending, NothingPending, NotFinished
<1>4. Abstract!Renew
  BY <1>1, <1>2, <1>3 DEF Abstract!Renew, Front
<1>. QED
  BY <1>4 DEF Abstract!Next, Moves

\* m_preAction may drop the token.
LEMMA EnterMoves == ASSUME IInv, Good, IInv', Good', Enter PROVE Moves
<1>1. /\ outcome = "running" /\ UNCHANGED <<p_char_stack, p_not_finished, base, fed>>
      /\ arg = None
  BY DEF Enter, Good, LocalsOK
<1>2. /\ arg' = arg /\ outcome' # "accept" /\ gone \subseteq gone'
  BY <1>1 DEF Enter, Return, NoLocals, locals
<1>. QED
  BY <1>1, <1>2, DropStep

\* Steps that take the next token, or go on with the next part of the call.
LEMMA GoOnMoves ==
  ASSUME ~GoesOn, IInv, Good, pc' # "aborted",
         \/ NextSaved \/ FeedAgain \/ EndCall
         \/ EndNextSaved \/ EndSkip \/ EndFed
  PROVE  Moves
<1>1. CASE NextSaved \/ EndNextSaved
  BY <1>1, QuietStep DEF NextSaved, EndNextSaved, stacks, ghosts, Good, LocalsOK
<1>2. CASE FeedAgain
  BY <1>2, QuietStep DEF FeedAgain, Return, NoLocals, stacks, ghosts, Good, LocalsOK
<1>3. CASE EndSkip
  BY <1>3, QuietStep DEF EndSkip, object, stacks, ghosts, Good, LocalsOK
<1>4. CASE EndFed
  BY <1>4, QuietStep DEF EndFed, object, stacks, ghosts, Good, LocalsOK, QueueOK
<1>5. CASE EndCall
  <2>1. pc = "idle" /\ outcome # "accept" /\ arg = None /\ cur = None
    BY <1>5 DEF EndCall, Fresh, Good, LocalsOK, HasCur
  <2>2. UNCHANGED <<p_char_stack, p_not_finished>>
    BY <1>5 DEF EndCall, stacks
  <2>3. UNCHANGED <<arg, base, fed, gone>> /\ outcome' # "accept"
    BY <1>5, <2>1, CharFacts DEF EndCall, Throw, Return, NoLocals, Abort, locals, ghosts
  <2>. QED
    BY <2>1, <2>2, <2>3, QuietStep
<1>. QED
  BY <1>1, <1>2, <1>3, <1>4, <1>5

\* end() accepts when the start symbol is all that is left.
LEMMA EndCheckMoves ==
  ASSUME IInv, Good, EndCheck, pc' # "aborted" PROVE Moves
<1>1. /\ pc = "end_check" /\ outcome = "running" /\ arg = None /\ cur = None
      /\ ~IsPending /\ m_prevSave = << >> /\ TokPos = {}
      /\ UNCHANGED <<p_char_stack, p_not_finished>>
  BY DEF EndCheck, Good, LocalsOK, HasCur, QueueOK, TokPos, object, stacks
<1>2. CASE Throw("syntax", {})
  <2>1. UNCHANGED <<arg, base, fed, gone>> /\ outcome' = "syntax"
    BY <1>1, <1>2, CharFacts DEF Throw, Return, NoLocals
  <2>. QED
    BY <1>1, <2>1, QuietStep
<1>3. CASE /\ Len(p_char_stack) = 1 /\ p_char_stack[1].id = RealStart
           /\ Return("accept") /\ UNCHANGED ghosts
  <2>1. UNCHANGED <<arg, base, fed, gone>> /\ outcome' = "accept"
    BY <1>1, <1>3 DEF Return, NoLocals, ghosts
  <2>2. Front = p_char_stack /\ Coming = {} /\ UNCHANGED Front
    <3>1. FrontFits
      BY FrontShape
    <3>2. PositionsOf(m_prevSave) = {} /\ cur.toks = {}
      BY <1>1, OrderedOne, CharFacts
    <3>. QED
      BY <1>1, <2>1, <3>1, <3>2 DEF FrontFits, Front, IsPending
  <2>3. Abstract!Waiting = {}
    BY <2>2, SameWaiting DEF IInv
  <2>4. Len(Front) = 1 /\ Front[1].id = RealStart
    BY <1>3, <2>2
  <2>5. Abstract!Accept
    BY <1>1, <2>1, <2>2, <2>3, <2>4 DEF Abstract!Accept, Front
  <2>. QED
    BY <2>5 DEF Abstract!Next, Moves
<1>. QED
  BY <1>1, <1>2, <1>3 DEF EndCheck, Abort

\* A token fed is shifted: it is the next of those to come.
LEMMA FeedTokenMoves == ASSUME IInv, Good, FeedToken PROVE Moves
<1>1. /\ pc = "ahead" /\ IsLeaf(tok) /\ cur = tok /\ cur # None /\ arg = None /\ arg' = tok
      /\ ~IsPending /\ outcome = "running"
      /\ UNCHANGED <<p_char_stack, p_not_finished, outcome, base, fed, gone>>
  BY DEF FeedToken, Good, LocalsOK, HasCur, CallPoints, IInv, ControlOK, object, stacks, ghosts
<1>2. PICK t \in Tokens, p \in tok.toks : tok = [id |-> t, toks |-> {p}, parts |-> {}]
  BY <1>1 DEF IsLeaf
<1>3. FrontFits /\ Front = p_char_stack
  BY <1>1, FrontShape DEF FrontFits
<1>4. p \in Coming /\ \A q \in PositionsOf(Front) : q < p
  BY <1>1, <1>3 DEF FrontFits, Before
<1>5. Front' = Append(Front, tok)
  <2>1. Front' = p_char_stack \o << >> \o <<tok>>
    BY <1>1 DEF Front, IsPending
  <2>2. tok \in Slot /\ p_char_stack \in Seq(Slot)
    BY Slots DEF IInv
  <2>. QED
    BY <1>3, <2>1, <2>2
<1>6. Abstract!Token(t, p) = tok
  BY <1>2 DEF Abstract!Token
<1>7. \E u \in Tokens, q \in Abstract!Waiting :
         /\ \A o \in Abstract!Positions(Front) : o < q
         /\ Front' = Append(Front, Abstract!Token(u, q))
         /\ UNCHANGED <<base + Len(fed), (1..base) \cup gone, Verdict>>
  <2>1. Abstract!Waiting = Coming /\ Abstract!Positions(Front) = PositionsOf(Front)
    BY SameWaiting, SamePositions DEF IInv
  <2>2. UNCHANGED <<base + Len(fed), (1..base) \cup gone, Verdict>>
    BY <1>1 DEF Verdict
  <2>. QED
    BY <1>4, <1>5, <1>6, <2>1, <2>2
<1>8. Abstract!Shift
  BY <1>7 DEF Abstract!Shift, Front, Verdict
<1>. QED
  BY <1>8 DEF Abstract!Next, Moves

------------------------------------------------------------------------------
(* Steps that take chars away *)

\* A char at the end of a sequence, and the sequence without it.
LEMMA ButLast ==
  ASSUME NEW s \in Seq(Slot), NEW c \in Slot, NEW t, t = Append(s, c)
  PROVE  /\ Len(t) = Len(s) + 1 /\ 1 \in 0..Len(t) /\ t # << >> /\ t[Len(t)] = c
         /\ SubSeq(t, 1, Len(t) - 1) = s
         /\ PositionsOf(SubSeq(t, Len(t) - 1 + 1, Len(t))) = c.toks
<1>1. /\ t \in Seq(Slot) /\ Len(t) = Len(s) + 1 /\ t[Len(t)] = c
      /\ \A j \in 1..Len(s) : t[j] = s[j]
  OBVIOUS
<1>2. /\ SubSeq(t, 1, Len(t) - 1) \in Seq(Slot) /\ Len(SubSeq(t, 1, Len(t) - 1)) = Len(s)
      /\ \A j \in 1..Len(s) : SubSeq(t, 1, Len(t) - 1)[j] = s[j]
  BY <1>1
<1>3. SubSeq(t, 1, Len(t) - 1) = s
  BY <1>2, SeqEqual
<1>4. SubSeq(t, Len(t) - 1 + 1, Len(t)) = <<c>>
  <2> DEFINE u == SubSeq(t, Len(t) - 1 + 1, Len(t))
  <2>1. u \in Seq(Slot) /\ Len(u) = 1 /\ u[1] = c
    BY <1>1
  <2>2. <<c>> \in Seq(Slot) /\ Len(<<c>>) = 1 /\ <<c>>[1] = c
    OBVIOUS
  <2>3. \A j \in 1..1 : j = 1
    OBVIOUS
  <2> HIDE DEF u
  <2>4. u = <<c>>
    BY <2>1, <2>2, <2>3, SeqEqual
  <2>. QED
    BY <2>4 DEF u
<1>5. PositionsOf(<<c>>) = c.toks
  BY OrderedOne, Zenon
<1>6. 1 \in 0..Len(t) /\ t # << >>
  BY <1>1
<1>. QED
  BY <1>1, <1>3, <1>4, <1>5, <1>6, Zenon

\* The char being fed is lost with an exception.
LEMMA LastGivenUp ==
  ASSUME IInv, Good, IInv', Good', arg # None, arg' = None,
         UNCHANGED <<p_char_stack, p_not_finished, base, fed>>,
         gone \cup arg.toks \subseteq gone', outcome # "accept", outcome' # "accept"
  PROVE  Moves
<1>1. FrontFits /\ FrontFits'
  BY FrontShape, FrontNext
<1>2. /\ Front = Append(p_char_stack, arg) /\ ~IsPending /\ Front' = p_char_stack
      /\ p_char_stack \in Seq(Slot) /\ arg \in Slot
  <2>1. Front = Append(p_char_stack, arg) /\ ~IsPending
    BY <1>1 DEF FrontFits
  <2>2. Front' = p_char_stack
    BY <1>1, <2>1 DEF FrontFits, IsPending
  <2>. QED
    BY <2>1, <2>2, Slots DEF IInv
<1>3. /\ 1 \in 0..Len(Front) /\ SubSeq(Front, 1, Len(Front) - 1) = p_char_stack
      /\ PositionsOf(SubSeq(Front, Len(Front) - 1 + 1, Len(Front))) = arg.toks
  BY <1>2, ButLast
<1>. QED
  BY <1>2, <1>3, GiveUpStep, StillOpen DEF Moves

\* The recovery cuts the stack of chars.
LEMMA CutMoves ==
  ASSUME IInv, Good, IInv', Good', ~IsPending, arg = None, arg' = None,
         p_state_stack # << >>, outcome # "accept", outcome' # "accept",
         NEW saved \in Seq(DChar), NEW a \in Answers(saved), Cut(a, saved),
         gone \cup Dropped(a, saved) \subseteq gone', UNCHANGED <<base, fed>>
  PROVE  Moves
<1>1. /\ p_char_stack' = SubSeq(p_char_stack, 1, Len(p_char_stack) - a.rm)
      /\ UNCHANGED p_not_finished
      /\ PositionsOf(SubSeq(p_char_stack, Len(p_char_stack) - a.rm + 1, Len(p_char_stack)))
            \subseteq gone'
  BY Zenon DEF Cut, Dropped
<1>2. Front = p_char_stack /\ Front' = p_char_stack'
  BY <1>1, FrontShape, FrontNext DEF FrontFits, IsPending
<1>3. a.rm \in 0..Len(Front)
  <2>1. /\ p_state_stack \in Seq(States) /\ p_char_stack \in Seq(DChar)
        /\ Viable(p_state_stack, p_char_stack) /\ a.rm \in 0..(Len(p_state_stack) - 1)
    BY AnswerFacts DEF IInv, TypeOK, ViablePrefix
  <2>2. a.rm <= Len(p_char_stack)
    BY <2>1, ViableCut
  <2>. QED
    BY <1>2, <2>1, <2>2
<1>. QED
  BY <1>1, <1>2, <1>3, GiveUpStep, StillOpen DEF Moves

\* An answer of m_recFn gives up tokens and chars, or waits for the next token.
LEMMA RecoverMoves ==
  ASSUME IInv, Good, IInv', Good', pc' # "aborted",
         RecoverOnFeed \/ RecoverOnCatch \/ RecoverOnEnd
  PROVE  Moves
<1> DEFINE Answered(saved, a) ==
        \/ \E next : Resume(a, saved, next)
        \/ \E o \in {"optional", "reject"} : GiveUp(a, saved, o)
        \/ Return("fed") /\ UNCHANGED <<p_char_stack, p_not_finished, base, fed, gone>>
<1>1. /\ pc \in {"recover", "catch", "end_recover"} /\ outcome = "running" /\ arg = None
      /\ p_state_stack # << >> /\ ~IsPending /\ m_prevSave \in Seq(DChar)
  BY DEF RecoverOnFeed, RecoverOnCatch, RecoverOnEnd, Good, LocalsOK, IInv, ControlOK,
     RecoverOK, TypeOK, CallPoints, EndPoints
<1>2. Append(m_prevSave, tok) \in Seq(DChar) \/ ~RecoverOnCatch
  BY <1>1 DEF RecoverOnCatch, IInv, TypeOK, ControlOK
<1>3. \E saved \in Seq(DChar) : \E a \in Answers(saved)  : Answered(saved, a)
  <2>1. CASE RecoverOnFeed
    BY <1>1, <2>1 DEF RecoverOnFeed, Abort, object, stacks, ghosts
  <2>2. CASE RecoverOnEnd
    BY <1>1, <2>2 DEF RecoverOnEnd, Abort
  <2>3. CASE RecoverOnCatch
    BY <1>1, <1>2, <2>3 DEF RecoverOnCatch, Abort, stacks, ghosts
  <2>. QED
    BY <2>1, <2>2, <2>3
<1>4. PICK saved \in Seq(DChar) : \E a \in Answers(saved)  : Answered(saved, a)
  BY <1>3
<1>5. PICK a \in Answers(saved)  : Answered(saved, a)
  BY <1>4
<1>6. CASE \E next : Resume(a, saved, next)
  <2>1. /\ Cut(a, saved) /\ gone \cup Dropped(a, saved) \subseteq gone' /\ arg' = None
        /\ UNCHANGED <<outcome, base, fed>>
    BY <1>6 DEF Resume
  <2>. QED
    BY <1>1, <2>1, CutMoves
<1>7. CASE \E o \in {"optional", "reject"} : GiveUp(a, saved, o)
  <2>1. /\ Cut(a, saved) /\ gone \cup Dropped(a, saved) \subseteq gone' /\ arg' = None
        /\ outcome' # "accept" /\ UNCHANGED <<base, fed>>
    BY <1>7 DEF GiveUp, Throw, Return, NoLocals
  <2>. QED
    BY <1>1, <2>1, CutMoves
<1>8. CASE Return("fed") /\ UNCHANGED <<p_char_stack, p_not_finished, base, fed, gone>>
  BY <1>1, <1>8, QuietStep DEF Return, NoLocals
<1>. QED
  BY <1>5, <1>6, <1>7, <1>8

------------------------------------------------------------------------------
(* Steps that look a char up in the table *)

\* The rules are the same to both specifications.
LEMMA SameRules == /\ Abstract!RuleId = RuleId
                   /\ \A r : Abstract!Lhs(r) = Lhs(r) /\ Abstract!Rhs(r) = Rhs(r)
  BY DEF Abstract!RuleId, RuleId, Abstract!Lhs, Lhs, Abstract!Rhs, Rhs

\* What the abstract parser reduces, told of the concrete one.
LEMMA ReduceIs ==
  Abstract!Reduce <=>
     \E r \in RuleId :
        LET n    == Len(Rhs(r))
            kids == SubSeq(Front, Len(Front) - n + 1, Len(Front))
        IN  /\ n <= Len(Front)
            /\ \A k \in 1..n : kids[k].id = Rhs(r)[k]
            /\ Front' = Append(SubSeq(Front, 1, Len(Front) - n), Abstract!Node(r, kids))
            /\ UNCHANGED <<base + Len(fed), (1..base) \cup gone, Verdict>>
  BY Zenon DEF Abstract!Reduce, Front, Verdict, Abstract!RuleId, RuleId, Abstract!Rhs, Rhs

\* The nonterminal a reduction makes is the node of the abstract parser.
LEMMA SameNode == \A r, kids : Abstract!Node(r, kids) = Reduction(r, kids)
  BY SameRules, Zenon DEF Abstract!Node, Reduction, Abstract!Positions, PositionsOf

\* A reduction takes the chars of a right side from the end of those held; if the
\* callback fails they are given up.
LEMMA DoReduceMoves ==
  ASSUME IInv, Good, IInv', Good', NEW c \in DChar, NEW e, ReduceSound(Top, c.id, e),
         NEW back, GoesOnAt(back), Reducing(c, back), Front = Append(p_char_stack, c),
         NEW waiting, waiting.char = None, DoReduce(e.rule, c, back, waiting)
  PROVE  Moves
<1> DEFINE n      == Len(Rhs(e.rule))
           chars  == Append(p_char_stack, c)
           states == Append(p_state_stack, StartState)
           kids   == SubSeq(chars, Len(chars) - n + 1, Len(chars))
           below  == Below(e.rule, chars)
           nt     == Reduction(e.rule, kids)
<1>1. /\ p_state_stack \in Seq(States) /\ p_char_stack \in Seq(DChar)
      /\ p_state_stack # << >> /\ e.rule \in RuleId /\ n \in Nat
      /\ Viable(p_state_stack, p_char_stack) /\ outcome = "running"
  BY ReducingLaid, GrammarAssumption DEF IInv, TypeOK, ViablePrefix, GoesOnAt, ReduceSound, IsGrammar
<1>2. /\ DoReduceAsserts(e.rule, chars, states)
      /\ kids \in Seq(DChar) /\ below \in Seq(DChar)
  BY <1>1, ReduceStacks, Zenon DEF Top, Below
<1>3. /\ n <= Len(chars) /\ n \in 0..Len(chars)
      /\ \A k \in 1..n : chars[Len(chars) - n + k].id = Rhs(e.rule)[k]
      /\ \A k \in 1..n : kids[k] = chars[Len(chars) - n + k]
  <2>1. chars \in Seq(DChar) /\ Len(chars) \in Nat
    BY <1>1
  <2>2. /\ n <= Len(chars)
        /\ \A k \in 1..n : chars[Len(chars) - n + k].id = Rhs(e.rule)[k]
    BY <1>2, Zenon DEF DoReduceAsserts
  <2> HIDE DEF chars, n
  <2>3. \A k \in 1..n : kids[k] = chars[Len(chars) - n + k]
    BY <1>1, <2>1, <2>2
  <2>. QED
    BY <1>1, <2>1, <2>2, <2>3
<1>4. below = SubSeq(chars, 1, Len(chars) - n)
  BY DEF Below
<1>5. /\ p_not_finished' = waiting /\ ~IsPending'
      /\ \/ /\ p_char_stack' = below
            /\ Throw("error", PositionsOf(kids))
         \/ /\ p_char_stack' = Append(below, nt)
            /\ arg' = None
            /\ UNCHANGED <<tok, cur, outcome, ghosts>>
         \/ /\ p_char_stack' = below
            /\ arg' = nt
            /\ UNCHANGED <<tok, cur, outcome, ghosts>>
  BY <1>2, Zenon DEF DoReduce, IsPending
<1>6. nt \in DChar /\ nt # None
  BY <1>1, <1>2, ReductionIsChar, CharFacts
<1> HIDE DEF chars, states, kids, below, nt
<1>7. CASE p_char_stack' = below /\ Throw("error", PositionsOf(kids))
  <2>1. /\ arg' = None /\ outcome' = "error" /\ UNCHANGED <<base, fed>>
        /\ gone \cup PositionsOf(kids) \subseteq gone'
    BY <1>7 DEF Throw, Return, NoLocals
  <2>2. Front' = below
    BY <1>5, <1>7, <2>1, FrontNext DEF FrontFits
  <2>3. n \in 0..Len(Front) /\ Front' = SubSeq(Front, 1, Len(Front) - n)
        /\ kids = SubSeq(Front, Len(Front) - n + 1, Len(Front))
    BY <1>3, <1>4, <2>2 DEF chars, kids
  <2>. QED
    BY <1>1, <2>1, <2>3, GiveUpStep, StillOpen DEF Moves
<1>8. CASE /\ UNCHANGED <<outcome, ghosts>>
           /\ \/ p_char_stack' = Append(below, nt) /\ arg' = None
              \/ p_char_stack' = below /\ arg' = nt
  <2>1. Front' = Append(below, nt)
    BY <1>5, <1>6, <1>8, FrontNext DEF FrontFits
  <2>2. /\ n <= Len(Front)
        /\ kids = SubSeq(Front, Len(Front) - n + 1, Len(Front))
        /\ \A k \in 1..n : kids[k].id = Rhs(e.rule)[k]
        /\ Front' = Append(SubSeq(Front, 1, Len(Front) - n), Abstract!Node(e.rule, kids))
    BY <1>3, <1>4, <2>1, SameNode DEF chars, kids, nt
  <2>3. UNCHANGED <<base + Len(fed), (1..base) \cup gone, Verdict>>
    BY <1>8 DEF ghosts, Verdict
  <2>4. Abstract!Reduce
    BY <1>1, <2>2, <2>3, ReduceIs
  <2>. QED
    BY <2>4 DEF Abstract!Next, Moves
<1>. QED
  BY <1>5, <1>7, <1>8

\* A lookahead decides what becomes of the char that waits.
LEMMA HandleLookaheadMoves ==
  ASSUME IInv, Good, IInv', Good', NEW back, GoesOnAt(back), cur # None,
         HandleLookahead(back),
         \/ pc = "ahead" /\ back = "ahead"
         \/ pc = "end_ahead" /\ back = "end_fed"
  PROVE  Moves
<1> DEFINE entry == p_not_finished.next[cur.id]
           c     == p_not_finished.char
<1>1. /\ IsPending /\ c \in DChar /\ c # None
      /\ arg = None /\ outcome = "running" /\ Reducing(c, back)
  BY DEF HandleLookahead, IsPending, IInv, TypeOK, Good, LocalsOK, Reducing
<1>2. /\ Front = Append(p_char_stack, c)
      /\ p_char_stack \in Seq(Slot)
  BY <1>1, FrontShape, Slots DEF FrontFits, IInv
<1>3. LookaheadSound(Top, c.id, LOOKAHEAD(p_not_finished.next))
  BY <1>1 DEF IInv, PendingOK
<1>4. /\ DOMAIN p_not_finished.next = Terms \cup {EOF}
      /\ \A t \in Terms \cup {EOF} :
            \/ ShiftSound(Top, c.id, p_not_finished.next[t])
            \/ ReduceSound(Top, c.id, p_not_finished.next[t])
  BY <1>3 DEF LookaheadSound, LOOKAHEAD
<1>5. CASE Throw("unknown", {}) /\ UNCHANGED object
  <2>1. /\ outcome' # "accept" /\ arg' = arg /\ gone \subseteq gone'
        /\ UNCHANGED <<p_char_stack, p_not_finished, base, fed>>
    BY <1>1, <1>5 DEF Throw, Return, NoLocals, object, stacks
  <2>. QED
    BY <1>1, <2>1, DropStep
<1>6. CASE /\ cur.id \in DOMAIN p_not_finished.next /\ entry.type = "REDUCE"
           /\ DoReduce(entry.rule, c, back, NothingPending)
  <2>1. ReduceSound(Top, c.id, entry)
    BY <1>4, <1>6 DEF ShiftSound
  <2>2. NothingPending.char = None
    BY DEF NothingPending, NotFinished
  <2>. QED
    BY <1>1, <1>2, <1>6, <2>1, <2>2, DoReduceMoves
<1>7. CASE /\ DoShift(entry.state, c)
           /\ p_not_finished' = NothingPending
           /\ UNCHANGED <<locals, outcome, ghosts>>
  <2>1. /\ p_char_stack' = Append(p_char_stack, c) /\ ~IsPending'
        /\ UNCHANGED <<arg, base, fed, gone, outcome>>
    BY <1>7 DEF DoShift, NothingPending, NotFinished, IsPending, locals, ghosts
  <2>2. Front' = Front
    BY <1>1, <1>2, <2>1, FrontNext DEF FrontFits
  <2>. QED
    BY <1>1, <2>1, <2>2, StillOpen, StutterStep DEF Moves
<1>. QED
  BY <1>5, <1>6, <1>7 DEF HandleLookahead

\* handle_lookahead in feed() and in end().
LEMMA AheadMoves ==
  ASSUME IInv, Good, IInv', Good', Ahead \/ EndAhead PROVE Moves
<1>1. CASE Ahead
  <2>1. GoesOnAt("ahead") /\ cur # None /\ HandleLookahead("ahead") /\ pc = "ahead"
    BY <1>1 DEF Ahead, IInv, ControlOK, RecoverOK, GoesOnAt, CallPoints
  <2>. QED
    BY <2>1, HandleLookaheadMoves
<1>2. CASE EndAhead
  <2>1. GoesOnAt("end_fed") /\ cur # None /\ HandleLookahead("end_fed") /\ pc = "end_ahead"
    BY <1>2 DEF EndAhead, HandleLookahead, IInv, ControlOK, RecoverOK, SavedOK, GoesOnAt,
       EndPoints
  <2>. QED
    BY <2>1, HandleLookaheadMoves
<1>. QED
  BY <1>1, <1>2

\* feed_internal, for each kind of entry.  A token that is rejected is handed back;
\* that a nonterminal is not rejected is what the invariant of the tokens says.
LEMMA FeedInternalMoves ==
  ASSUME IInv, Good, IInv', Good', FeedInternal
  PROVE  Moves
<1>1. /\ pc = "feed" /\ ~IsPending /\ p_not_finished.char = None
      /\ arg \in DChar /\ arg # None /\ p_state_stack # << >>
      /\ GoesOnAt(ret) /\ Reducing(arg, ret) /\ outcome = "running"
  BY DEF FeedInternal, IInv, TypeOK, ControlOK, RecoverOK, SavedOK, GoesOnAt, CallPoints,
     IsPending, Reducing, Good, LocalsOK
<1>2. /\ Front = Append(p_char_stack, arg)
      /\ p_char_stack \in Seq(Slot) /\ arg \in Slot
  BY <1>1, FrontShape, Slots DEF FrontFits, IInv
<1>3. CASE arg.id \notin Symbols
  <2>1. Throw("unknown", {}) /\ UNCHANGED object
    BY <1>1, <1>3 DEF FeedInternal
  <2>2. /\ arg' = None /\ outcome' = "unknown" /\ gone \cup arg.toks \subseteq gone'
        /\ UNCHANGED <<p_char_stack, p_not_finished, base, fed>>
    BY <2>1 DEF Throw, Return, NoLocals, object, stacks
  <2>. QED
    BY <1>1, <2>2, LastGivenUp
<1>4. CASE arg.id \in Symbols
  <2>1. PICK e \in Resolved(EntryOf(arg)) :
          ShiftStep(e) \/ ReduceStep(e) \/ LookaheadStep(e) \/ RejectStep(e)
    BY <1>1, <1>4 DEF FeedInternal
  <2>2. Top \in States
    BY <1>1, EmptySeq DEF IInv, TypeOK, Top
  <2>3. PlainSound(Top, arg.id, e)
    BY <1>4, <2>1, <2>2, EntriesSound DEF EntryOf
  <2>4. CASE ShiftStep(e)
    <3>1. /\ p_char_stack' = Append(p_char_stack, arg) /\ arg' = None
          /\ UNCHANGED <<p_not_finished, outcome, base, fed, gone>>
      BY <2>4 DEF ShiftStep, DoShift, ghosts
    <3>2. Front' = Front
      BY <1>1, <1>2, <3>1, FrontNext DEF FrontFits, IsPending
    <3>. QED
      BY <1>1, <3>1, <3>2, StillOpen, StutterStep DEF Moves
  <2>5. CASE ReduceStep(e)
    <3>1. /\ ReduceSound(Top, arg.id, e)
          /\ DoReduce(e.rule, arg, ret, p_not_finished)
      BY <1>1, <2>3, <2>5 DEF PlainSound, ReduceStep
    <3>. QED
      BY <1>1, <1>2, <3>1, DoReduceMoves
  <2>6. CASE LookaheadStep(e)
    <3>1. /\ p_not_finished'.char = arg /\ arg' = None
          /\ UNCHANGED <<p_char_stack, outcome, base, fed, gone>>
      BY <2>6 DEF LookaheadStep, NotFinished, stacks, ghosts
    <3>2. Front' = Front
      BY <1>1, <1>2, <3>1, FrontNext DEF FrontFits, IsPending
    <3>. QED
      BY <1>1, <3>1, <3>2, StillOpen, StutterStep DEF Moves
  <2>7. CASE RejectStep(e) /\ tok = None
    <3>1. /\ arg' = None /\ outcome' = "reject" /\ gone \cup arg.toks \subseteq gone'
          /\ UNCHANGED <<p_char_stack, p_not_finished, base, fed>>
      BY <2>7 DEF RejectStep, Throw, Return, NoLocals, object, stacks
    <3>. QED
      BY <1>1, <3>1, LastGivenUp
  <2>8. CASE RejectStep(e) /\ tok # None
    <3>1. /\ pc' = "catch" /\ arg' = IF arg.id \in Nonterms THEN arg ELSE None
          /\ UNCHANGED <<p_char_stack, p_not_finished, outcome, base, fed, gone>>
      BY <2>8 DEF RejectStep, object, stacks, ghosts
    <3>2. arg' = None
      BY <3>1 DEF Good, LocalsOK
    <3>3. arg.parts = {}
      <4>1. arg.id \notin Nonterms
        BY <1>1, <3>1, <3>2
      <4>2. ret = "loop" /\ arg = tok
        BY <1>1, <4>1 DEF Good, LocalsOK
      <4>3. IsLeaf(tok)
        BY <1>1, <4>2, ReducingLaid
      <4>. QED
        BY <1>2, <4>2, <4>3, LeafFacts
    <3>4. Front' = p_char_stack
      BY <1>1, <3>1, <3>2, FrontNext DEF FrontFits, IsPending
    <3>5. /\ Front # << >> /\ Front[Len(Front)].parts = {}
          /\ Front' = SubSeq(Front, 1, Len(Front) - 1)
          /\ UNCHANGED <<base + Len(fed), (1..base) \cup gone, Verdict>>
      BY <1>2, <3>1, <3>3, <3>4, ButLast DEF Verdict
    <3>6. Abstract!HandBack
      BY <3>5 DEF Abstract!HandBack, Front, Verdict
    <3>. QED
      BY <3>6 DEF Abstract!Next, Moves
  <2>. QED
    BY <2>1, <2>4, <2>5, <2>6, <2>7, <2>8
<1>. QED
  BY <1>3, <1>4

------------------------------------------------------------------------------
(* The refinement *)

\* A failed assertion of a debug build stops the program; nothing else does.
LEMMA AbortMoves ==
  ASSUME ~GoesOn, IInv, Good, Next, pc' = "aborted" PROVE Moves
<1> DEFINE Stopped == \E a : Abort(a) /\ a # "accept"
<1>1. \A o, lost : ~Throw(o, lost) /\ ~Return(o)
  BY DEF Throw, Return
<1>2. \A r, c, back, waiting : DoReduce(r, c, back, waiting) /\ back # "aborted" => Stopped
  <2> SUFFICES ASSUME NEW r, NEW c, NEW back, NEW waiting,
                      DoReduce(r, c, back, waiting), back # "aborted"
               PROVE  Stopped
    OBVIOUS
  <2>1. \/ Abort("do_reduce") \/ pc' = "feed" \/ pc' = back
        \/ \E o, lost : Throw(o, lost)
    BY Zenon DEF DoReduce
  <2>. QED
    BY <1>1, <2>1
<1>3. \A back : HandleLookahead(back) /\ back # "aborted" => Stopped
  BY <1>1, <1>2 DEF HandleLookahead
<1>4. FeedInternal => Stopped /\ outcome # "accept"
  <2> SUFFICES ASSUME FeedInternal PROVE Stopped /\ outcome # "accept"
    OBVIOUS
  <2>1. pc = "feed" /\ ret # "aborted" /\ outcome # "accept"
    BY DEF FeedInternal, IInv, ControlOK, Good, LocalsOK
  <2>2. \A e : /\ ~ShiftStep(e) /\ ~LookaheadStep(e) /\ ~RejectStep(e)
               /\ ReduceStep(e) => Stopped
    BY <1>1, <1>2, <2>1 DEF ShiftStep, LookaheadStep, RejectStep, ReduceStep
  <2>. QED
    BY <1>1, <2>1, <2>2 DEF FeedInternal
<1>5. Ahead \/ EndAhead => Stopped /\ outcome # "accept"
  BY <1>3 DEF Ahead, EndAhead, Good, LocalsOK
<1>6. \A a, saved, next, o : /\ ~GiveUp(a, saved, o)
                             /\ next # "aborted" => ~Resume(a, saved, next)
  BY <1>1 DEF GiveUp, Resume
<1>7. RecoverOnFeed \/ RecoverOnCatch \/ RecoverOnEnd => Stopped /\ outcome # "accept"
  <2>1. RecoverOnFeed => Stopped
    BY <1>1, <1>6 DEF RecoverOnFeed
  <2>2. RecoverOnCatch => Stopped
    BY <1>1, <1>6 DEF RecoverOnCatch
  <2>3. RecoverOnEnd => Stopped
    BY <1>1, <1>6 DEF RecoverOnEnd
  <2>. QED
    BY <2>1, <2>2, <2>3 DEF RecoverOnFeed, RecoverOnCatch, RecoverOnEnd, Good, LocalsOK
<1>8. EndCall \/ EndCheck => Stopped /\ outcome # "accept"
  BY <1>1 DEF EndCall, EndCheck, Fresh, Good, LocalsOK
<1>9. /\ ~FeedCall /\ ~ResetCall /\ ~Enter /\ ~NextSaved /\ ~FeedToken /\ ~FeedAgain
      /\ ~EndNextSaved /\ ~EndSkip /\ ~EndFed
  BY <1>1 DEF FeedCall, ResetCall, Enter, NextSaved, FeedToken, FeedAgain, EndNextSaved,
     EndSkip, EndFed
<1>10. Stopped /\ outcome # "accept"
  BY <1>4, <1>5, <1>7, <1>8, <1>9 DEF Next, Step
<1>11. UNCHANGED <<p_char_stack, p_not_finished, arg, base, fed, gone>> /\ outcome' # "accept"
  BY <1>10 DEF Abort, object, stacks, locals, ghosts
<1>. QED
  BY <1>10, <1>11, QuietStep

\* Every step maps to a step of the abstract parser, or to none.
LEMMA NextMoves ==
  ASSUME ~GoesOn, IInv, Good, IInv', Good', Next, pc' # "aborted" PROVE Moves
  BY FeedCallMoves, ResetCallMoves, EnterMoves, FeedTokenMoves, GoOnMoves, EndCheckMoves,
     RecoverMoves, AheadMoves, FeedInternalMoves DEF Next, Step

\* A parser just made is an abstract parser just made.
LEMMA InitMoves == ASSUME Init PROVE Abstract!Init
<1>1. /\ base + Len(fed) = 0 /\ (1..base) \cup gone = {} /\ Front = << >>
      /\ Verdict = "open"
  <2>1. base = 0 /\ Len(fed) = 0 /\ gone = {} /\ outcome = "none"
    BY DEF Init
  <2>2. Front = << >>
    <3>1. ~IsPending /\ arg = None /\ p_char_stack = << >>
      BY DEF Init, IsPending, NothingPending, NotFinished
    <3>2. << >> \o << >> = << >>
      OBVIOUS
    <3>. QED
      BY <3>1, <3>2, Zenon DEF Front
  <2>3. 1..0 = {} /\ 0 + 0 = 0
    OBVIOUS
  <2>. QED
    BY <2>1, <2>2, <2>3 DEF Verdict
<1>. QED
  BY <1>1 DEF Abstract!Init, Front, Verdict

\* DCParserRun implements ShiftReduce: whatever the table, the callbacks, the
\* recovery function and the caller do, what the caller can see of feed(), end() and
\* reset() is a shift-reduce parser that neither loses nor doubles nor reorders a
\* token and accepts only a tree of the whole input.
THEOREM Refinement ==
  ASSUME ~GoesOn, ~KeepsTokens, Keeping \cap ResetAfter = {}, GotoDefined
  PROVE  Spec => IsShiftReduce
<1>1. Init => Abstract!Init
  BY InitMoves
<1>2. /\ TokenInv /\ IInv /\ TokenInv' /\ IInv' /\ [Next]_vars
      => [Abstract!Next]_(Abstract!parser)
  <2>1. CASE UNCHANGED vars
    BY <2>1 DEF vars, object, stacks, locals, ghosts, Abstract!parser, IsPending
  <2>2. ASSUME TokenInv, IInv, TokenInv', IInv', Next PROVE Moves
    <3>1. (IInv => (TokenInv <=> NoStaleToken /\ (pc # "aborted" => Good)))'
      BY TokenInvIsGood, PTL
    <3>2. Good /\ (pc' # "aborted" => Good')
      BY <2>2, <3>1, AbortedStays, TokenInvIsGood
    <3>. QED
      BY <2>2, <3>2, AbortMoves, NextMoves
  <2>. QED
    BY <2>1, <2>2 DEF Moves
<1>. QED
  BY <1>1, <1>2, Invariant, TokenInvariant, PTL DEF Spec, IsShiftReduce, Abstract!Spec
==============================================================================
