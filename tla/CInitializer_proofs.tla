------------------------- MODULE CInitializer_proofs --------------------------
(****************************************************************************)
(* Proofs about the initializers of objects, for every set of types, members, *)
(* designators and values: an array that is declared without a size gets the  *)
(* size its values need.                                                      *)
(****************************************************************************)
EXTENDS CInitializer, SequenceTheorems, WellFoundedInduction, TLAPS

------------------------------------------------------------------------------
(* The inductive invariant *)

\* A sequence, of whatever.
IsSeq(s) == \E S : s \in Seq(S)

IsEntry(e) ==
    /\ DOMAIN e = {"node", "path", "index", "token"}
    /\ e.path \in Seq(Nat) /\ e.index \in Nat /\ e.token \in Nat

Entries(at) == IsSeq(at) /\ \A i \in 1..Len(at) : IsEntry(at[i])

\* The accesser of a list for a tree.
IsAccesser(at) == Entries(at) /\ at # << >>

\* The first step on the way to what an accesser stands at.
FirstStep(at) == Path(at[1])[1]

\* All entries of an accesser are on the way to what it stands at.
OneWay(at) ==
    \A i \in 2..Len(at) : at[i].path # << >> /\ at[i].path[1] = FirstStep(at)

IsFrame(f) ==
    /\ DOMAIN f = {"node", "at", "start", "size", "count", "broken", "last", "misled"}
    /\ f.start \in Seq(Nat)
    /\ IsTree(f.node) => IsAccesser(f.at)

FramesOK ==
    /\ IsSeq(frames)
    /\ \A i \in 1..Len(frames) : IsFrame(frames[i])
    /\ \A i \in 1..(Len(frames) - 1) : IsTree(frames[i].node) /\ ~frames[i].broken
    /\ Len(frames) > 0 => frames[1].node = object /\ frames[1].start = << >>

\* The initializer decides the size of the object, an array, and nothing wrong
\* has been found in it so far.
Unsized == object.basic = "ARRAY" /\ object.size = NoSize
Sizing  == frames # << >> /\ Unsized /\ ~errors

\* The outermost list: an accesser that begins below the array begins at an
\* element that has been asked for.
OutermostOK(f) ==
    /\ f.size \in Nat /\ OneWay(f.at)
    /\ IF f.at[1].path = << >> THEN f.at[1].node = object
       ELSE f.at[1].path[1] < f.size

\* The lists within are for what the outermost one stands at.
InnerOK ==
    \A i \in 2..Len(frames) :
        /\ frames[i].start # << >>
        /\ frames[i].start[1] = FirstStep(frames[1].at)
        /\ FirstStep(frames[1].at) <= reached

\* The elements asked for are those that values have been put in.
Tally ==
    IF Len(frames) = 1 THEN frames[1].size = reached + 1
    ELSE Asked(frames[1]) = reached + 1

IInv ==
    /\ reached \in Int /\ errors \in BOOLEAN /\ failed \in BOOLEAN
    /\ done => frames = << >>
    /\ FramesOK
    /\ Sizing => OutermostOK(frames[1]) /\ InnerOK /\ Tally
    /\ frames # << >> /\ Top.broken => errors
    /\ frames = << >> /\ ~done => reached = -1
    /\ SizeIsExact
------------------------------------------------------------------------------
(* Numbers and sequences *)

\* Every set of numbers has a least one.
LEMMA LeastNat ==
  ASSUME NEW S \in SUBSET Nat, S # {}
  PROVE  \E n \in S : \A m \in S : n <= m
<1> DEFINE R == OpToRel(<, Nat)
<1>1. IsWellFoundedOn(R, Nat)
  BY NatLessThanWellFounded
<1>2. \A x, y \in Nat : x < y => <<x, y>> \in R
  BY DEF OpToRel
<1>. HIDE DEF R
<1>3. PICK n \in S : \A m \in S : <<m, n>> \notin R
  BY <1>1, WFMin
<1>4. ASSUME NEW m \in S PROVE n <= m
  <2>1. m \in Nat /\ n \in Nat /\ ~(m < n)
    BY <1>2, <1>3
  <2>. QED
    BY <2>1
<1>. QED
  BY <1>4

\* A set that has 0, and n + 1 with every n below the bound, has them all.
LEMMA Induction ==
  ASSUME NEW b \in Nat, NEW S, 0 \in S, \A n \in S : n \in 0 .. b /\ n + 1 <= b => n + 1 \in S
  PROVE  0 .. b \subseteq S
<1>1. SUFFICES ASSUME (0 .. b) \ S # {} PROVE FALSE
  OBVIOUS
<1>2. PICK n \in (0 .. b) \ S : \A m \in (0 .. b) \ S : n <= m
  <2> DEFINE T == (0 .. b) \ S
  <2>1. T \in SUBSET Nat /\ T # {}
    BY <1>1
  <2> HIDE DEF T
  <2>2. \E n \in T : \A m \in T : n <= m
    BY <2>1, LeastNat
  <2>. QED
    BY <2>2 DEF T
<1>3. n \in 0 .. b /\ n \notin S /\ n # 0
  BY <1>2
<1>4. n - 1 \in 0 .. b /\ n - 1 < n /\ (n - 1) + 1 = n
  BY <1>3
<1>5. n - 1 \in S
  BY <1>2, <1>4
<1>6. (n - 1) + 1 <= b
  BY <1>3, <1>4
<1>7. (n - 1) + 1 \in S
  BY <1>4, <1>5, <1>6
<1>. QED
  BY <1>3, <1>4, <1>7

\* A set of numbers up to b has a greatest one.
LEMMA Greatest ==
  ASSUME NEW b \in Nat, NEW S, S \subseteq 1..b, S # {}
  PROVE  \E n \in S : \A m \in (n + 1)..b : m \notin S
<1> DEFINE T == {b - n : n \in S}
<1>1. T \in SUBSET Nat /\ T # {}
  <2>1. \A n \in S : b - n \in Nat
    OBVIOUS
  <2>2. PICK n : n \in S
    OBVIOUS
  <2>3. b - n \in T
    BY <2>2
  <2>. QED
    BY <2>1, <2>3
<1> HIDE DEF T
<1>2. PICK t \in T : \A u \in T : t <= u
  BY <1>1, LeastNat
<1>3. PICK n \in S : t = b - n
  BY DEF T
<1>4. ASSUME NEW m \in (n + 1)..b, m \in S PROVE FALSE
  <2>1. b - m \in T
    BY <1>4 DEF T
  <2>. QED
    BY <1>2, <1>3, <1>4, <2>1
<1>. QED
  BY <1>4

\* The length and the places of a sequence.
LEMMA SeqFacts ==
  ASSUME NEW s, IsSeq(s)
  PROVE  /\ Len(s) \in Nat /\ DOMAIN s = 1..Len(s)
         /\ s # << >> <=> Len(s) > 0
<1>1. PICK S : s \in Seq(S)
  BY DEF IsSeq
<1>. QED
  BY <1>1

\* One more member.
LEMMA SeqAppend ==
  ASSUME NEW s, IsSeq(s), NEW x
  PROVE  /\ IsSeq(Append(s, x)) /\ Len(Append(s, x)) = Len(s) + 1 /\ Append(s, x) # << >>
         /\ Append(s, x)[Len(s) + 1] = x
         /\ \A i \in 1..Len(s) : Append(s, x)[i] = s[i]
<1>1. PICK S : s \in Seq(S)
  BY DEF IsSeq
<1> DEFINE T == S \cup {x}
<1>2. s \in Seq(T) /\ x \in T
  BY <1>1
<1> HIDE DEF T
<1>3. Append(s, x) \in Seq(T)
  BY <1>2
<1>. QED
  BY <1>2, <1>3 DEF IsSeq

\* The first n members.
LEMMA SeqFirst ==
  ASSUME NEW s, IsSeq(s), NEW n \in 0..Len(s)
  PROVE  /\ IsSeq(SubSeq(s, 1, n)) /\ Len(SubSeq(s, 1, n)) = n
         /\ \A i \in 1..n : SubSeq(s, 1, n)[i] = s[i]
<1>1. PICK S : s \in Seq(S)
  BY DEF IsSeq
<1>2. SubSeq(s, 1, n) \in Seq(S)
  BY <1>1
<1>. QED
  BY <1>1, <1>2 DEF IsSeq

\* Another member in one place.
Replaces(t, s, k, x) == t = [s EXCEPT ![k] = x]

\* The rest of the sequence stays.
LEMMA SeqExcept ==
  ASSUME NEW s, IsSeq(s), NEW k \in 1..Len(s), NEW x, NEW t, Replaces(t, s, k, x)
  PROVE  IsSeq(t) /\ Len(t) = Len(s) /\ t[k] = x /\ \A i \in 1..Len(s) : i # k => t[i] = s[i]
<1>1. PICK S : s \in Seq(S)
  BY DEF IsSeq
<1> DEFINE T == S \cup {x}
<1>2. s \in Seq(T) /\ x \in T
  BY <1>1
<1> HIDE DEF T
<1>3. t \in Seq(T) /\ Len(t) = Len(s)
  BY <1>2 DEF Replaces
<1>. QED
  BY <1>2, <1>3 DEF IsSeq, Replaces

\* Another last member.
Exchanges(t, s, x) == t = Append(Front(s), x)

\* The members before it stay.
LEMMA SeqReplace ==
  ASSUME NEW s, IsSeq(s), s # << >>, NEW x, NEW t, Exchanges(t, s, x)
  PROVE  /\ IsSeq(t) /\ Len(t) = Len(s) /\ t[Len(s)] = x /\ t # << >>
         /\ \A i \in 1..(Len(s) - 1) : t[i] = s[i]
<1>1. Len(s) \in Nat /\ Len(s) > 0
  BY SeqFacts
<1>2. /\ IsSeq(Front(s)) /\ Len(Front(s)) = Len(s) - 1
      /\ \A i \in 1..(Len(s) - 1) : Front(s)[i] = s[i]
  <2> DEFINE n == Len(s) - 1
  <2>1. n \in 0..Len(s)
    BY <1>1
  <2> HIDE DEF n
  <2>2. IsSeq(SubSeq(s, 1, n)) /\ Len(SubSeq(s, 1, n)) = n /\ \A i \in 1..n : SubSeq(s, 1, n)[i] = s[i]
    BY <2>1, SeqFirst
  <2>. QED
    BY <2>2 DEF Front, n
<1> DEFINE u == Front(s)
<1>3. IsSeq(u) /\ Len(u) = Len(s) - 1 /\ \A i \in 1..(Len(s) - 1) : u[i] = s[i]
  BY <1>2
<1> HIDE DEF u
<1>4. /\ IsSeq(Append(u, x)) /\ Len(Append(u, x)) = Len(u) + 1 /\ Append(u, x) # << >>
      /\ Append(u, x)[Len(u) + 1] = x
      /\ \A i \in 1..Len(u) : Append(u, x)[i] = u[i]
  BY <1>3, SeqAppend
<1>5. Len(u) + 1 = Len(s)
  BY <1>1, <1>3
<1>. QED
  BY <1>3, <1>4, <1>5 DEF u, Exchanges

------------------------------------------------------------------------------
(* Accessers *)

\* A sequence of numbers with one more.
LEMMA PathAppend ==
  ASSUME NEW p \in Seq(Nat), NEW k \in Nat
  PROVE  /\ Append(p, k) \in Seq(Nat) /\ Append(p, k) # << >>
         /\ p # << >> => Append(p, k)[1] = p[1]
         /\ p = << >> => Append(p, k)[1] = k
<1>1. Append(p, k) \in Seq(Nat) /\ Len(p) \in Nat /\ IsSeq(p)
  BY DEF IsSeq
<1>2. /\ Append(p, k) # << >> /\ Append(p, k)[Len(p) + 1] = k
      /\ \A i \in 1..Len(p) : Append(p, k)[i] = p[i]
  BY <1>1, SeqAppend
<1>3. p # << >> => 1 \in 1..Len(p)
  BY <1>1
<1>4. p = << >> => Len(p) + 1 = 1
  OBVIOUS
<1>. QED
  BY <1>1, <1>2, <1>3, <1>4

\* The steps to the child an entry stands at.
LEMMA PathFacts ==
  ASSUME NEW e, IsEntry(e)
  PROVE  /\ Path(e) \in Seq(Nat) /\ Path(e) # << >> /\ Path(e)[1] \in Nat
         /\ e.path # << >> => Path(e)[1] = e.path[1]
<1>1. Step(e) \in Nat /\ e.path \in Seq(Nat)
  BY DEF IsEntry, Step
<1>. QED
  BY <1>1, PathAppend DEF Path

\* The first of them is that of the accesser.
LEMMA WayFacts ==
  ASSUME NEW at, IsAccesser(at)
  PROVE  /\ Len(at) \in Nat \ {0} /\ IsEntry(at[1]) /\ IsEntry(Last(at))
         /\ FirstStep(at) \in Nat
         /\ OneWay(at) => Path(Last(at))[1] = FirstStep(at)
<1>1. Len(at) \in Nat \ {0} /\ \A i \in 1..Len(at) : IsEntry(at[i])
  <2>1. IsSeq(at) /\ at # << >> /\ \A i \in 1..Len(at) : IsEntry(at[i])
    BY DEF IsAccesser, Entries
  <2>2. Len(at) \in Nat /\ Len(at) > 0
    BY <2>1, SeqFacts
  <2>. QED
    BY <2>1, <2>2
<1>2. 1 \in 1..Len(at) /\ Len(at) \in 1..Len(at) /\ (Len(at) # 1 => Len(at) \in 2..Len(at))
  <2>1. \A n \in Nat \ {0} : 1 \in 1..n /\ n \in 1..n /\ (n # 1 => n \in 2..n)
    OBVIOUS
  <2>. QED
    BY <1>1, <2>1
<1>3. IsEntry(at[1]) /\ IsEntry(at[Len(at)])
  BY <1>1, <1>2
<1>4. FirstStep(at) \in Nat
  BY <1>3, PathFacts DEF FirstStep
<1>5. ASSUME OneWay(at) PROVE Path(at[Len(at)])[1] = FirstStep(at)
  <2>1. CASE Len(at) = 1
    BY <2>1 DEF FirstStep
  <2>2. CASE Len(at) # 1
    BY <1>2, <1>3, <1>5, <2>2, PathFacts DEF OneWay
  <2>. QED
    BY <2>1, <2>2
<1>. QED
  BY <1>1, <1>3, <1>4, <1>5 DEF Last

\* An entry moved on to the next child.
LEMMA StepFacts ==
  ASSUME NEW up, IsSeq(up), NEW on \in 1..Len(up), IsEntry(up[on]), NEW t,
         Replaces(t, up, on, [up[on] EXCEPT !.index = up[on].index + 1])
  PROVE  /\ IsSeq(t) /\ Len(t) = Len(up) /\ IsEntry(t[on])
         /\ t[on].path = up[on].path /\ t[on].node = up[on].node
         /\ \A i \in 1..Len(up) : i # on => t[i] = up[i]
<1>1. PICK e : e = [up[on] EXCEPT !.index = up[on].index + 1]
  OBVIOUS
<1>2. IsEntry(e) /\ e.path = up[on].path /\ e.node = up[on].node
  BY <1>1 DEF IsEntry
<1>3. Replaces(t, up, on, e)
  BY <1>1
<1>4. /\ IsSeq(t) /\ Len(t) = Len(up) /\ t[on] = e
      /\ \A i \in 1..Len(up) : i # on => t[i] = up[i]
  BY <1>3, SeqExcept
<1>. QED
  BY <1>2, <1>4

\* next() keeps the entries it does not leave.
LEMMA NextFacts ==
  ASSUME NEW at, IsAccesser(at)
  PROVE  /\ IsAccesser(next(at)) /\ (OneWay(at) => OneWay(next(at)))
         /\ next(at)[1].path = at[1].path /\ next(at)[1].node = at[1].node
<1> DEFINE n(i)    == numOfChildren(at[i].node)
           Over(i) == i > 1 /\ at[i].index # n(i) /\ at[i].index + 1 = n(i)
           Stays(i) == ~Over(i) /\ \A j \in (i + 1)..Len(at) : Over(j)
           on == CHOOSE i \in 1..Len(at) : Stays(i)
           up == SubSeq(at, 1, on)
<1>1. Len(at) \in Nat \ {0} /\ IsSeq(at) /\ \A i \in 1..Len(at) : IsEntry(at[i])
  BY WayFacts DEF IsAccesser, Entries
<1>2. on \in 1..Len(at)
  <2> DEFINE S == {i \in 1..Len(at) : ~Over(i)}
  <2>1. S \subseteq 1..Len(at) /\ S # {}
    <3>1. 1 \in S
      BY <1>1
    <3>. QED
      BY <3>1
  <2>2. PICK i \in S : \A m \in (i + 1)..Len(at) : m \notin S
    <3> HIDE DEF S
    <3>. QED
      BY <1>1, <2>1, Greatest
  <2>3. \A j \in (i + 1)..Len(at) : j \in 1..Len(at)
    BY <1>1, <2>1
  <2>4. Stays(i)
    BY <2>2, <2>3
  <2> HIDE DEF Stays
  <2>. QED
    BY <2>4
<1>3. next(at) = IF at[on].index = n(on) THEN up ELSE [up EXCEPT ![on].index = up[on].index + 1]
  BY Zenon DEF next
<1> HIDE DEF on, n
<1>4. IsSeq(up) /\ Len(up) = on /\ \A i \in 1..on : up[i] = at[i]
  BY <1>1, <1>2, SeqFirst
<1>5. on \in Nat /\ on \in 1..on /\ 1 \in 1..on /\ \A i \in 1..on : i \in 1..Len(at)
  BY <1>1, <1>2
<1> HIDE DEF up
<1> DEFINE t == next(at)
<1>6. IsEntry(up[on]) /\ up[on] = at[on]
  BY <1>1, <1>2, <1>4, <1>5
<1>8. /\ IsSeq(t) /\ Len(t) = on
      /\ t[on].path = at[on].path /\ t[on].node = at[on].node /\ IsEntry(t[on])
      /\ \A i \in 1..on : i # on => t[i] = at[i]
  <2>1. CASE at[on].index = n(on)
    BY <1>3, <1>4, <1>5, <1>6, <2>1
  <2>2. CASE at[on].index # n(on)
    <3>1. Replaces(t, up, on, [up[on] EXCEPT !.index = up[on].index + 1])
      BY <1>3, <2>2 DEF Replaces
    <3>2. on \in 1..Len(up)
      BY <1>4, <1>5
    <3> HIDE DEF t
    <3>3. /\ IsSeq(t) /\ Len(t) = Len(up) /\ IsEntry(t[on])
          /\ t[on].path = up[on].path /\ t[on].node = up[on].node
          /\ \A i \in 1..Len(up) : i # on => t[i] = up[i]
      BY <1>4, <1>6, <3>1, <3>2, StepFacts
    <3>. QED
      BY <1>4, <1>6, <3>3
  <2>. QED
    BY <2>1, <2>2
<1> HIDE DEF t
<1>9. \A i \in 1..on : t[i].path = at[i].path /\ t[i].node = at[i].node /\ IsEntry(t[i])
  BY <1>1, <1>5, <1>8
<1>10. IsAccesser(t)
  BY <1>5, <1>8, <1>9, SeqFacts DEF IsAccesser, Entries
<1>11. ASSUME OneWay(at) PROVE OneWay(t)
  <2>1. SUFFICES ASSUME NEW i \in 2..on PROVE t[i].path # << >> /\ t[i].path[1] = FirstStep(t)
    BY <1>8 DEF OneWay
  <2>2. i \in 2..Len(at) /\ i \in 1..on /\ on # 1
    BY <1>1, <1>2, <2>1
  <2>3. t[1] = at[1]
    BY <1>5, <1>8, <2>2
  <2>. QED
    BY <1>9, <1>11, <2>2, <2>3 DEF OneWay, FirstStep
<1>. QED
  BY <1>5, <1>9, <1>10, <1>11 DEF t

\* The descent of Fitting, one level at a time.
Down(a, v) == IF CastTo(v, type(a)) # NoType \/ ~CanGoDown(a) THEN a ELSE down(a)

Descends(at, v, n, downs) ==
    downs = [k \in 0..n |-> IF k = 0 THEN at ELSE Down(downs[k - 1], v)]

\* There is a descent of any length.
LEMMA DescentsExist ==
  ASSUME NEW at, NEW v, NEW b \in Nat
  PROVE  \E downs : Descends(at, v, b, downs)
<1> DEFINE S == {n \in Nat : \E downs : Descends(at, v, n, downs)}
<1>1. 0 \in S
  <2>1. Descends(at, v, 0, [k \in 0..0 |-> at])
    BY DEF Descends
  <2>. QED
    BY <2>1
<1>2. ASSUME NEW n \in S PROVE n + 1 \in S
  <2>1. PICK f : Descends(at, v, n, f)
    BY <1>2
  <2> DEFINE g == [k \in 0..(n + 1) |-> IF k = n + 1 THEN Down(f[n], v) ELSE f[k]]
  <2>2. n \in Nat /\ n + 1 \in Nat
    OBVIOUS
  <2>3. ASSUME NEW k \in 0..(n + 1)
        PROVE  g[k] = IF k = 0 THEN at ELSE Down(g[k - 1], v)
    <3>1. CASE k = n + 1
      <4>1. k # 0 /\ k - 1 = n /\ n \in 0..(n + 1) /\ n # n + 1
        BY <2>2, <3>1
      <4>2. g[k - 1] = f[n]
        BY <4>1
      <4>. QED
        BY <3>1, <4>1, <4>2
    <3>2. CASE k # n + 1
      <4>1. k \in 0..n /\ (k # 0 => k - 1 \in 0..(n + 1) /\ k - 1 # n + 1)
        BY <2>2, <3>2
      <4>2. g[k] = f[k] /\ (k # 0 => g[k - 1] = f[k - 1])
        BY <4>1, <3>2
      <4>3. f[k] = IF k = 0 THEN at ELSE Down(f[k - 1], v)
        BY <4>1, <2>1 DEF Descends
      <4>. QED
        BY <4>2, <4>3
    <3>. QED
      BY <3>1, <3>2
  <2>4. Descends(at, v, n + 1, g)
    <3>1. g = [k \in 0..(n + 1) |-> g[k]]
      OBVIOUS
    <3> HIDE DEF g
    <3>. QED
      BY <2>3, <3>1 DEF Descends
  <2>. QED
    BY <2>2, <2>4
<1>3. 0..b \subseteq S
  <2> HIDE DEF S
  <2>. QED
    BY <1>1, <1>2, Induction
<1>. QED
  BY <1>3

\* Fitting is the end of such a descent.
LEMMA FittingDescends ==
  ASSUME NEW at, NEW v
  PROVE  \E downs : Descends(at, v, Nesting, downs) /\ Fitting(at, v) = downs[Nesting]
<1>1. Fitting(at, v) = (CHOOSE downs : Descends(at, v, Nesting, downs))[Nesting]
  BY Zenon DEF Fitting, Descends, Down
<1>. QED
  BY <1>1, DescentsExist, InitializerAssumption

\* down() adds an entry for the child.
LEMMA DownFacts ==
  ASSUME NEW at, IsAccesser(at)
  PROVE  /\ IsAccesser(down(at)) /\ down(at)[1] = at[1]
         /\ OneWay(at) => OneWay(down(at))
<1> DEFINE e == Entry(type(at), Path(Last(at)), 0, 0)
           t == Append(at, e)
<1>1. Path(Last(at)) \in Seq(Nat) /\ Path(Last(at)) # << >>
  BY WayFacts, PathFacts
<1>2. IsEntry(e) /\ e.path = Path(Last(at))
  BY <1>1 DEF IsEntry, Entry
<1>3. Len(at) \in Nat \ {0} /\ IsSeq(at) /\ \A i \in 1..Len(at) : IsEntry(at[i])
  BY WayFacts DEF IsAccesser, Entries
<1> HIDE DEF e
<1>4. /\ IsSeq(t) /\ Len(t) = Len(at) + 1 /\ t # << >> /\ t[Len(at) + 1] = e
      /\ \A i \in 1..Len(at) : t[i] = at[i]
  BY <1>3, SeqAppend
<1>5. \A i \in 1..(Len(at) + 1) : i = Len(at) + 1 \/ i \in 1..Len(at)
  BY <1>3
<1>6. IsAccesser(t)
  BY <1>2, <1>3, <1>4, <1>5 DEF IsAccesser, Entries
<1>7. t[1] = at[1]
  BY <1>3, <1>4
<1>8. ASSUME OneWay(at) PROVE OneWay(t)
  <2>1. SUFFICES ASSUME NEW i \in 2..(Len(at) + 1)
                 PROVE  t[i].path # << >> /\ t[i].path[1] = FirstStep(at)
    BY <1>4, <1>7 DEF OneWay, FirstStep
  <2>2. CASE i = Len(at) + 1
    BY <1>1, <1>2, <1>4, <1>8, <2>2, WayFacts
  <2>3. CASE i # Len(at) + 1
    <3>1. i \in 2..Len(at) /\ i \in 1..Len(at)
      BY <1>3, <2>3
    <3>. QED
      BY <1>4, <1>8, <3>1 DEF OneWay
  <2>. QED
    BY <2>2, <2>3
<1>. QED
  BY <1>6, <1>7, <1>8 DEF down, e

\* So the descent stays below the entry it begins at.
LEMMA FittingFacts ==
  ASSUME NEW at, IsAccesser(at), NEW v
  PROVE  /\ IsAccesser(Fitting(at, v)) /\ Fitting(at, v)[1] = at[1]
         /\ OneWay(at) => OneWay(Fitting(at, v))
<1>1. PICK f : Descends(at, v, Nesting, f) /\ Fitting(at, v) = f[Nesting]
  BY FittingDescends
<1> DEFINE Good(a) == IsAccesser(a) /\ a[1] = at[1] /\ (OneWay(at) => OneWay(a))
           S == {k \in 0..Nesting : Good(f[k])}
<1>2. Nesting \in Nat
  BY InitializerAssumption
<1>3. \A k \in 0..Nesting : f[k] = IF k = 0 THEN at ELSE Down(f[k - 1], v)
  BY <1>1 DEF Descends
<1>4. 0 \in S
  <2>1. 0 \in 0..Nesting /\ f[0] = at
    BY <1>2, <1>3
  <2>. QED
    BY <2>1
<1>5. ASSUME NEW k \in S, k \in 0..Nesting, k + 1 <= Nesting PROVE k + 1 \in S
  <2>1. k \in Nat /\ k + 1 \in 0..Nesting /\ k + 1 # 0 /\ (k + 1) - 1 = k
    BY <1>2, <1>5
  <2>2. f[k + 1] = Down(f[k], v)
    BY <1>3, <2>1
  <2>3. Good(f[k])
    BY <1>5
  <2>4. Down(f[k], v) = f[k] \/ Down(f[k], v) = down(f[k])
    BY DEF Down
  <2>5. Good(down(f[k]))
    BY <2>3, DownFacts
  <2> HIDE DEF Good
  <2>. QED
    BY <2>1, <2>2, <2>3, <2>4, <2>5
<1>6. 0..Nesting \subseteq S
  <2> HIDE DEF S
  <2>. QED
    BY <1>2, <1>4, <1>5, Induction
<1>7. Good(f[Nesting])
  BY <1>2, <1>6
<1>. QED
  BY <1>1, <1>7

------------------------------------------------------------------------------
(* access() *)

\* The walk along the designators of an item.
Walks(t, ds, n, walk) ==
    walk = [k \in 0..n |-> IF k = 0 THEN Start(t) ELSE Follow(walk[k - 1], ds[k])]

\* There is a walk along any number of them.
LEMMA WalksExist ==
  ASSUME NEW t, NEW ds, NEW b \in Nat
  PROVE  \E walk : Walks(t, ds, b, walk)
<1> DEFINE S == {n \in Nat : \E walk : Walks(t, ds, n, walk)}
<1>1. 0 \in S
  <2>1. Walks(t, ds, 0, [k \in 0..0 |-> Start(t)])
    BY DEF Walks
  <2>. QED
    BY <2>1
<1>2. ASSUME NEW n \in S PROVE n + 1 \in S
  <2>1. PICK f : Walks(t, ds, n, f)
    BY <1>2
  <2> DEFINE g == [k \in 0..(n + 1) |-> IF k = n + 1 THEN Follow(f[n], ds[n + 1]) ELSE f[k]]
  <2>2. n \in Nat /\ n + 1 \in Nat
    OBVIOUS
  <2>3. ASSUME NEW k \in 0..(n + 1)
        PROVE  g[k] = IF k = 0 THEN Start(t) ELSE Follow(g[k - 1], ds[k])
    <3>1. CASE k = n + 1
      <4>1. k # 0 /\ k - 1 = n /\ n \in 0..(n + 1) /\ n # n + 1
        BY <2>2, <3>1
      <4>2. g[k - 1] = f[n]
        BY <4>1
      <4>. QED
        BY <3>1, <4>1, <4>2
    <3>2. CASE k # n + 1
      <4>1. k \in 0..n /\ (k # 0 => k - 1 \in 0..(n + 1) /\ k - 1 # n + 1)
        BY <2>2, <3>2
      <4>2. g[k] = f[k] /\ (k # 0 => g[k - 1] = f[k - 1])
        BY <4>1, <3>2
      <4>3. f[k] = IF k = 0 THEN Start(t) ELSE Follow(f[k - 1], ds[k])
        BY <4>1, <2>1 DEF Walks
      <4>. QED
        BY <4>2, <4>3
    <3>. QED
      BY <3>1, <3>2
  <2>4. Walks(t, ds, n + 1, g)
    <3>1. g = [k \in 0..(n + 1) |-> g[k]]
      OBVIOUS
    <3> HIDE DEF g
    <3>. QED
      BY <2>3, <3>1 DEF Walks
  <2>. QED
    BY <2>2, <2>4
<1>3. 0..b \subseteq S
  <2> HIDE DEF S
  <2>. QED
    BY <1>1, <1>2, Induction
<1>. QED
  BY <1>3


\* What access() makes of its end.
LEMMA AccessWalks ==
  ASSUME NEW t, NEW ds, Len(ds) \in Nat
  PROVE  \E walk : /\ Walks(t, ds, Len(ds), walk)
                   /\ access(t, ds) = Arrived(walk[Len(ds)])
<1> DEFINE w == CHOOSE walk : Walks(t, ds, Len(ds), walk)
<1>1. access(t, ds) = Arrived(w[Len(ds)])
  BY Zenon DEF access, Walks
<1>2. Walks(t, ds, Len(ds), w)
  BY WalksExist
<1>. QED
  BY <1>1, <1>2

IsWalk(w) ==
    /\ DOMAIN w = {"node", "path", "lost", "at"}
    /\ w.path \in Seq(Nat) /\ Entries(w.at)

\* The walk and its entries begin at the element d of an array.
Within(w, d) ==
    /\ IsIndex(d) /\ w.path # << >> /\ w.path[1] = d.index
    /\ \A i \in 1..Len(w.at) : w.at[i].path # << >> /\ w.at[i].path[1] = d.index

\* One designator.
LEMMA FollowFacts ==
  ASSUME NEW w, IsWalk(w), NEW d, d.index \in Nat
  PROVE  /\ IsWalk(Follow(w, d))
         /\ w.lost = TRUE => Follow(w, d).lost = TRUE
         /\ \A c : Within(w, c) => Follow(w, d).lost = TRUE \/ Within(Follow(w, d), c)
         /\ w.node.basic = "ARRAY" /\ w.path = << >> /\ w.at = << >>
               => Follow(w, d).lost = TRUE \/ Within(Follow(w, d), d)
<1> DEFINE t     == w.node
           array == t.basic = "ARRAY"
           steps == Steps(t, d)
           step  == CHOOSE i \in steps : TRUE
           lost  == w.lost \/ steps = {}
           e     == IF t.basic = "UNION" THEN Entry(t, w.path, 0, step)
                    ELSE Entry(t, w.path, step, 0)
           f     == Follow(w, d)
<1>1. f = IF lost THEN [w EXCEPT !.lost = TRUE]
          ELSE [node |-> child(t, step), path |-> Append(w.path, step), lost |-> FALSE,
                at |-> IF array THEN w.at ELSE Append(w.at, e)]
  <2>1. Along(w, t, step) =
            [node |-> child(t, step), path |-> Append(w.path, step), lost |-> FALSE,
             at |-> IF array THEN w.at ELSE Append(w.at, e)]
    BY Zenon DEF Along
  <2>2. f = IF lost THEN [w EXCEPT !.lost = TRUE] ELSE Along(w, t, step)
    BY Zenon DEF Follow
  <2>. QED
    BY <2>1, <2>2, Zenon
<1>2. CASE lost
  <2>1. f = [w EXCEPT !.lost = TRUE]
    BY <1>1, <1>2
  <2> HIDE DEF f, lost
  <2>2. DOMAIN f = DOMAIN w /\ f.path = w.path /\ f.at = w.at /\ f.lost = TRUE
    BY <2>1 DEF IsWalk
  <2>. QED
    BY <2>2 DEF f, IsWalk
<1>3. CASE ~lost
  <2>1. step \in Nat /\ (array => IsIndex(d) /\ step = d.index)
    <3>1. step \in steps
      BY <1>3, Zenon
    <3>2. \A i \in steps : i \in Nat /\ (array => IsIndex(d) /\ i = d.index)
      BY DEF Steps
    <3> HIDE DEF step, steps
    <3>. QED
      BY <3>1, <3>2
  <2>2. /\ f = [node |-> child(t, step), path |-> Append(w.path, step), lost |-> FALSE,
                at |-> IF array THEN w.at ELSE Append(w.at, e)]
        /\ array => IsIndex(d) /\ step = d.index
        /\ w.lost # TRUE
    BY <1>1, <1>3, <2>1
  <2>3. w.path \in Seq(Nat) /\ Entries(w.at) /\ DOMAIN w = {"node", "path", "lost", "at"}
    BY DEF IsWalk
  <2> HIDE DEF step, lost, array, steps
  <2>4. IsEntry(e) /\ e.path = w.path
    BY <2>1, <2>3 DEF IsEntry, Entry
  <2> HIDE DEF e
  <2>5. IsSeq(w.at) /\ Len(w.at) \in Nat /\ \A i \in 1..Len(w.at) : IsEntry(w.at[i])
    BY <2>3, SeqFacts DEF Entries
  <2> DEFINE a == Append(w.at, e)
  <2>6. /\ IsSeq(a) /\ Len(a) = Len(w.at) + 1 /\ a[Len(w.at) + 1] = e
        /\ \A i \in 1..Len(w.at) : a[i] = w.at[i]
    BY <2>5, SeqAppend
  <2>7. \A i \in 1..(Len(w.at) + 1) : i = Len(w.at) + 1 \/ i \in 1..Len(w.at)
    BY <2>5
  <2>8. Entries(a)
    BY <2>4, <2>5, <2>6, <2>7 DEF Entries
  <2>9. /\ Append(w.path, step) \in Seq(Nat) /\ Append(w.path, step) # << >>
        /\ w.path # << >> => Append(w.path, step)[1] = w.path[1]
        /\ w.path = << >> => Append(w.path, step)[1] = step
    BY <2>1, <2>3, PathAppend
  <2> DEFINE p == Append(w.path, step)
  <2> HIDE DEF a, p
  <2>10. /\ DOMAIN f = {"node", "path", "lost", "at"} /\ f.path = p /\ f.lost = FALSE
         /\ f.at = IF array THEN w.at ELSE a
    <3>1. f = [node |-> child(t, step), path |-> p, lost |-> FALSE,
               at |-> IF array THEN w.at ELSE a]
      BY <2>2 DEF a, p
    <3> HIDE DEF f, t
    <3>. QED
      BY <3>1
  <2>11. /\ p \in Seq(Nat) /\ p # << >> /\ (w.path # << >> => p[1] = w.path[1])
         /\ (w.path = << >> => p[1] = step)
    BY <2>9 DEF p
  <2> HIDE DEF f, t
  <2>12. IsWalk(f)
    BY <2>3, <2>8, <2>10, <2>11 DEF IsWalk
  <2>13. ASSUME NEW c, Within(w, c) PROVE Within(f, c)
    <3>1. /\ IsIndex(c) /\ w.path # << >> /\ w.path[1] = c.index
          /\ \A i \in 1..Len(w.at) : w.at[i].path # << >> /\ w.at[i].path[1] = c.index
      BY <2>13 DEF Within
    <3>2. \A i \in 1..Len(a) : a[i].path # << >> /\ a[i].path[1] = c.index
      BY <2>4, <2>6, <2>7, <3>1
    <3>. QED
      BY <2>10, <2>11, <3>1, <3>2 DEF Within
  <2>14. ASSUME array, w.path = << >>, w.at = << >> PROVE Within(f, d)
    <3>1. f.at = << >> /\ Len(f.at) = 0
      BY <2>10, <2>14
    <3>. QED
      BY <2>2, <2>10, <2>11, <2>14, <3>1 DEF Within
  <2>. QED
    BY <2>2, <2>12, <2>13, <2>14 DEF f, array, t
<1>. QED
  BY <1>2, <1>3

\* Where the designators of an item lead: nowhere, or, in an array, to the
\* element that the first of them is the index of.
LEMMA AccessFacts ==
  ASSUME NEW t, NEW ds \in Designations, ds # << >>
  PROVE  LET at == access(t, ds)
         IN  /\ Entries(at)
             /\ t.basic = "ARRAY" =>
                    \/ at = NoAccess \/ at = << >>
                    \/ /\ IsIndex(ds[1]) /\ at[1].path # << >> /\ at[1].path[1] = ds[1].index
                       /\ OneWay(at)
<1>1. /\ Len(ds) \in Nat \ {0} /\ 1 \in 1..Len(ds)
      /\ \A i \in 1..Len(ds) : ds[i].index \in Nat
  <2> DEFINE D == [name : STRING, index : Nat]
  <2>1. ds \in Seq(D) /\ \A d \in D : d.index \in Nat
    BY InitializerAssumption
  <2> HIDE DEF D
  <2>2. Len(ds) \in Nat \ {0} /\ \A i \in 1..Len(ds) : ds[i] \in D
    BY <2>1
  <2>3. 1 \in 1..Len(ds)
    BY <2>2
  <2>. QED
    BY <2>1, <2>2, <2>3
<1>2. PICK w : Walks(t, ds, Len(ds), w) /\ access(t, ds) = Arrived(w[Len(ds)])
  BY <1>1, AccessWalks
<1> DEFINE n == Len(ds)
           On(k) == /\ IsWalk(w[k])
                    /\ t.basic = "ARRAY" => w[k].lost = TRUE \/ IF k = 0 THEN w[k] = Start(t)
                                                                ELSE Within(w[k], ds[1])
           S == {k \in 0..n : On(k)}
<1> HIDE DEF n
<1>3. n \in Nat \ {0} /\ 1 \in 1..n /\ \A i \in 1..n : ds[i].index \in Nat
  BY <1>1 DEF n
<1>4. \A k \in 0..n : w[k] = IF k = 0 THEN Start(t) ELSE Follow(w[k - 1], ds[k])
  BY <1>2 DEF Walks, n
<1>5. 0 \in S
  <2>1. w[0] = Start(t)
    BY <1>3, <1>4
  <2>2. IsWalk(Start(t))
    <3>1. << >> \in Seq(Nat) /\ Len(<< >>) = 0
      OBVIOUS
    <3>2. Entries(<< >>)
      BY <3>1 DEF Entries, IsSeq
    <3>. QED
      BY <3>1, <3>2 DEF IsWalk, Start
  <2>. QED
    BY <1>3, <2>1, <2>2
<1>6. ASSUME NEW k \in S, k \in 0..n, k + 1 <= n PROVE k + 1 \in S
  <2>1. k \in Nat /\ k + 1 \in 0..n /\ k + 1 \in 1..n /\ k + 1 # 0 /\ (k + 1) - 1 = k
    BY <1>3, <1>6
  <2>2. w[k + 1] = Follow(w[k], ds[k + 1]) /\ ds[k + 1].index \in Nat
    BY <1>3, <1>4, <2>1
  <2>3. On(k)
    BY <1>6
  <2>4. /\ IsWalk(w[k + 1])
        /\ w[k].lost = TRUE => w[k + 1].lost = TRUE
        /\ \A c : Within(w[k], c) => w[k + 1].lost = TRUE \/ Within(w[k + 1], c)
        /\ w[k].node.basic = "ARRAY" /\ w[k].path = << >> /\ w[k].at = << >>
               => w[k + 1].lost = TRUE \/ Within(w[k + 1], ds[k + 1])
    BY <2>2, <2>3, FollowFacts
  <2>5. ASSUME t.basic = "ARRAY" PROVE w[k + 1].lost = TRUE \/ Within(w[k + 1], ds[1])
    <3>1. CASE w[k].lost = TRUE
      BY <2>4, <3>1
    <3>2. CASE k = 0 /\ w[k] = Start(t)
      <4>1. w[k].node.basic = "ARRAY" /\ w[k].path = << >> /\ w[k].at = << >> /\ k + 1 = 1
        BY <2>5, <3>2 DEF Start
      <4>. QED
        BY <2>4, <4>1
    <3>3. CASE k # 0 /\ Within(w[k], ds[1])
      BY <2>4, <3>3
    <3>. QED
      BY <2>3, <2>5, <3>1, <3>2, <3>3
  <2>. QED
    BY <2>1, <2>4, <2>5
<1>7. On(n)
  <2>1. 0..n \subseteq S
    <3> HIDE DEF S
    <3>. QED
      BY <1>3, <1>5, <1>6, Induction
  <2>. QED
    BY <1>3, <2>1
<1>8. Entries(NoAccess)
  <2>1. /\ NoAccess \in Seq({Entry(ARRAY(VOID, 0), << >>, 0, 0)}) /\ Len(NoAccess) = 1
        /\ NoAccess[1] = Entry(ARRAY(VOID, 0), << >>, 0, 0)
    BY DEF NoAccess
  <2>2. << >> \in Seq(Nat)
    OBVIOUS
  <2>3. IsEntry(NoAccess[1])
    BY <2>1, <2>2 DEF IsEntry, Entry
  <2>. QED
    BY <2>1, <2>3 DEF Entries, IsSeq
<1> DEFINE at == access(t, ds)
<1>9. at = IF w[n].lost THEN NoAccess ELSE w[n].at
  BY <1>2 DEF n, Arrived
<1> HIDE DEF at
<1>10. Entries(at)
  BY <1>7, <1>8, <1>9 DEF IsWalk
<1>11. ASSUME t.basic = "ARRAY", at # NoAccess, at # << >>
       PROVE  /\ IsIndex(ds[1]) /\ at[1].path # << >> /\ at[1].path[1] = ds[1].index
              /\ OneWay(at)
  <2>1. at = w[n].at /\ w[n].lost # TRUE
    BY <1>9, <1>11
  <2>2. Within(w[n], ds[1])
    BY <1>3, <1>7, <1>11, <2>1
  <2>3. /\ IsIndex(ds[1])
        /\ \A i \in 1..Len(at) : at[i].path # << >> /\ at[i].path[1] = ds[1].index
    BY <2>1, <2>2 DEF Within
  <2>4. Len(at) \in Nat /\ 1 \in 1..Len(at) /\ IsEntry(at[1])
    <3>1. IsSeq(at) /\ \A i \in 1..Len(at) : IsEntry(at[i])
      BY <1>10 DEF Entries
    <3>2. Len(at) \in Nat /\ Len(at) > 0
      BY <1>11, <3>1, SeqFacts
    <3>. QED
      BY <3>1, <3>2
  <2>5. FirstStep(at) = ds[1].index
    BY <2>3, <2>4, PathFacts DEF FirstStep
  <2>6. \A i \in 2..Len(at) : i \in 1..Len(at)
    BY <2>4
  <2>. QED
    BY <2>3, <2>4, <2>5, <2>6 DEF OneWay
<1>. QED
  BY <1>10, <1>11 DEF at

\* There is nothing where no designator leads.
LEMMA NothingThere == type(NoAccess) = NoType
<1> DEFINE e == Entry(ARRAY(VOID, 0), << >>, 0, 0)
<1>1. Last(NoAccess) = e
  BY DEF NoAccess, Last
<1>2. e.index = 0 /\ e.node.basic = "ARRAY" /\ e.node.size = 0
  BY DEF Entry, ARRAY
<1>3. numOfChildren(e.node) = 0
  BY <1>2 DEF numOfChildren, NoSize
<1>. QED
  BY <1>1, <1>2, <1>3 DEF type

------------------------------------------------------------------------------
(* Lists *)

Fields == {"node", "at", "start", "size", "count", "broken", "last", "misled"}

\* The list f with another accesser and size.
Turned(g, f) ==
    /\ DOMAIN g = Fields
    /\ g.node = f.node /\ g.start = f.start /\ g.broken = f.broken

\* What asking a list for its accesser notes: the elements up to the one the
\* accesser is in, when the values before were in those up to r.
Reach(g, r) ==
    /\ g.size \in Nat /\ g.size <= Asked(g)
    /\ Asked(g) = IF FirstStep(g.at) > r THEN FirstStep(g.at) + 1 ELSE r + 1

\* Designators change the accesser and the size.
LEMMA MovedTurns ==
  ASSUME NEW f, IsFrame(f), IsTree(f.node), NEW ds \in Designations
  PROVE  Turned(Moved(f, ds), f) /\ Entries(Moved(f, ds).at)
<1> DEFINE at == access(f.node, ds)
           m  == \E i \in DOMAIN ds : IsIndex(ds[i])
           sz == IF IsIndex(ds[1]) THEN Noted(f, ds[1].index) ELSE f.size
           g  == Moved(f, ds)
<1>1. DOMAIN f = Fields /\ Entries(f.at)
  BY DEF IsFrame, Fields, IsAccesser
<1>2. CASE ds = << >>
  BY <1>1, <1>2 DEF Moved, Turned
<1>3. CASE ds # << >>
  <2>1. Entries(at)
    BY <1>3, AccessFacts
  <2>2. g = [f EXCEPT !.at = at, !.misled = m, !.size = sz]
    BY <1>3, Zenon DEF Moved
  <2> HIDE DEF at, m, sz, g
  <2>3. Turned(g, f) /\ g.at = at
    BY <1>1, <2>2 DEF Turned, Fields
  <2>. QED
    BY <2>1, <2>3 DEF g
<1>. QED
  BY <1>2, <1>3

\* An array without a size notes the element it is asked for.
LEMMA NotedFacts ==
  ASSUME NEW f, f.node.basic = "ARRAY", f.node.size = NoSize, f.size \in Nat, NEW k \in Nat
  PROVE  Noted(f, k) = IF k + 1 > f.size THEN k + 1 ELSE f.size
BY DEF Noted

\* In the outermost list they lead into an element that has been asked for.
LEMMA MovedReaches ==
  ASSUME NEW f, IsFrame(f), f.node = object, Unsized, OutermostOK(f), NEW r \in Int,
         f.size = r + 1, NEW ds \in Designations,
         Moved(f, ds).at # << >>, type(Moved(f, ds).at) # NoType
  PROVE  OutermostOK(Moved(f, ds)) /\ Reach(Moved(f, ds), r)
<1> DEFINE g == Moved(f, ds)
<1>1. f.node.basic = "ARRAY" /\ f.node.size = NoSize /\ IsTree(f.node) /\ f.size \in Nat
  BY DEF Unsized, OutermostOK, IsTree
<1>2. Turned(g, f) /\ Entries(g.at) /\ IsAccesser(g.at)
  BY <1>1, MovedTurns DEF IsAccesser
<1>3. IsEntry(g.at[1]) /\ FirstStep(g.at) \in Nat
  BY <1>2, WayFacts
<1>4. ASSUME g.size \in Nat, OneWay(g.at), g.at[1].path # << >>, g.at[1].path[1] = FirstStep(g.at),
             g.size = IF FirstStep(g.at) > r THEN FirstStep(g.at) + 1 ELSE r + 1
      PROVE  OutermostOK(g) /\ Reach(g, r)
  <2>1. Asked(g) = g.size
    BY <1>4 DEF Asked
  <2>2. FirstStep(g.at) < g.size
    BY <1>3, <1>4
  <2>. QED
    BY <1>4, <2>1, <2>2 DEF OutermostOK, Reach
<1>5. CASE ds = << >>
  <2>1. g = f
    BY <1>5 DEF Moved
  <2>2. CASE f.at[1].path = << >>
    <3> DEFINE e == f.at[1]
    <3>1. e.node = object /\ e.path = << >> /\ e.index \in Nat
      BY <1>3, <2>1, <2>2 DEF OutermostOK, IsEntry
    <3>2. Step(e) = e.index
      BY <3>1 DEF Step, Unsized
    <3>3. FirstStep(f.at) = e.index
      <4> HIDE DEF e
      <4>1. Path(e) = Append(<< >>, e.index)
        BY <3>1, <3>2 DEF Path
      <4>2. Path(e)[1] = e.index
        BY <4>1, <3>1
      <4>. QED
        BY <4>2 DEF FirstStep, e
    <3>4. Asked(f) = Noted(f, e.index)
      BY <3>1 DEF Asked
    <3>5. Asked(f) = IF e.index + 1 > f.size THEN e.index + 1 ELSE f.size
      BY <1>1, <3>1, <3>4, NotedFacts
    <3>6. Reach(f, r)
      <4> HIDE DEF e
      <4>. QED
        BY <1>1, <3>1, <3>3, <3>5 DEF Reach
    <3>. QED
      BY <2>1, <3>6
  <2>3. CASE f.at[1].path # << >>
    <3>1. f.at[1].path[1] = FirstStep(f.at) /\ f.at[1].path[1] < f.size /\ OneWay(f.at)
      BY <1>3, <2>1, <2>3, PathFacts DEF OutermostOK, FirstStep
    <3>2. f.size = IF FirstStep(f.at) > r THEN FirstStep(f.at) + 1 ELSE r + 1
      BY <1>3, <2>1, <3>1
    <3>. QED
      BY <1>1, <1>4, <2>1, <2>3, <3>1, <3>2
  <2>. QED
    BY <2>2, <2>3
<1>6. CASE ds # << >>
  <2> DEFINE at == access(f.node, ds)
             m  == \E i \in DOMAIN ds : IsIndex(ds[i])
             sz == IF IsIndex(ds[1]) THEN Noted(f, ds[1].index) ELSE f.size
  <2>1. g = [f EXCEPT !.at = at, !.misled = m, !.size = sz]
    BY <1>6, Zenon DEF Moved
  <2>2. DOMAIN f = Fields
    BY DEF IsFrame, Fields
  <2> HIDE DEF at, m, sz
  <2>3. g.at = at /\ g.size = sz
    <3> HIDE DEF g
    <3>. QED
      BY <2>1, <2>2 DEF Fields
  <2>4. at # NoAccess /\ at # << >>
    BY <2>3, NothingThere
  <2>5. /\ IsIndex(ds[1]) /\ at[1].path # << >> /\ at[1].path[1] = ds[1].index
        /\ OneWay(at)
    BY <1>1, <1>6, <2>4, AccessFacts DEF at
  <2>6. FirstStep(at) = ds[1].index /\ ds[1].index \in Nat
    BY <1>3, <2>3, <2>5, PathFacts DEF FirstStep
  <2>7. sz = IF ds[1].index + 1 > f.size THEN ds[1].index + 1 ELSE f.size
    BY <1>1, <2>5, <2>6, NotedFacts DEF sz
  <2>8. sz \in Nat /\ sz = IF FirstStep(at) > r THEN FirstStep(at) + 1 ELSE r + 1
    BY <1>1, <2>6, <2>7
  <2> HIDE DEF g
  <2>9. g.size \in Nat /\ g.size = IF FirstStep(g.at) > r THEN FirstStep(g.at) + 1 ELSE r + 1
    BY <2>3, <2>8
  <2>10. OneWay(g.at) /\ g.at[1].path # << >> /\ g.at[1].path[1] = FirstStep(g.at)
    BY <2>3, <2>5, <2>6
  <2>11. OutermostOK(g) /\ Reach(g, r)
    BY <1>4, <2>9, <2>10
  <2>. QED
    BY <2>11 DEF g
<1>. QED
  BY <1>5, <1>6

\* A list gone down to what fits the value.
Descended(g, f, v) == g = [f EXCEPT !.at = Fitting(f.at, v)]

\* A descent from where the list stands changes none of that.
LEMMA DescentKeeps ==
  ASSUME NEW f, DOMAIN f = Fields, IsAccesser(f.at), NEW v, NEW g, Descended(g, f, v)
  PROVE  /\ Turned(g, f) /\ IsAccesser(g.at) /\ FirstStep(g.at) = FirstStep(f.at)
         /\ OutermostOK(f) => OutermostOK(g)
         /\ \A r : Reach(f, r) => Reach(g, r)
<1> DEFINE at == Fitting(f.at, v)
<1>1. IsAccesser(at) /\ at[1] = f.at[1] /\ (OneWay(f.at) => OneWay(at))
  BY FittingFacts
<1> HIDE DEF at
<1>2. g = [f EXCEPT !.at = at]
  BY DEF at, Descended
<1>3. Turned(g, f) /\ g.at = at /\ g.size = f.size
  BY <1>2 DEF Turned, Fields
<1>4. FirstStep(g.at) = FirstStep(f.at)
  BY <1>1, <1>3 DEF FirstStep
<1>5. OutermostOK(f) => OutermostOK(g)
  BY <1>1, <1>3 DEF OutermostOK
<1>6. Asked(g) = Asked(f)
  BY <1>1, <1>3 DEF Asked, Noted, Turned
<1>7. \A r : Reach(f, r) => Reach(g, r)
  BY <1>3, <1>4, <1>6 DEF Reach
<1>. QED
  BY <1>1, <1>3, <1>4, <1>5, <1>7

\* Behind a value the accesser is still one of the list, and the size is what
\* has been asked for.
LEMMA PassedFacts ==
  ASSUME NEW f, DOMAIN f = Fields, IsAccesser(f.at)
  PROVE  LET g == Passed(f)
         IN  /\ Turned(g, f) /\ IsAccesser(g.at) /\ g.size = Asked(f)
             /\ OutermostOK(f) /\ Asked(f) \in Nat /\ Asked(f) >= f.size => OutermostOK(g)
<1> DEFINE at == next(f.at)
           g  == Passed(f)
           l  == Path(Last(f.at))
<1>1. /\ IsAccesser(at) /\ (OneWay(f.at) => OneWay(at))
      /\ at[1].path = f.at[1].path /\ at[1].node = f.at[1].node
  BY NextFacts
<1>2. g = [f EXCEPT !.size = Asked(f), !.last = l, !.at = at, !.count = f.count + 1]
  BY DEF Passed
<1> HIDE DEF at, g, l
<1>3. Turned(g, f) /\ g.at = at /\ g.size = Asked(f)
  BY <1>2 DEF Turned, Fields
<1>4. ASSUME OutermostOK(f), Asked(f) \in Nat, Asked(f) >= f.size PROVE OutermostOK(g)
  <2>1. CASE f.at[1].path = << >>
    BY <1>1, <1>3, <1>4, <2>1 DEF OutermostOK
  <2>2. CASE f.at[1].path # << >>
    <3> DEFINE p == f.at[1].path[1]
    <3>1. p < f.size /\ f.size \in Nat /\ p \in Nat
      <4>1. IsEntry(f.at[1])
        BY WayFacts
      <4>2. f.at[1].path \in Seq(Nat)
        BY <4>1 DEF IsEntry
      <4>3. p \in Nat
        BY <2>2, <4>2
      <4>. QED
        BY <1>4, <2>2, <4>3 DEF OutermostOK
    <3>2. p < Asked(f)
      <4> HIDE DEF p
      <4>. QED
        BY <1>4, <3>1
    <3>. QED
      BY <1>1, <1>3, <1>4, <2>2, <3>2 DEF OutermostOK
  <2>. QED
    BY <2>1, <2>2
<1>. QED
  BY <1>1, <1>3, <1>4 DEF g

------------------------------------------------------------------------------
(* Steps of the lists *)

\* The list that is read is the last one.
LEMMA TopFacts ==
  ASSUME FramesOK, frames # << >>
  PROVE  /\ Len(frames) \in Nat \ {0} /\ IsSeq(frames)
         /\ Top = frames[Len(frames)] /\ IsFrame(Top) /\ DOMAIN Top = Fields
         /\ IsFrame(frames[1]) /\ frames[1].node = object /\ frames[1].start = << >>
         /\ Len(frames) = 1 => Top = frames[1]
<1>1. IsSeq(frames) /\ \A i \in 1..Len(frames) : IsFrame(frames[i])
  BY DEF FramesOK
<1>2. Len(frames) \in Nat /\ Len(frames) > 0
  BY <1>1, SeqFacts
<1>3. 1 \in 1..Len(frames) /\ Len(frames) \in 1..Len(frames)
  BY <1>2
<1>4. Top = frames[Len(frames)]
  BY DEF Top, Last
<1>. QED
  BY <1>1, <1>2, <1>3, <1>4 DEF FramesOK, IsFrame, Fields

\* It is replaced by one for the same object.
LEMMA TopReplaced ==
  ASSUME FramesOK, frames # << >>, NEW g, IsFrame(g), g.node = Top.node, g.start = Top.start,
         frames' = Append(Below, g), object' = object
  PROVE  /\ FramesOK' /\ frames' # << >> /\ Len(frames') = Len(frames) /\ Top' = g
         /\ frames'[1] = IF Len(frames) = 1 THEN g ELSE frames[1]
         /\ \A i \in 2..Len(frames) : frames'[i].start = frames[i].start
<1> DEFINE n == Len(frames)
           s == frames'
<1>1. /\ n \in Nat \ {0} /\ IsSeq(frames) /\ Top = frames[n] /\ frames[1].node = object
      /\ frames[1].start = << >>
  BY TopFacts
<1>2. \A i \in 1..n : IsFrame(frames[i])
  BY DEF FramesOK
<1>3. \A i \in 1..(n - 1) : IsTree(frames[i].node) /\ ~frames[i].broken
  BY DEF FramesOK
<1>4. /\ IsSeq(s) /\ Len(s) = n /\ s[n] = g /\ s # << >>
      /\ \A i \in 1..(n - 1) : s[i] = frames[i]
  <2>1. Exchanges(s, frames, g)
    BY DEF Exchanges, Below
  <2> HIDE DEF s
  <2>2. /\ IsSeq(s) /\ Len(s) = Len(frames) /\ s[Len(frames)] = g /\ s # << >>
        /\ \A i \in 1..(Len(frames) - 1) : s[i] = frames[i]
    BY <1>1, <2>1, SeqReplace
  <2>. QED
    BY <2>2
<1> HIDE DEF n, s
<1>5. \A i \in 1..n : i = n \/ i \in 1..(n - 1)
  BY <1>1
<1>6. \A i \in 1..n : /\ IsFrame(s[i]) /\ s[i].node = frames[i].node
                      /\ s[i].start = frames[i].start
  BY <1>1, <1>2, <1>4, <1>5
<1>7. 1 \in 1..n /\ \A i \in 2..n : i \in 1..n
  BY <1>1
<1>8. s[1] = IF n = 1 THEN g ELSE frames[1]
  <2>1. n # 1 => 1 \in 1..(n - 1)
    BY <1>1
  <2>. QED
    BY <1>4, <2>1
<1>9. FramesOK'
  <2>1. /\ IsSeq(s) /\ \A i \in 1..Len(s) : IsFrame(s[i])
        /\ \A i \in 1..(Len(s) - 1) : IsTree(s[i].node) /\ ~s[i].broken
        /\ Len(s) > 0 => s[1].node = object' /\ s[1].start = << >>
    BY <1>1, <1>3, <1>4, <1>6, <1>7
  <2>. QED
    BY <2>1 DEF FramesOK, s, IsSeq, IsFrame, IsAccesser, Entries, IsEntry
<1>10. Top' = g
  BY <1>4 DEF Top, Last, s
<1>. QED
  BY <1>4, <1>6, <1>7, <1>8, <1>9, <1>10 DEF n, s

\* What a value is put in begins where the accesser does, or, in a list within,
\* where the outermost one does.
LEMMA PutsFacts ==
  ASSUME IInv, frames # << >>, NEW f, f.start = Top.start, IsAccesser(f.at), Puts(f)
  PROVE  /\ reached' \in Int
         /\ Len(frames) = 1 /\ OneWay(f.at) =>
                reached' = IF FirstStep(f.at) > reached THEN FirstStep(f.at) ELSE reached
         /\ Len(frames) # 1 /\ Sizing => reached' = reached
<1> DEFINE p == Path(Last(f.at))
<1>1. p \in Seq(Nat) /\ p # << >> /\ (OneWay(f.at) => p[1] = FirstStep(f.at))
  BY WayFacts, PathFacts
<1>2. /\ FramesOK /\ Len(frames) \in Nat \ {0} /\ Top.start \in Seq(Nat) /\ reached \in Int
      /\ Top = frames[Len(frames)] /\ (Len(frames) = 1 => Top.start = << >>)
  BY TopFacts DEF IInv, IsFrame
<1> DEFINE q == f.start
<1>3. placed' = q \o p /\ reached' = IF placed'[1] > reached THEN placed'[1] ELSE reached
  BY DEF Puts
<1> HIDE DEF p, q
<1>4. q \in Seq(Nat)
  BY <1>2 DEF q
<1>5. /\ (q \o p)[1] \in Nat /\ (q = << >> => (q \o p)[1] = p[1])
      /\ (q # << >> => (q \o p)[1] = q[1])
  <2>1. Len(q) \in Nat /\ Len(p) \in Nat \ {0} /\ \A i \in 1..Len(q) : q[i] \in Nat
    BY <1>1, <1>4
  <2>2. p[1] \in Nat
    BY <1>1
  <2>3. (q \o p)[1] = IF 1 <= Len(q) THEN q[1] ELSE p[1 - Len(q)]
    BY <1>1, <1>4, <2>1
  <2>4. q = << >> <=> Len(q) = 0
    BY <1>4
  <2>5. CASE Len(q) = 0
    BY <2>2, <2>3, <2>4, <2>5
  <2>6. CASE Len(q) # 0
    <3>1. 1 <= Len(q) /\ 1 \in 1..Len(q)
      BY <2>1, <2>6
    <3>. QED
      BY <2>1, <2>3, <2>4, <2>6, <3>1
  <2>. QED
    BY <2>5, <2>6
<1> DEFINE k == placed'[1]
<1>9. k = (q \o p)[1] /\ k \in Nat /\ reached \in Int
  BY <1>2, <1>3, <1>5
<1>10. reached' = IF k > reached THEN k ELSE reached
  BY <1>3
<1> HIDE DEF k
<1>6. reached' \in Int
  <2>1. \A a \in Nat, b \in Int : (IF a > b THEN a ELSE b) \in Int
    OBVIOUS
  <2>. QED
    BY <1>9, <1>10, <2>1
<1>7. ASSUME Len(frames) = 1, OneWay(f.at)
      PROVE  reached' = IF FirstStep(f.at) > reached THEN FirstStep(f.at) ELSE reached
  <2>1. q = << >>
    BY <1>2, <1>7 DEF q
  <2>2. k = FirstStep(f.at)
    BY <1>1, <1>5, <1>7, <1>9, <2>1
  <2>. QED
    BY <1>10, <2>2
<1>8. ASSUME Len(frames) # 1, Sizing PROVE reached' = reached
  <2>1. Len(frames) \in 2..Len(frames)
    <3>1. \A n \in Nat \ {0} : n # 1 => n \in 2..n
      OBVIOUS
    <3>. QED
      BY <1>2, <1>8, <3>1
  <2>2. /\ q # << >> /\ q[1] = FirstStep(frames[1].at) /\ FirstStep(frames[1].at) <= reached
    <3>1. InnerOK
      BY <1>8 DEF IInv
    <3>2. q = frames[Len(frames)].start
      BY <1>2 DEF q
    <3>. QED
      BY <2>1, <3>1, <3>2 DEF InnerOK
  <2>3. k <= reached
    BY <1>5, <1>9, <2>2
  <2>4. \A a \in Nat, b \in Int : a <= b => ~(a > b)
    OBVIOUS
  <2>. QED
    BY <1>9, <1>10, <2>3, <2>4
<1>. QED
  BY <1>6, <1>7, <1>8

\* A step of the list that is read leaves the invariant, when the outermost
\* list notes what is put in it and a list within puts it where that one stands.
LEMMA StepOfTop ==
  ASSUME IInv, frames # << >>, NEW g, IsFrame(g), g.node = Top.node, g.start = Top.start,
         frames' = Append(Below, g), UNCHANGED << object, static, size, done >>,
         reached' \in Int, errors' \in BOOLEAN, failed' \in BOOLEAN,
         g.broken => errors', errors => errors',
         Sizing /\ ~errors' /\ Len(frames) = 1 => OutermostOK(g) /\ g.size = reached' + 1,
         Sizing /\ ~errors' /\ Len(frames) # 1 => reached' = reached
  PROVE  IInv'
<1>1. FramesOK /\ ~done /\ errors \in BOOLEAN
  BY DEF IInv
<1>2. /\ FramesOK' /\ frames' # << >> /\ Len(frames') = Len(frames) /\ Top' = g
      /\ frames'[1] = IF Len(frames) = 1 THEN g ELSE frames[1]
      /\ \A i \in 2..Len(frames) : frames'[i].start = frames[i].start
  BY <1>1, TopReplaced
<1>3. ~done'
  BY <1>1
<1>4. ASSUME Sizing' PROVE OutermostOK(frames[1])' /\ InnerOK' /\ Tally'
  <2>1. Sizing /\ ~errors'
    BY <1>1, <1>4 DEF Sizing, Unsized
  <2>2. OutermostOK(frames[1]) /\ InnerOK /\ Tally
    BY <2>1 DEF IInv
  <2>3. CASE Len(frames) = 1
    <3>1. frames'[1] = g /\ Len(frames') = 1
      BY <1>2, <2>3
    <3>2. OutermostOK(g) /\ g.size = reached' + 1
      BY <2>1, <2>3
    <3>3. OutermostOK(frames[1])'
      BY <3>1, <3>2 DEF OutermostOK, OneWay, FirstStep, Path, Step
    <3>4. InnerOK'
      BY <3>1 DEF InnerOK
    <3>5. Tally'
      BY <3>1, <3>2 DEF Tally
    <3>. QED
      BY <3>3, <3>4, <3>5
  <2>4. CASE Len(frames) # 1
    <3>1. frames'[1] = frames[1] /\ Len(frames') # 1 /\ reached' = reached
      BY <1>2, <2>1, <2>4
    <3>2. OutermostOK(frames[1])'
      BY <2>2, <3>1 DEF OutermostOK, OneWay, FirstStep, Path, Step
    <3>3. InnerOK'
      BY <1>2, <2>2, <3>1, SMTT(30) DEF InnerOK, FirstStep, Path, Step
    <3>4. Tally'
      BY <2>2, <2>4, <3>1 DEF Tally, Asked, Noted
    <3>. QED
      BY <3>2, <3>3, <3>4
  <2>. QED
    BY <2>3, <2>4
<1>5. (frames # << >> /\ Top.broken => errors)'
  BY <1>2
<1>6. SizeIsExact'
  BY <1>3 DEF SizeIsExact
<1>. QED
  BY <1>2, <1>3, <1>4, <1>5, <1>6 DEF IInv

------------------------------------------------------------------------------
(* The actions *)

\* A list that is broken off is the same otherwise.
LEMMA BreakFacts ==
  ASSUME NEW f, DOMAIN f = Fields
  PROVE  Turned([Break(f) EXCEPT !.broken = f.broken], f) /\ DOMAIN Break(f) = Fields
         /\ Break(f).node = f.node /\ Break(f).start = f.start /\ Break(f).at = f.at
BY DEF Break, Turned, Fields

\* Turned is an equivalence, and leaves a list one.
LEMMA TurnedFacts ==
  ASSUME NEW f, NEW g, NEW h
  PROVE  /\ Turned(g, f) /\ Turned(h, g) => Turned(h, f)
         /\ Turned(g, f) /\ IsFrame(f) /\ IsAccesser(g.at) => IsFrame(g)
BY DEF Turned, IsFrame, Fields

\* No way to the next value: the list is broken off, and that is an error.
LEMMA MisplacedStep ==
  ASSUME IInv, NEW ds \in Designations, Misplaced(ds)
  PROVE  IInv'
<1> DEFINE f == Moved(Top, ds)
           g == Break(f)
<1>1. FramesOK /\ frames # << >> /\ IsTree(Top.node)
  BY DEF IInv, Misplaced, InTree
<1>2. IsFrame(Top)
  BY <1>1, TopFacts
<1>3. Turned(f, Top) /\ Entries(f.at)
  BY <1>1, <1>2, MovedTurns
<1>4. f.at # << >> /\ frames' = Append(Below, g) /\ errors' = TRUE
  BY DEF Misplaced
<1>5. UNCHANGED << object, static, size, failed, reached, done >>
  BY DEF Misplaced
<1> HIDE DEF f
<1>6. /\ DOMAIN g = Fields /\ g.node = f.node /\ g.start = f.start /\ g.at = f.at
  BY <1>3, BreakFacts DEF Turned
<1> HIDE DEF g
<1>7. IsFrame(g) /\ g.node = Top.node /\ g.start = Top.start
  BY <1>2, <1>3, <1>4, <1>6 DEF IsFrame, Turned, Fields, IsAccesser
<1>8. reached' \in Int /\ failed' \in BOOLEAN /\ errors' \in BOOLEAN
  BY <1>4, <1>5 DEF IInv
<1>. QED
  BY <1>1, <1>4, <1>5, <1>7, <1>8, StepOfTop

\* An entry is read that is not there.
LEMMA NoEntryStep ==
  ASSUME IInv, NEW ds \in Designations, NoEntry(ds)
  PROVE  IInv'
<1>1. UNCHANGED << object, static, size, frames, errors, placed, reached, done >> /\ failed' = TRUE
  BY DEF NoEntry
<1>. QED
  BY <1>1, ZenonT(60) DEF IInv, FramesOK, Sizing, Unsized, InnerOK, Tally, SizeIsExact, Top, OutermostOK,
              OneWay, FirstStep, Path, Step, Asked, Noted, Last, IsFrame, IsAccesser, Entries,
              IsEntry, IsSeq

\* In the outermost list a value for where the designators lead is noted.
LEMMA OutermostReaches ==
  ASSUME IInv, Sizing, Len(frames) = 1, NEW ds \in Designations,
         Moved(Top, ds).at # << >>, type(Moved(Top, ds).at) # NoType
  PROVE  OutermostOK(Moved(Top, ds)) /\ Reach(Moved(Top, ds), reached)
<1>1. FramesOK /\ frames # << >> /\ Unsized /\ reached \in Int
  BY DEF IInv, Sizing
<1>2. Top = frames[1] /\ IsFrame(Top) /\ Top.node = object
  BY <1>1, TopFacts
<1>3. OutermostOK(Top) /\ Top.size = reached + 1
  BY <1>2 DEF IInv, Tally
<1>. QED
  BY <1>1, <1>2, <1>3, MovedReaches

\* Casts and refusals are truth values.
LEMMA ValueFacts ==
  ASSUME NEW t, NEW cast
  PROVE  RefusesValue(t, cast) \in BOOLEAN /\ FailsValue(t, cast) \in BOOLEAN
BY DEF RefusesValue, FailsValue

\* A value in a list.
LEMMA ItemStep ==
  ASSUME IInv, NEW ds \in Designations, NEW v \in Values, Item(ds, v)
  PROVE  IInv'
<1> DEFINE f == Moved(Top, ds)
           h == [f EXCEPT !.at = Fitting(f.at, v)]
           t == type(Fitting(f.at, v))
           c == CastTo(v, t)
<1>1. FramesOK /\ frames # << >> /\ IsTree(Top.node) /\ errors \in BOOLEAN /\ reached \in Int
      /\ failed \in BOOLEAN
  BY DEF IInv, Item, InTree
<1>2. IsFrame(Top) /\ Len(frames) \in Nat \ {0}
  BY <1>1, TopFacts
<1>3. Turned(f, Top) /\ Entries(f.at)
  BY <1>1, <1>2, MovedTurns
<1>4. f.at # << >> /\ type(f.at) # NoType /\ Settle(h, t, c)
  BY DEF Item, Assign
<1>5. UNCHANGED << object, static, size, done >>
  BY DEF Item
<1>6. Sizing /\ Len(frames) = 1 => OutermostOK(f) /\ Reach(f, reached)
  BY <1>4, OutermostReaches
<1> HIDE DEF f, t, c
<1>7. IsAccesser(f.at) /\ DOMAIN f = Fields
  BY <1>3, <1>4 DEF IsAccesser, Turned
<1>13. Descended(h, f, v)
  BY DEF Descended
<1> HIDE DEF h
<1>8. /\ Turned(h, f) /\ IsAccesser(h.at) /\ FirstStep(h.at) = FirstStep(f.at)
      /\ OutermostOK(f) => OutermostOK(h)
      /\ \A r : Reach(f, r) => Reach(h, r)
  BY <1>7, <1>13, DescentKeeps
<1>9. DOMAIN h = Fields /\ Turned(h, Top)
  BY <1>3, <1>8, TurnedFacts DEF Turned
<1>10. Sizing /\ Len(frames) = 1 => OutermostOK(h) /\ Reach(h, reached)
  BY <1>6, <1>8
<1>11. CASE c = NoType
  <2> DEFINE k == [h EXCEPT !.size = Asked(h)]
             g == Break(k)
  <2>1. frames' = Append(Below, g) /\ errors' = TRUE /\ UNCHANGED << failed, placed, reached >>
    BY <1>4, <1>11 DEF Settle
  <2>2. Turned(k, h) /\ k.at = h.at
    BY <1>9 DEF Turned, Fields
  <2> HIDE DEF k
  <2>3. DOMAIN g = Fields /\ g.node = k.node /\ g.start = k.start /\ g.at = k.at
    BY <2>2, BreakFacts DEF Turned
  <2> HIDE DEF g
  <2>4. IsFrame(g) /\ g.node = Top.node /\ g.start = Top.start
    BY <1>2, <1>8, <1>9, <2>2, <2>3 DEF IsFrame, Turned, Fields
  <2>5. reached' \in Int /\ errors' \in BOOLEAN /\ failed' \in BOOLEAN
    BY <1>1, <2>1
  <2>. QED
    BY <1>1, <1>5, <2>1, <2>4, <2>5, StepOfTop
<1>12. CASE c # NoType
  <2> DEFINE g == Passed(h)
  <2>1. /\ frames' = Append(Below, g) /\ errors' = (errors \/ RefusesValue(t, c))
        /\ failed' = FailsValue(t, c) /\ Puts(h)
    BY <1>4, <1>12 DEF Settle
  <2>2. /\ Turned(g, h) /\ IsAccesser(g.at) /\ g.size = Asked(h)
        /\ OutermostOK(h) /\ Asked(h) \in Nat /\ Asked(h) >= h.size => OutermostOK(g)
    BY <1>8, <1>9, PassedFacts
  <2> HIDE DEF g
  <2>3. IsFrame(g) /\ g.node = Top.node /\ g.start = Top.start /\ g.broken = Top.broken
        /\ h.start = Top.start
    BY <1>2, <1>9, <2>2, TurnedFacts DEF Turned
  <2>4. /\ reached' \in Int
        /\ Len(frames) = 1 /\ OneWay(h.at) =>
               reached' = IF FirstStep(h.at) > reached THEN FirstStep(h.at) ELSE reached
        /\ Len(frames) # 1 /\ Sizing => reached' = reached
    BY <1>1, <1>8, <2>1, <2>3, PutsFacts
  <2>5. errors' \in BOOLEAN /\ failed' \in BOOLEAN /\ (errors => errors')
    BY <2>1, <1>1, ValueFacts, Zenon
  <2>6. ~g.broken
    BY <2>3 DEF Item, InTree
  <2>7. ASSUME Sizing, Len(frames) = 1 PROVE OutermostOK(g) /\ g.size = reached' + 1
    <3>1. OutermostOK(h) /\ Reach(h, reached)
      BY <1>10, <2>7
    <3> DEFINE x == FirstStep(h.at)
    <3>2. x \in Nat
      BY <1>8, WayFacts
    <3>3. h.size \in Nat /\ Asked(h) = IF x > reached THEN x + 1 ELSE reached + 1
      BY <3>1 DEF Reach
    <3>4. reached' = IF x > reached THEN x ELSE reached
      BY <2>4, <2>7, <3>1 DEF OutermostOK
    <3> HIDE DEF x
    <3>5. Asked(h) = reached' + 1
      BY <3>3, <3>4
    <3>6. Asked(h) \in Nat
      BY <1>1, <3>2, <3>3
    <3>7. Asked(h) >= h.size
      BY <3>1, <3>3, <3>6 DEF Reach
    <3>. QED
      BY <2>2, <3>1, <3>5, <3>6, <3>7
  <2>. QED
    BY <1>1, <1>5, <2>1, <2>3, <2>4, <2>5, <2>6, <2>7, StepOfTop
<1>. QED
  BY <1>11, <1>12

\* A new list is one.
LEMMA ListFacts ==
  ASSUME NEW t, NEW start \in Seq(Nat)
  PROVE  LET l == List(t, start)
         IN  /\ IsFrame(l) /\ l.node = t /\ l.start = start /\ ~l.broken /\ l.size = 0
             /\ IsTree(t) => l.at = first(t)
<1> DEFINE e == Entry(t, << >>, 0, 0)
           l == List(t, start)
<1>1. /\ DOMAIN l = Fields /\ l.node = t /\ l.start = start /\ ~l.broken /\ l.size = 0
      /\ IsTree(t) => l.at = first(t)
  BY DEF List, Fields
<1>2. first(t) = << e >>
  BY DEF first
<1>3. << >> \in Seq(Nat)
  OBVIOUS
<1>4. IsEntry(e)
  BY <1>3 DEF IsEntry, Entry
<1> HIDE DEF e, l
<1>5. /\ first(t) \in Seq({e}) /\ Len(first(t)) = 1 /\ first(t)[1] = e
      /\ first(t) # << >>
  BY <1>2
<1>8. IsSeq(first(t)) /\ \A i \in 1..Len(first(t)) : first(t)[i] = e
  BY <1>5 DEF IsSeq
<1>6. IsAccesser(first(t))
  BY <1>4, <1>5, <1>8 DEF IsAccesser, Entries
<1>7. IsFrame(l)
  BY <1>1, <1>6 DEF IsFrame, Fields
<1>. QED
  BY <1>1, <1>7 DEF l

\* A list within goes on top of the one it is in.
LEMMA TopOpened ==
  ASSUME FramesOK, frames # << >>, NEW f, IsFrame(f), f.node = Top.node, f.start = Top.start,
         IsTree(f.node), ~f.broken, NEW l, IsFrame(l),
         frames' = Append(Below, f) \o << l >>, object' = object
  PROVE  LET n == Len(frames)
         IN  /\ FramesOK' /\ frames' # << >> /\ Len(frames') = n + 1 /\ Top' = l
             /\ frames'[1] = (IF n = 1 THEN f ELSE frames[1]) /\ frames'[n + 1] = l
             /\ \A i \in 2..n : frames'[i].start = frames[i].start
<1> DEFINE n == Len(frames)
           s == frames'
           t == Append(Below, f)
<1>1. /\ n \in Nat \ {0} /\ IsSeq(frames) /\ Top = frames[n] /\ frames[1].node = object
      /\ frames[1].start = << >>
  BY TopFacts
<1>2. \A i \in 1..n : IsFrame(frames[i])
  BY DEF FramesOK
<1>3. \A i \in 1..(n - 1) : IsTree(frames[i].node) /\ ~frames[i].broken
  BY DEF FramesOK
<1>4. /\ IsSeq(t) /\ Len(t) = n /\ t[n] = f /\ \A i \in 1..(n - 1) : t[i] = frames[i]
  <2>1. Exchanges(t, frames, f)
    BY DEF Exchanges, Below
  <2> HIDE DEF s, t
  <2>2. /\ IsSeq(t) /\ Len(t) = Len(frames) /\ t[Len(frames)] = f
        /\ \A i \in 1..(Len(frames) - 1) : t[i] = frames[i]
    BY <1>1, <2>1, SeqReplace
  <2>. QED
    BY <2>2
<1>5. s = t \o << l >>
  OBVIOUS
<1> HIDE DEF n, s, t
<1>6. /\ IsSeq(s) /\ Len(s) = n + 1 /\ s[n + 1] = l /\ s # << >>
      /\ \A i \in 1..n : s[i] = t[i]
  <2>1. PICK S : t \in Seq(S)
    BY <1>4 DEF IsSeq
  <2>2. s = Append(t, l)
    BY <1>5, <2>1
  <2>. QED
    BY <1>4, <2>2, SeqAppend
<1>7. \A i \in 1..n : i = n \/ i \in 1..(n - 1)
  BY <1>1
<1>8. \A i \in 1..n : /\ IsFrame(s[i]) /\ s[i].node = frames[i].node
                      /\ s[i].start = frames[i].start /\ IsTree(s[i].node) /\ ~s[i].broken
  BY <1>1, <1>2, <1>3, <1>4, <1>6, <1>7
<1>9. /\ 1 \in 1..n /\ (\A i \in 2..n : i \in 1..n) /\ (n + 1) - 1 = n
      /\ \A i \in 1..(n + 1) : i = n + 1 \/ i \in 1..n
  BY <1>1
<1>10. s[1] = IF n = 1 THEN f ELSE frames[1]
  <2>1. n # 1 => 1 \in 1..(n - 1)
    BY <1>1
  <2>. QED
    BY <1>4, <1>6, <1>9, <2>1
<1>11. FramesOK'
  <2>1. IsFrame(s[n + 1])
    BY <1>6
  <2>2. /\ IsSeq(s) /\ \A i \in 1..Len(s) : IsFrame(s[i])
        /\ \A i \in 1..(Len(s) - 1) : IsTree(s[i].node) /\ ~s[i].broken
        /\ Len(s) > 0 => s[1].node = object' /\ s[1].start = << >>
    BY <1>1, <1>6, <1>8, <1>9, <2>1
  <2>. QED
    BY <2>2 DEF FramesOK, s, IsSeq, IsFrame, IsAccesser, Entries, IsEntry
<1>12. Top' = l
  BY <1>6 DEF Top, Last, s
<1>. QED
  BY <1>6, <1>8, <1>9, <1>10, <1>11, <1>12 DEF n, s

\* A list in a list.
LEMMA OpenListStep ==
  ASSUME IInv, NEW ds \in Designations, OpenList(ds)
  PROVE  IInv'
<1> DEFINE f == Moved(Top, ds)
           p == f.start \o Path(Last(f.at))
           l == List(type(f.at), p)
           n == Len(frames)
<1>1. FramesOK /\ frames # << >> /\ IsTree(Top.node) /\ errors \in BOOLEAN /\ reached \in Int
      /\ failed \in BOOLEAN /\ ~Top.broken /\ ~done
  BY DEF IInv, OpenList, InTree
<1>2. IsFrame(Top) /\ n \in Nat \ {0} /\ Top = frames[n] /\ (n = 1 => Top.start = << >>)
  BY <1>1, TopFacts
<1>3. Turned(f, Top) /\ Entries(f.at)
  BY <1>1, <1>2, MovedTurns
<1>4. /\ f.at # << >> /\ type(f.at) # NoType /\ Puts(f)
      /\ frames' = Append(Below, f) \o << l >>
  BY DEF OpenList, OpenFor
<1>5. UNCHANGED << object, static, size, errors, failed, done >>
  BY DEF OpenList
<1>6. Sizing /\ n = 1 => OutermostOK(f) /\ Reach(f, reached)
  BY <1>4, OutermostReaches
<1> HIDE DEF f
<1>7. IsAccesser(f.at) /\ IsFrame(f) /\ f.start = Top.start /\ f.node = Top.node /\ ~f.broken
  BY <1>1, <1>2, <1>3, <1>4, TurnedFacts DEF IsAccesser, Turned
<1>8. /\ p \in Seq(Nat) /\ p # << >>
      /\ f.start # << >> => p[1] = f.start[1]
      /\ f.start = << >> /\ OneWay(f.at) => p[1] = FirstStep(f.at)
  <2> DEFINE q == f.start
             r == Path(Last(f.at))
  <2>1. q \in Seq(Nat) /\ r \in Seq(Nat) /\ r # << >> /\ (OneWay(f.at) => r[1] = FirstStep(f.at))
    BY <1>7, WayFacts, PathFacts DEF IsFrame
  <2> HIDE DEF q, r
  <2>2. q \o r \in Seq(Nat) /\ q \o r # << >>
    BY <2>1
  <2>3. q = << >> => q \o r = r
    BY <2>1
  <2>4. q # << >> => (q \o r)[1] = q[1]
    BY <2>1
  <2>. QED
    BY <2>1, <2>2, <2>3, <2>4 DEF q, r
<1> HIDE DEF p
<1>9. IsFrame(l) /\ l.start = p /\ ~l.broken
  <2>1. p \in Seq(Nat)
    BY <1>8
  <2>. QED
    BY <2>1, ListFacts
<1> HIDE DEF l
<1>10. /\ FramesOK' /\ frames' # << >> /\ Len(frames') = n + 1 /\ Top' = l
       /\ frames'[1] = (IF n = 1 THEN f ELSE frames[1]) /\ frames'[n + 1] = l
       /\ \A i \in 2..n : frames'[i].start = frames[i].start
  BY <1>1, <1>4, <1>5, <1>7, <1>9, TopOpened
<1>11. /\ reached' \in Int
       /\ n = 1 /\ OneWay(f.at) =>
              reached' = IF FirstStep(f.at) > reached THEN FirstStep(f.at) ELSE reached
       /\ n # 1 /\ Sizing => reached' = reached
  BY <1>1, <1>4, <1>7, PutsFacts
<1>12. ASSUME Sizing' PROVE OutermostOK(frames[1])' /\ InnerOK' /\ Tally'
  <2>1. Sizing
    BY <1>1, <1>5, <1>12 DEF Sizing, Unsized
  <2>2. OutermostOK(frames[1]) /\ InnerOK /\ Tally
    BY <2>1 DEF IInv
  <2>3. n + 1 # 1 /\ \A i \in 2..(n + 1) : i = n + 1 \/ (i \in 2..n /\ n # 1)
    BY <1>2
  <2>4. CASE n = 1
    <3>1. frames'[1] = f
      BY <1>10, <2>4
    <3> DEFINE x == FirstStep(f.at)
    <3>2. OutermostOK(f) /\ Reach(f, reached) /\ x \in Nat
      BY <1>6, <1>7, <2>1, <2>4, WayFacts
    <3>3. Asked(f) = IF x > reached THEN x + 1 ELSE reached + 1
      BY <3>2 DEF Reach
    <3>4. reached' = IF x > reached THEN x ELSE reached
      BY <1>11, <2>4, <3>2 DEF OutermostOK
    <3>5. p[1] = x
      BY <1>2, <1>7, <1>8, <2>4, <3>2 DEF OutermostOK
    <3> HIDE DEF x
    <3>6. Asked(f) = reached' + 1 /\ x <= reached'
      BY <1>1, <3>2, <3>3, <3>4
    <3>7. OutermostOK(frames[1])'
      BY <1>5, <3>1, <3>2 DEF OutermostOK, OneWay, FirstStep, Path, Step
    <3>8. InnerOK'
      <4>1. \A i \in 2..(n + 1) : frames'[i] = l
        BY <1>10, <2>3, <2>4
      <4>2. FirstStep(frames[1].at)' = x
        BY <3>1 DEF x, FirstStep, Path, Step
      <4>3. \A i \in 2..(n + 1) : /\ frames'[i].start # << >> /\ frames'[i].start[1] = x
                                  /\ x <= reached'
        BY <1>8, <1>9, <3>5, <3>6, <4>1
      <4>. QED
        BY <1>10, <4>2, <4>3 DEF InnerOK
    <3>9. Tally'
      BY <1>10, <2>3, <3>1, <3>6 DEF Tally, Asked, Noted
    <3>. QED
      BY <3>7, <3>8, <3>9
  <2>5. CASE n # 1
    <3>1. frames'[1] = frames[1] /\ reached' = reached
      BY <1>10, <1>11, <2>1, <2>5
    <3> DEFINE x == FirstStep(frames[1].at)
    <3>2. OutermostOK(frames[1])'
      BY <1>5, <2>2, <3>1 DEF OutermostOK, OneWay, FirstStep, Path, Step
    <3>3. n \in 2..n
      <4>1. \A m \in Nat \ {0} : m # 1 => m \in 2..m
        OBVIOUS
      <4>. QED
        BY <1>2, <2>5, <4>1
    <3>4. \A i \in 2..n : /\ frames[i].start # << >> /\ frames[i].start[1] = x
                          /\ x <= reached
      BY <2>2 DEF InnerOK
    <3>5. p[1] = x
      BY <1>2, <1>7, <1>8, <3>3, <3>4
    <3>6. x' = x
      BY <3>1 DEF FirstStep, Path, Step
    <3> HIDE DEF x
    <3>7. \A i \in 2..(n + 1) : /\ frames'[i].start # << >> /\ frames'[i].start[1] = x
                                /\ x <= reached'
      BY <1>8, <1>9, <1>10, <2>3, <3>1, <3>3, <3>4, <3>5
    <3>8. InnerOK'
      BY <1>10, <3>6, <3>7 DEF InnerOK, x
    <3>9. Tally'
      BY <1>10, <2>2, <2>3, <2>5, <3>1 DEF Tally, Asked, Noted
    <3>. QED
      BY <3>2, <3>8, <3>9
  <2>. QED
    BY <2>4, <2>5
<1>13. (frames # << >> /\ Top.broken => errors)'
  BY <1>9, <1>10
<1>. QED
  BY <1>1, <1>5, <1>10, <1>11, <1>12, <1>13 DEF IInv, SizeIsExact

\* The list of a scalar.
LEMMA ScalarStep ==
  ASSUME IInv, InScalar, UNCHANGED << object, static, size, placed, reached, done >>,
         NEW g, DOMAIN g = Fields, g.node = Top.node, g.start = Top.start,
         frames' = Append(Below, g), errors' \in BOOLEAN, failed' \in BOOLEAN,
         g.broken => errors', errors => errors'
  PROVE  IInv'
<1>1. FramesOK /\ frames # << >> /\ ~IsTree(Top.node) /\ reached' \in Int
  BY DEF IInv, InScalar
<1>2. IsFrame(Top) /\ (Len(frames) = 1 => Top.node = object)
  BY <1>1, TopFacts
<1>3. IsFrame(g)
  BY <1>1, <1>2 DEF IsFrame, Fields
<1>4. Sizing => Len(frames) # 1
  BY <1>1, <1>2 DEF Sizing, Unsized, IsTree
<1>. QED
  BY <1>1, <1>3, <1>4, StepOfTop

\* A value in the list of a scalar.
LEMMA ScalarItemStep ==
  ASSUME IInv, NEW ds \in Designations, NEW v \in Values, ScalarItem(ds, v)
  PROVE  IInv'
<1> DEFINE c == CastTo(v, Top.node)
           g == [Top EXCEPT !.count = Top.count + 1]
<1>1. FramesOK /\ frames # << >> /\ ~Top.broken /\ errors \in BOOLEAN
  BY DEF IInv, ScalarItem, InScalar
<1>2. DOMAIN Top = Fields
  BY <1>1, TopFacts
<1>3. DOMAIN g = Fields /\ g.node = Top.node /\ g.start = Top.start /\ ~g.broken
  BY <1>1, <1>2 DEF Fields
<1>4. frames' = Append(Below, g)
  BY DEF ScalarItem
<1>5. /\ errors' = (errors \/ Top.count > 0 \/ ds # << >> \/ RefusesValue(Top.node, c))
      /\ failed' = (Top.count = 0 /\ ds = << >> /\ FailsValue(Top.node, c))
  BY DEF ScalarItem
<1>6. errors' \in BOOLEAN /\ failed' \in BOOLEAN /\ (errors => errors')
  <2> HIDE DEF c
  <2>. QED
    BY <1>1, <1>5, ValueFacts, Zenon
<1>7. InScalar /\ UNCHANGED << object, static, size, placed, reached, done >>
  BY DEF ScalarItem
<1> HIDE DEF g
<1>. QED
  BY <1>3, <1>4, <1>6, <1>7, ScalarStep

\* A list in it.
LEMMA ScalarListStep ==
  ASSUME IInv, ScalarList
  PROVE  IInv'
<1> DEFINE f == [Top EXCEPT !.count = Top.count + 1]
           g == Break(f)
<1>1. FramesOK /\ frames # << >> /\ failed \in BOOLEAN
  BY DEF IInv, ScalarList, InScalar
<1>2. DOMAIN Top = Fields
  BY <1>1, TopFacts
<1>3. DOMAIN f = Fields /\ f.node = Top.node /\ f.start = Top.start
  BY <1>2 DEF Fields
<1>4. frames' = Append(Below, g)
  BY DEF ScalarList
<1> HIDE DEF f
<1>5. DOMAIN g = Fields /\ g.node = Top.node /\ g.start = Top.start
  BY <1>3, BreakFacts
<1>6. InScalar /\ UNCHANGED << object, static, size, failed, placed, reached, done >> /\ errors' = TRUE
  BY DEF ScalarList
<1> HIDE DEF g
<1>. QED
  BY <1>1, <1>4, <1>5, <1>6, ScalarStep

\* The outermost list ends: the array has what was asked for.
LEMMA CloseOutermost ==
  ASSUME IInv, Close, Len(frames) = 1
  PROVE  IInv'
<1>1. FramesOK /\ frames # << >> /\ errors \in BOOLEAN /\ reached \in Int /\ failed \in BOOLEAN
  BY DEF IInv, Close
<1>2. Top = frames[1]
  BY <1>1, TopFacts
<1>3. /\ errors' = (errors \/ (~IsTree(Top.node) /\ Top.count # 1))
      /\ frames' = << >> /\ size' = Sized(object, Top) /\ done' = TRUE
      /\ UNCHANGED << object, static, failed, placed, reached >>
  BY DEF Close
<1>4. errors' \in BOOLEAN /\ (errors => errors')
  BY <1>1, <1>3, Zenon
<1>5. SizeIsExact'
  <2>1. SUFFICES ASSUME ~errors, ~static, object.basic = "ARRAY"
                 PROVE  size' = IF object.size = NoSize THEN reached + 1 ELSE object.size
    BY <1>3, <1>4 DEF SizeIsExact
  <2>2. CASE object.size = NoSize
    <3>1. Sizing
      BY <1>1, <2>1, <2>2 DEF Sizing, Unsized
    <3>2. frames[1].size = reached + 1
      BY <3>1 DEF IInv, Tally
    <3>. QED
      BY <1>2, <1>3, <2>1, <2>2, <3>2 DEF Sized
  <2>3. CASE object.size # NoSize
    BY <1>3, <2>1, <2>3 DEF Sized
  <2>. QED
    BY <2>2, <2>3
<1>6. FramesOK'
  <2>1. << >> \in Seq(Nat) /\ Len(<< >>) = 0
    OBVIOUS
  <2>. QED
    BY <1>3, <2>1 DEF FramesOK, IsSeq
<1>. QED
  BY <1>1, <1>3, <1>4, <1>5, <1>6 DEF IInv, Sizing

\* A list within ends: the one it is in is behind the subobject.
LEMMA CloseInner ==
  ASSUME IInv, Close, Len(frames) # 1
  PROVE  IInv'
<1> DEFINE n == Len(frames)
           m == n - 1
           b == Front(frames)
           f == Last(b)
           g == Passed(f)
           s == frames'
<1>1. FramesOK /\ frames # << >> /\ errors \in BOOLEAN /\ reached \in Int /\ failed \in BOOLEAN
      /\ ~done
  BY DEF IInv, Close
<1>2. n \in Nat \ {0} /\ IsSeq(frames) /\ frames[1].node = object /\ frames[1].start = << >>
  BY <1>1, TopFacts
<1>3. m \in Nat \ {0} /\ m \in 0..n /\ m \in 1..n /\ m \in 1..(n - 1) /\ 1 \in 1..m
  <2>1. \A a \in Nat \ {0} : a # 1 =>
            /\ a - 1 \in Nat \ {0} /\ a - 1 \in 0..a /\ a - 1 \in 1..a /\ a - 1 \in 1..(a - 1)
            /\ 1 \in 1..(a - 1)
    OBVIOUS
  <2>. QED
    BY <1>2, <2>1
<1>4. /\ errors' = (errors \/ (~IsTree(Top.node) /\ Top.count # 1))
      /\ s = Append(Front(b), g)
      /\ UNCHANGED << object, static, failed, placed, reached, size, done >>
  BY DEF Close, Below
<1>5. errors' \in BOOLEAN /\ (errors => errors')
  BY <1>1, <1>4, Zenon
<1>6. \A i \in 1..n : IsFrame(frames[i])
  BY <1>1 DEF FramesOK
<1>7. \A i \in 1..(n - 1) : IsTree(frames[i].node) /\ ~frames[i].broken
  BY <1>1 DEF FramesOK
<1> HIDE DEF n
<1>8. /\ IsSeq(b) /\ Len(b) = m /\ b # << >> /\ f = frames[m]
      /\ \A i \in 1..m : b[i] = frames[i]
  <2>1. b = SubSeq(frames, 1, m)
    BY DEF Front, n
  <2>2. m \in 0..Len(frames)
    BY <1>3 DEF n
  <2> HIDE DEF b, m
  <2>3. IsSeq(b) /\ Len(b) = m /\ \A i \in 1..m : b[i] = frames[i]
    BY <1>2, <2>1, <2>2, SeqFirst
  <2>4. b # << >>
    BY <1>3, <2>3, SeqFacts
  <2>5. m \in 1..m
    <3>1. \A a \in Nat \ {0} : a \in 1..a
      OBVIOUS
    <3>. QED
      BY <1>3, <3>1
  <2>6. Last(b) = b[m]
    BY <2>3 DEF Last
  <2>. QED
    BY <2>3, <2>4, <2>5, <2>6
<1> HIDE DEF b, f
<1>9. IsFrame(f) /\ IsTree(f.node) /\ ~f.broken /\ IsAccesser(f.at) /\ DOMAIN f = Fields
  BY <1>3, <1>6, <1>7, <1>8 DEF IsFrame, Fields
<1>10. /\ Turned(g, f) /\ IsAccesser(g.at) /\ g.size = Asked(f)
       /\ OutermostOK(f) /\ Asked(f) \in Nat /\ Asked(f) >= f.size => OutermostOK(g)
  BY <1>9, PassedFacts
<1> HIDE DEF g
<1>11. IsFrame(g) /\ g.node = f.node /\ g.start = f.start /\ ~g.broken
  BY <1>9, <1>10, TurnedFacts DEF Turned
<1>12. /\ IsSeq(s) /\ Len(s) = m /\ s[m] = g /\ s # << >>
       /\ \A i \in 1..(m - 1) : s[i] = frames[i]
  <2>1. Exchanges(s, b, g)
    BY <1>4 DEF Exchanges
  <2> HIDE DEF s
  <2>2. /\ IsSeq(s) /\ Len(s) = Len(b) /\ s[Len(b)] = g /\ s # << >>
        /\ \A i \in 1..(Len(b) - 1) : s[i] = b[i]
    <3>1. IsSeq(b) /\ b # << >>
      BY <1>8
    <3>. QED
      BY <2>1, <3>1, SeqReplace
  <2>3. \A i \in 1..(m - 1) : i \in 1..m
    BY <1>3
  <2> HIDE DEF m
  <2>. QED
    BY <1>8, <2>2, <2>3
<1> HIDE DEF s, m
<1>13. /\ \A i \in 1..m : i = m \/ i \in 1..(m - 1)
       /\ \A i \in 1..m : i \in 1..n
       /\ \A i \in 1..(m - 1) : i \in 1..(n - 1)
       /\ \A i \in 2..m : i \in 2..n /\ i \in 1..m
  BY <1>2, <1>3 DEF m
<1>14. \A i \in 1..m : /\ IsFrame(s[i]) /\ s[i].node = frames[i].node
                       /\ s[i].start = frames[i].start
  BY <1>6, <1>8, <1>11, <1>12, <1>13
<1>15. \A i \in 1..(m - 1) : IsTree(s[i].node) /\ ~s[i].broken
  BY <1>7, <1>12, <1>13
<1>16. FramesOK'
  <2>1. /\ IsSeq(s) /\ \A i \in 1..Len(s) : IsFrame(s[i])
        /\ \A i \in 1..(Len(s) - 1) : IsTree(s[i].node) /\ ~s[i].broken
        /\ Len(s) > 0 => s[1].node = object' /\ s[1].start = << >>
    BY <1>2, <1>3, <1>4, <1>12, <1>14, <1>15
  <2>. QED
    BY <2>1 DEF FramesOK, s, IsSeq, IsFrame, IsAccesser, Entries, IsEntry
<1>17. Top' = g
  BY <1>12 DEF Top, Last, s
<1>18. ASSUME Sizing' PROVE OutermostOK(frames[1])' /\ InnerOK' /\ Tally'
  <2>1. Sizing
    BY <1>1, <1>4, <1>5, <1>18 DEF Sizing, Unsized
  <2>2. OutermostOK(frames[1]) /\ InnerOK /\ Asked(frames[1]) = reached + 1
    BY <2>1 DEF IInv, Tally
  <2>3. CASE m = 1
    <3>1. f = frames[1] /\ s[1] = g /\ Len(s) = 1
      BY <1>8, <1>12, <2>3
    <3>2. Asked(f) \in Nat /\ Asked(f) >= f.size
      <4>1. f.node.basic = "ARRAY" /\ f.node.size = NoSize /\ f.size \in Nat
        BY <1>2, <2>1, <2>2, <3>1 DEF Sizing, Unsized, OutermostOK
      <4>2. CASE f.at[1].path = << >>
        <5>1. f.at[1].index \in Nat
          BY <1>9, WayFacts DEF IsEntry
        <5> DEFINE k == f.at[1].index
        <5>2. Noted(f, k) = IF k + 1 > f.size THEN k + 1 ELSE f.size
          BY <4>1, <5>1, NotedFacts
        <5>3. Asked(f) = Noted(f, k)
          BY <4>2 DEF Asked
        <5> HIDE DEF k
        <5>4. k \in Nat
          BY <5>1 DEF k
        <5>. QED
          BY <4>1, <5>2, <5>3, <5>4
      <4>3. CASE f.at[1].path # << >>
        BY <4>1, <4>3 DEF Asked
      <4>. QED
        BY <4>2, <4>3
    <3>3. OutermostOK(g) /\ g.size = reached + 1
      BY <1>10, <2>2, <3>1, <3>2
    <3>4. OutermostOK(frames[1])'
      BY <1>4, <3>1, <3>3 DEF s, OutermostOK, OneWay, FirstStep, Path, Step
    <3>5. InnerOK'
      BY <3>1 DEF InnerOK, s
    <3>6. Tally'
      BY <1>4, <3>1, <3>3 DEF Tally, s
    <3>. QED
      BY <3>4, <3>5, <3>6
  <2>4. CASE m # 1
    <3>1. s[1] = frames[1] /\ Len(s) # 1
      <4>1. 1 \in 1..(m - 1)
        BY <1>3, <2>4
      <4>. QED
        BY <1>12, <2>4, <4>1
    <3>2. OutermostOK(frames[1])'
      BY <1>4, <2>2, <3>1 DEF s, OutermostOK, OneWay, FirstStep, Path, Step
    <3>3. InnerOK'
      <4> DEFINE x == FirstStep(frames[1].at)
      <4>1. \A i \in 2..n : /\ frames[i].start # << >> /\ frames[i].start[1] = x
                            /\ x <= reached
        BY <2>2 DEF InnerOK, n
      <4>2. x' = x
        BY <3>1 DEF s, FirstStep, Path, Step
      <4> HIDE DEF x
      <4>3. \A i \in 2..m : /\ s[i].start # << >> /\ s[i].start[1] = x
                            /\ x <= reached'
        BY <1>4, <1>13, <1>14, <4>1
      <4>. QED
        BY <1>12, <4>2, <4>3 DEF InnerOK, x, s
    <3>4. Tally'
      BY <1>4, <2>2, <3>1 DEF Tally, Asked, Noted, s
    <3>. QED
      BY <3>2, <3>3, <3>4
  <2>. QED
    BY <2>3, <2>4
<1>. QED
  BY <1>1, <1>4, <1>5, <1>11, <1>12, <1>16, <1>17, <1>18 DEF IInv, SizeIsExact, s

\* The initializer is one value: that is no initializer of an array.
LEMMA WholeStep ==
  ASSUME IInv, NEW v \in Values, Whole(v)
  PROVE  IInv'
<1> DEFINE c == CastTo(v, object)
<1>1. /\ frames' = << >> /\ errors' = RefusesValue(object, c) /\ failed' = FailsValue(object, c)
      /\ done' = TRUE /\ UNCHANGED << object, static, size, frames, placed, reached >>
  BY DEF Whole
<1> HIDE DEF c
<1>2. errors' \in BOOLEAN /\ failed' \in BOOLEAN
  BY <1>1, ValueFacts
<1>3. object.basic = "ARRAY" => errors'
  BY <1>1 DEF RefusesValue
<1>4. FramesOK' /\ reached' \in Int
  BY <1>1 DEF IInv, FramesOK, IsFrame, IsAccesser, Entries, IsEntry, IsSeq
<1>. QED
  BY <1>1, <1>2, <1>3, <1>4 DEF IInv, Sizing, SizeIsExact

\* It is a list: nothing has been asked for yet.
LEMMA OpenStep ==
  ASSUME IInv, Open
  PROVE  IInv'
<1> DEFINE l == List(object, << >>)
<1>1. /\ frames = << >> /\ ~done /\ frames' = << l >>
      /\ UNCHANGED << object, static, size, errors, failed, placed, reached, done >>
  BY DEF Open
<1>2. << >> \in Seq(Nat)
  OBVIOUS
<1>3. /\ IsFrame(l) /\ l.node = object /\ l.start = << >> /\ ~l.broken /\ l.size = 0
      /\ IsTree(object) => l.at = first(object)
  BY <1>2, ListFacts
<1> HIDE DEF l
<1>4. /\ IsSeq(frames') /\ Len(frames') = 1 /\ frames'[1] = l /\ frames' # << >>
      /\ \A i \in 1..Len(frames') : frames'[i] = l
  <2> DEFINE s == frames'
  <2>1. s = << l >>
    BY <1>1
  <2> HIDE DEF s
  <2>2. s \in Seq({l}) /\ Len(s) = 1 /\ s[1] = l /\ s # << >>
    BY <2>1
  <2>3. \A i \in 1..1 : i = 1
    OBVIOUS
  <2>. QED
    BY <2>2, <2>3 DEF IsSeq, s
<1>5. FramesOK'
  <2> DEFINE s == frames'
  <2>1. /\ IsSeq(s) /\ \A i \in 1..Len(s) : IsFrame(s[i])
        /\ \A i \in 1..(Len(s) - 1) : IsTree(s[i].node) /\ ~s[i].broken
        /\ Len(s) > 0 => s[1].node = object' /\ s[1].start = << >>
    BY <1>1, <1>3, <1>4
  <2>. QED
    BY <2>1 DEF FramesOK, IsSeq, IsFrame, IsAccesser, Entries, IsEntry
<1>6. Top' = l
  BY <1>4 DEF Top, Last
<1>7. ASSUME Sizing' PROVE OutermostOK(frames[1])' /\ InnerOK' /\ Tally'
  <2>1. IsTree(object) /\ reached = -1
    BY <1>1, <1>7 DEF Sizing, Unsized, IsTree, IInv
  <2> DEFINE e == Entry(object, << >>, 0, 0)
  <2>2. l.at = << e >> /\ e.path = << >> /\ e.node = object
    BY <1>3, <2>1 DEF first, Entry
  <2> HIDE DEF e
  <2>3. l.at[1] = e /\ Len(l.at) = 1
    BY <2>2
  <2>4. OutermostOK(l)
    BY <1>3, <2>2, <2>3 DEF OutermostOK, OneWay
  <2>5. OutermostOK(frames[1])'
    BY <1>1, <1>4, <2>4 DEF OutermostOK, OneWay, FirstStep, Path, Step
  <2>6. InnerOK'
    BY <1>4 DEF InnerOK
  <2>7. Tally'
    BY <1>1, <1>3, <1>4, <2>1 DEF Tally
  <2>. QED
    BY <2>5, <2>6, <2>7
<1>. QED
  BY <1>1, <1>3, <1>4, <1>5, <1>6, <1>7 DEF IInv, SizeIsExact

------------------------------------------------------------------------------
(* The theorems *)

\* A step that changes nothing.
LEMMA StutterStep ==
  ASSUME IInv, UNCHANGED vars
  PROVE  IInv'
BY ZenonT(60) DEF vars, IInv, FramesOK, Sizing, Unsized, InnerOK, Tally, SizeIsExact, Top, OutermostOK,
       OneWay, FirstStep, Path, Step, Asked, Noted, Last, IsFrame, IsAccesser, Entries,
       IsEntry, IsSeq

\* The lists of an initializer are kept right: the entries of an accesser lie on
\* the way to what it stands at, a list within is for what the outermost one
\* stands at, and the elements noted are those that values have been put in.
THEOREM ListsAreRight == Spec => []IInv
<1>1. Init => IInv
  <2>. SUFFICES ASSUME Init PROVE IInv
    OBVIOUS
  <2>1. << >> \in Seq(Nat) /\ Len(<< >>) = 0
    OBVIOUS
  <2>2. /\ frames = << >> /\ errors = FALSE /\ failed = FALSE /\ done = FALSE
        /\ reached = -1 /\ -1 \in Int
    BY DEF Init
  <2>3. FramesOK
    BY <2>1, <2>2 DEF FramesOK, IsSeq
  <2>. QED
    BY <2>2, <2>3 DEF IInv, Sizing, SizeIsExact
<1>2. IInv /\ [Next]_vars => IInv'
  <2>. SUFFICES ASSUME IInv, [Next]_vars PROVE IInv'
    OBVIOUS
  <2>1. ASSUME NEW v \in Values, Whole(v) PROVE IInv'
    BY <2>1, WholeStep
  <2>2. CASE Open
    BY <2>2, OpenStep
  <2>3. ASSUME NEW ds \in Designations, Misplaced(ds) PROVE IInv'
    BY <2>3, MisplacedStep
  <2>4. ASSUME NEW ds \in Designations, NoEntry(ds) PROVE IInv'
    BY <2>4, NoEntryStep
  <2>5. ASSUME NEW ds \in Designations, OpenList(ds) PROVE IInv'
    BY <2>5, OpenListStep
  <2>6. ASSUME NEW ds \in Designations, NEW v \in Values, Item(ds, v) PROVE IInv'
    BY <2>6, ItemStep
  <2>7. ASSUME NEW ds \in Designations, NEW v \in Values, ScalarItem(ds, v) PROVE IInv'
    BY <2>7, ScalarItemStep
  <2>8. CASE ScalarList
    BY <2>8, ScalarListStep
  <2>9. CASE Close
    BY <2>9, CloseOutermost, CloseInner
  <2>10. CASE UNCHANGED vars
    BY <2>10, StutterStep
  <2>. QED
    BY <2>1, <2>2, <2>3, <2>4, <2>5, <2>6, <2>7, <2>8, <2>9, <2>10, Zenon DEF Next
<1>. QED
  BY <1>1, <1>2, PTL DEF Spec

\* An array declared without a size gets the size its values need, whatever the
\* designators and the nesting of its initializer.
THEOREM SizesAreExact == Spec => []SizeIsExact
<1>1. IInv => SizeIsExact
  BY DEF IInv
<1>. QED
  BY <1>1, ListsAreRight, PTL
==============================================================================
