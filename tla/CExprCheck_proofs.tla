--------------------------- MODULE CExprCheck_proofs ---------------------------
(****************************************************************************)
(* Proofs about the checks of expressions, for every set of leaves, members  *)
(* and types: every operand gets a type, the operators of arithmetic balance *)
(* their operands, and no accepted expression writes to what was declared    *)
(* const, as far as the code keeps track of it.                              *)
(****************************************************************************)
EXTENDS CExprCheck, SequenceTheorems, WellFoundedInduction, TLAPS

------------------------------------------------------------------------------
(* Numbers *)

\* Every set of numbers has a least one.
LEMMA LeastNat ==
  ASSUME NEW S \in SUBSET Nat, S # {}
  PROVE  \E n \in S : \A m \in S : n <= m
<1> DEFINE R == OpToRel(<, Nat)
<1>1. IsWellFoundedOn(R, Nat)
  BY NatLessThanWellFounded
<1>2. \A x, y \in Nat : x < y => <<x, y>> \in R
  BY DEF OpToRel
<1>. HIDE DEF R
<1>3. PICK n \in S : \A m \in S : <<m, n>> \notin R
  BY <1>1, WFMin
<1>4. ASSUME NEW m \in S PROVE n <= m
  <2>1. m \in Nat /\ n \in Nat /\ ~(m < n)
    BY <1>2, <1>3
  <2>. QED
    BY <2>1
<1>. QED
  BY <1>4

\* A set that has 0, and n + 1 with every n below the bound, has them all.
LEMMA Induction ==
  ASSUME NEW b \in Nat, NEW S, 0 \in S, \A n \in S : n \in 0 .. b /\ n + 1 <= b => n + 1 \in S
  PROVE  0 .. b \subseteq S
<1>1. SUFFICES ASSUME (0 .. b) \ S # {} PROVE FALSE
  OBVIOUS
<1>2. PICK n \in (0 .. b) \ S : \A m \in (0 .. b) \ S : n <= m
  <2> DEFINE T == (0 .. b) \ S
  <2>1. T \in SUBSET Nat /\ T # {}
    BY <1>1
  <2> HIDE DEF T
  <2>2. \E n \in T : \A m \in T : n <= m
    BY <2>1, LeastNat
  <2>. QED
    BY <2>2 DEF T
<1>3. n \in 0 .. b /\ n \notin S /\ n # 0
  BY <1>2
<1>4. n - 1 \in 0 .. b /\ n - 1 < n /\ (n - 1) + 1 = n
  BY <1>3
<1>5. n - 1 \in S
  BY <1>2, <1>4
<1>6. (n - 1) + 1 <= b
  BY <1>3, <1>4
<1>7. (n - 1) + 1 \in S
  BY <1>4, <1>5, <1>6
<1>. QED
  BY <1>3, <1>4, <1>7

------------------------------------------------------------------------------
(* The types *)

\* T is the list of the types nested at most 0, 1, ... n deep.
IsUniverse(T, n) ==
    T = [k \in 0..n |-> IF k = 0 THEN BasicTypes ELSE BasicTypes \cup TypesMadeOf(T[k - 1])]

\* There is such a list of any length.
LEMMA UniversesExist ==
  ASSUME NEW b \in Nat
  PROVE  \E T : IsUniverse(T, b)
<1> DEFINE S == {n \in Nat : \E T : IsUniverse(T, n)}
<1>1. 0 \in S
  <2>1. IsUniverse([k \in 0..0 |-> BasicTypes], 0)
    BY DEF IsUniverse
  <2>. QED
    BY <2>1
<1>2. ASSUME NEW n \in S PROVE n + 1 \in S
  <2>1. PICK f : IsUniverse(f, n)
    BY <1>2
  <2> DEFINE g == [k \in 0..(n + 1) |-> IF k = n + 1 THEN BasicTypes \cup TypesMadeOf(f[n])
                                        ELSE f[k]]
  <2>2. n \in Nat /\ n + 1 \in Nat
    OBVIOUS
  <2>3. ASSUME NEW k \in 0..(n + 1)
        PROVE  g[k] = IF k = 0 THEN BasicTypes ELSE BasicTypes \cup TypesMadeOf(g[k - 1])
    <3>1. CASE k = n + 1
      <4>1. k # 0 /\ k - 1 = n /\ n \in 0..(n + 1) /\ n # n + 1
        BY <2>2, <3>1
      <4>2. g[k - 1] = f[n]
        BY <4>1
      <4>. QED
        BY <3>1, <4>1, <4>2
    <3>2. CASE k # n + 1
      <4>1. k \in 0..n /\ (k # 0 => k - 1 \in 0..(n + 1) /\ k - 1 # n + 1)
        BY <2>2, <3>2
      <4>2. g[k] = f[k] /\ (k # 0 => g[k - 1] = f[k - 1])
        BY <4>1, <3>2
      <4>3. f[k] = IF k = 0 THEN BasicTypes ELSE BasicTypes \cup TypesMadeOf(f[k - 1])
        BY <4>1, <2>1 DEF IsUniverse
      <4>. QED
        BY <4>2, <4>3
    <3>. QED
      BY <3>1, <3>2
  <2>4. IsUniverse(g, n + 1)
    <3>1. g = [k \in 0..(n + 1) |-> g[k]]
      OBVIOUS
    <3> HIDE DEF g
    <3>. QED
      BY <2>3, <3>1 DEF IsUniverse
  <2>. QED
    BY <2>2, <2>4
<1>3. 0..b \subseteq S
  <2> HIDE DEF S
  <2>. QED
    BY <1>1, <1>2, Induction
<1>. QED
  BY <1>3

\* TypesUpTo is that list.
LEMMA UniverseFacts ==
  /\ TypeDepth \in Nat \ {0}
  /\ TypesUpTo[0] = BasicTypes
  /\ \A n \in 1..TypeDepth :
        TypesUpTo[n] = BasicTypes \cup TypesMadeOf(TypesUpTo[n - 1])
<1>1. TypesUpTo = CHOOSE T : IsUniverse(T, TypeDepth)
  BY Zenon DEF TypesUpTo, IsUniverse
<1>2. TypeDepth \in Nat \ {0}
  BY TypesAssumption
<1>3. IsUniverse(TypesUpTo, TypeDepth)
  BY <1>1, <1>2, UniversesExist
<1>4. \A n \in 0..TypeDepth :
         TypesUpTo[n] = IF n = 0 THEN BasicTypes ELSE BasicTypes \cup TypesMadeOf(TypesUpTo[n - 1])
  <2>1. TypesUpTo = [k \in 0..TypeDepth |-> IF k = 0 THEN BasicTypes
                                            ELSE BasicTypes \cup TypesMadeOf(TypesUpTo[k - 1])]
    BY <1>3 DEF IsUniverse
  <2>. QED
    BY <2>1, Zenon
<1>5. 0 \in 0..TypeDepth /\ \A n \in 1..TypeDepth : n \in 0..TypeDepth /\ n # 0
  BY <1>2
<1>. QED
  BY <1>2, <1>4, <1>5

\* What the records of the types are, of the types nested at most n deep.
LEMMA Kinds ==
  ASSUME NEW n \in 0..TypeDepth, NEW t \in TypesUpTo[n]
  PROVE  /\ t.q \in SUBSET Qualifiers
         /\ t.basic \in {"INT", "FLOAT", "VOID", "STRUCT", "UNION", "ENUM", "POINTER", "ARRAY",
                         "FUNCTION"}
         /\ t.basic = "INT" =>
               t \in [basic : {"INT"}, size : Nat, unsigned : BOOLEAN, q : SUBSET Qualifiers]
         /\ t.basic = "FLOAT" => t \in [basic : {"FLOAT"}, size : Nat, q : SUBSET Qualifiers]
         /\ t.basic = "VOID" => t \in [basic : {"VOID"}, q : VoidQualifiers]
         /\ t.basic \in {"STRUCT", "UNION"} =>
               t \in [basic : {"STRUCT", "UNION"}, id : TagIds, def : BOOLEAN, q : SUBSET Qualifiers]
         /\ t.basic = "ENUM" =>
               t \in [basic : {"ENUM"}, id : EnumIds, def : BOOLEAN, q : EnumQualifiers]
         /\ t.basic = "POINTER" =>
               n \in 1..TypeDepth
               /\ t \in [basic : {"POINTER"}, to : TypesUpTo[n - 1], q : SUBSET Qualifiers]
         /\ t.basic = "ARRAY" =>
               n \in 1..TypeDepth
               /\ t \in [basic : {"ARRAY"}, to : TypesUpTo[n - 1], size : Int, static : BOOLEAN,
                         q : SUBSET Qualifiers]
         /\ t.basic = "FUNCTION" =>
               n \in 1..TypeDepth
               /\ t \in [basic : {"FUNCTION"}, ret : TypesUpTo[n - 1],
                         params : Seq(TypesUpTo[n - 1]), variadic : BOOLEAN, q : {{}}]
<1>1. TypeDepth \in Nat /\ VoidQualifiers \subseteq SUBSET Qualifiers
      /\ EnumQualifiers \subseteq SUBSET Qualifiers
  BY TypesAssumption
<1>2. CASE n = 0
  <2>1. t \in BasicTypes
    BY <1>2, UniverseFacts
  <2>. QED
    BY <1>1, <2>1 DEF BasicTypes
<1>3. CASE n # 0
  <2>1. n \in 1..TypeDepth
    BY <1>1, <1>3
  <2>2. t \in BasicTypes \cup TypesMadeOf(TypesUpTo[n - 1])
    BY <2>1, UniverseFacts
  <2>3. CASE t \in BasicTypes
    BY <1>1, <2>3 DEF BasicTypes
  <2>4. CASE t \in TypesMadeOf(TypesUpTo[n - 1])
    BY <2>1, <2>4 DEF TypesMadeOf
  <2>. QED
    BY <2>2, <2>3, <2>4
<1>. QED
  BY <1>2, <1>3

\* The types of each nesting are among those of the next.
LEMMA Grows ==
  ASSUME NEW n \in 0..TypeDepth, n + 1 \in 0..TypeDepth
  PROVE  TypesUpTo[n] \subseteq TypesUpTo[n + 1]
<1> DEFINE S == {k \in 0..TypeDepth : k + 1 \in 0..TypeDepth =>
                                       TypesUpTo[k] \subseteq TypesUpTo[k + 1]}
<1>0. TypeDepth \in Nat
  BY TypesAssumption
<1>1. 0 \in S
  <2>1. 1 \in 0..TypeDepth => TypesUpTo[1] = BasicTypes \cup TypesMadeOf(TypesUpTo[0])
    BY <1>0, UniverseFacts
  <2>. QED
    BY <1>0, <2>1, UniverseFacts
<1>2. ASSUME NEW k \in S, k \in 0..TypeDepth, k + 1 <= TypeDepth PROVE k + 1 \in S
  <2>1. k + 1 \in 1..TypeDepth /\ k \in 0..TypeDepth
    BY <1>0, <1>2
  <2>2. SUFFICES ASSUME k + 2 \in 0..TypeDepth PROVE TypesUpTo[k + 1] \subseteq TypesUpTo[k + 2]
    BY <2>1
  <2>3. TypesUpTo[k + 1] = BasicTypes \cup TypesMadeOf(TypesUpTo[k])
    <3>1. (k + 1) - 1 = k
      BY <2>1
    <3>. QED
      BY <2>1, <3>1, UniverseFacts
  <2>4. TypesUpTo[k + 2] = BasicTypes \cup TypesMadeOf(TypesUpTo[k + 1])
    <3>1. (k + 2) - 1 = k + 1 /\ k + 2 \in 1..TypeDepth
      BY <2>1, <2>2
    <3>. QED
      BY <3>1, UniverseFacts
  <2>5. TypesUpTo[k] \subseteq TypesUpTo[k + 1]
    BY <1>2, <2>1
  <2>6. ASSUME NEW A, NEW B, A \subseteq B PROVE TypesMadeOf(A) \subseteq TypesMadeOf(B)
    <3>1. Seq(A) \subseteq Seq(B)
      BY <2>6
    <3>. QED
      BY <2>6, <3>1 DEF TypesMadeOf
  <2>. QED
    BY <2>3, <2>4, <2>5, <2>6
<1>3. 0..TypeDepth \subseteq S
  <2> HIDE DEF S
  <2>. QED
    BY <1>0, <1>1, <1>2, Induction
<1>. QED
  BY <1>3

\* What is pointed to, and what is nested less, is a type.
LEMMA InTypes ==
  /\ TypesUpTo[TypeDepth - 1] \subseteq Types
  /\ \A t \in Types : PointsTo(t) => t.to \in TypesUpTo[TypeDepth - 1]
  /\ \A t \in Types : t.basic = "FUNCTION" =>
        t.ret \in TypesUpTo[TypeDepth - 1] /\ t.params \in Seq(TypesUpTo[TypeDepth - 1])
<1>1. TypeDepth \in 0..TypeDepth /\ TypeDepth - 1 \in 0..TypeDepth /\ (TypeDepth - 1) + 1 = TypeDepth
  BY TypesAssumption
<1>2. TypesUpTo[TypeDepth - 1] \subseteq Types
  BY <1>1, Grows DEF Types
<1>3. ASSUME NEW t \in Types, PointsTo(t) PROVE t.to \in TypesUpTo[TypeDepth - 1]
  BY <1>1, <1>3, Kinds DEF Types, PointsTo
<1>4. ASSUME NEW t \in Types, t.basic = "FUNCTION"
      PROVE  t.ret \in TypesUpTo[TypeDepth - 1] /\ t.params \in Seq(TypesUpTo[TypeDepth - 1])
  BY <1>1, <1>4, Kinds DEF Types
<1>. QED
  BY <1>2, <1>3, <1>4

\* The types made of others.
LEMMA Builds ==
  ASSUME NEW n \in 1..TypeDepth
  PROVE  /\ \A t \in TypesUpTo[n - 1] : \A q \in SUBSET Qualifiers :
               [basic |-> "POINTER", to |-> t, q |-> q] \in TypesUpTo[n]
         /\ \A t \in TypesUpTo[n - 1] : \A q \in SUBSET Qualifiers :
               \A k \in Int : \A s \in BOOLEAN :
               [basic |-> "ARRAY", to |-> t, size |-> k, static |-> s, q |-> q] \in TypesUpTo[n]
         /\ \A r \in TypesUpTo[n - 1] : \A ps \in Seq(TypesUpTo[n - 1]) : \A v \in BOOLEAN :
               FUNCTION(r, ps, v) \in TypesUpTo[n]
<1>1. TypesMadeOf(TypesUpTo[n - 1]) \subseteq TypesUpTo[n]
  BY UniverseFacts
<1>. QED
  BY <1>1 DEF TypesMadeOf, FUNCTION

\* A type that is given other qualifiers.
LEMMA Requalified ==
  ASSUME NEW n \in 0..TypeDepth, NEW t \in TypesUpTo[n], NEW q \in SUBSET Qualifiers,
         t.basic = "VOID" => q \in VoidQualifiers,
         t.basic = "ENUM" => q \in EnumQualifiers,
         t.basic = "FUNCTION" => q = {}
  PROVE  /\ Qualify(t, q) \in TypesUpTo[n]
         /\ Qualify(t, q).basic = t.basic /\ Qualify(t, q).q = q
         /\ PointsTo(t) => Qualify(t, q).to = t.to
<1>1. CASE t.basic \in {"INT", "FLOAT", "VOID", "STRUCT", "UNION", "ENUM"}
  <2>1. BasicTypes \subseteq TypesUpTo[n]
    BY UniverseFacts
  <2>2. t \in BasicTypes
    BY <1>1, Kinds DEF BasicTypes
  <2>3. Qualify(t, q) \in BasicTypes
    BY <2>2 DEF BasicTypes, Qualify
  <2>4. Qualify(t, q).basic = t.basic /\ Qualify(t, q).q = q
    BY <2>2 DEF BasicTypes, Qualify
  <2>. QED
    BY <1>1, <2>1, <2>3, <2>4 DEF PointsTo
<1>2. CASE t.basic \in {"POINTER", "ARRAY", "FUNCTION"}
  <2>1. n \in 1..TypeDepth
    BY <1>2, Kinds
  <2>2. TypesMadeOf(TypesUpTo[n - 1]) \subseteq TypesUpTo[n]
    BY <2>1, UniverseFacts
  <2>3. t \in TypesMadeOf(TypesUpTo[n - 1])
    BY <1>2, Kinds DEF TypesMadeOf
  <2>4. Qualify(t, q) \in TypesMadeOf(TypesUpTo[n - 1])
    BY <2>3 DEF TypesMadeOf, Qualify
  <2>5. Qualify(t, q).basic = t.basic /\ Qualify(t, q).q = q
        /\ (PointsTo(t) => Qualify(t, q).to = t.to)
    BY <2>3 DEF TypesMadeOf, Qualify, PointsTo
  <2>. QED
    BY <2>2, <2>4, <2>5
<1>. QED
  BY <1>1, <1>2, Kinds

------------------------------------------------------------------------------
(* What types say of objects *)

\* What the types nested at most k deep say, from what those below them do.
ConstsRow(k, below) ==
    [t \in TypesUpTo[k] |->
        << "const" \in t.q >> \o IF PointsTo(t) THEN below[t.to] ELSE << >>]
IsConstsTable(C, n) == C = [k \in 0..n |-> ConstsRow(k, C[k - 1])]

\* The types that are made of no others need nothing below them.
LEMMA BasicRow ==
  ASSUME NEW x, NEW y
  PROVE  ConstsRow(0, x) = ConstsRow(0, y)
<1>1. \A t \in TypesUpTo[0] : ~PointsTo(t)
  BY UniverseFacts, Kinds DEF PointsTo
<1>. QED
  BY <1>1 DEF ConstsRow

\* There is such a table of any length.
LEMMA ConstsTablesExist ==
  ASSUME NEW b \in Nat
  PROVE  \E C : IsConstsTable(C, b)
<1> DEFINE S == {n \in Nat : \E C : IsConstsTable(C, n)}
<1>1. 0 \in S
  <2> DEFINE g == [k \in 0..0 |-> ConstsRow(0, << >>)]
  <2>1. \A k \in 0..0 : g[k] = ConstsRow(k, g[k - 1])
    <3>1. g[0] = ConstsRow(0, << >>)
      OBVIOUS
    <3> HIDE DEF g
    <3>2. \A k \in 0..0 : k = 0
      OBVIOUS
    <3>3. g[0] = ConstsRow(0, g[0 - 1])
      BY <3>1, BasicRow
    <3>. QED
      BY <3>2, <3>3
  <2>2. g = [k \in 0..0 |-> g[k]]
    OBVIOUS
  <2> HIDE DEF g
  <2>3. IsConstsTable(g, 0)
    BY <2>1, <2>2 DEF IsConstsTable
  <2>. QED
    BY <2>3
<1>2. ASSUME NEW n \in S PROVE n + 1 \in S
  <2>1. PICK f : IsConstsTable(f, n)
    BY <1>2
  <2> DEFINE g == [k \in 0..(n + 1) |-> IF k = n + 1 THEN ConstsRow(n + 1, f[n]) ELSE f[k]]
  <2>2. n \in Nat /\ n + 1 \in Nat
    OBVIOUS
  <2>3. ASSUME NEW k \in 0..(n + 1)
        PROVE  g[k] = ConstsRow(k, g[k - 1])
    <3>1. CASE k = n + 1
      <4>1. k - 1 = n /\ n \in 0..(n + 1) /\ n # n + 1
        BY <2>2, <3>1
      <4>2. g[k - 1] = f[n]
        BY <4>1
      <4>. QED
        BY <3>1, <4>2
    <3>2. CASE k # n + 1
      <4>1. k \in 0..n
        BY <2>2, <3>2
      <4>2. g[k] = f[k]
        BY <3>2
      <4>3. f[k] = ConstsRow(k, f[k - 1])
        BY <4>1, <2>1 DEF IsConstsTable
      <4>4. CASE k = 0
        <5> HIDE DEF g
        <5>. QED
          BY <4>2, <4>3, <4>4, BasicRow
      <4>5. CASE k # 0
        <5>1. k - 1 \in 0..(n + 1) /\ k - 1 # n + 1
          BY <2>2, <4>1, <4>5
        <5>. QED
          BY <4>2, <4>3, <5>1
      <4>. QED
        BY <4>4, <4>5
    <3>. QED
      BY <3>1, <3>2
  <2>4. IsConstsTable(g, n + 1)
    <3>1. g = [k \in 0..(n + 1) |-> g[k]]
      OBVIOUS
    <3> HIDE DEF g
    <3>. QED
      BY <2>3, <3>1 DEF IsConstsTable
  <2>. QED
    BY <2>2, <2>4
<1>3. 0..b \subseteq S
  <2> HIDE DEF S
  <2>. QED
    BY <1>1, <1>2, Induction
<1>. QED
  BY <1>3

\* ConstsUpTo is that table.
LEMMA ConstsAt ==
  ASSUME NEW n \in 0..TypeDepth, NEW t \in TypesUpTo[n]
  PROVE  ConstsUpTo[n][t] =
            << "const" \in t.q >> \o IF PointsTo(t) THEN ConstsUpTo[n - 1][t.to] ELSE << >>
<1>1. ConstsUpTo = CHOOSE C : IsConstsTable(C, TypeDepth)
  BY Zenon DEF ConstsUpTo, IsConstsTable, ConstsRow
<1>2. IsConstsTable(ConstsUpTo, TypeDepth)
  BY <1>1, UniverseFacts, ConstsTablesExist
<1>3. ConstsUpTo[n] = ConstsRow(n, ConstsUpTo[n - 1])
  BY <1>2 DEF IsConstsTable
<1>. QED
  BY <1>3 DEF ConstsRow

\* A type says of one object at least.
LEMMA ConstsSeq ==
  ASSUME NEW n \in 0..TypeDepth, NEW t \in TypesUpTo[n]
  PROVE  ConstsUpTo[n][t] \in Seq(BOOLEAN) \ {<< >>}
<1> DEFINE Good(k) == \A u \in TypesUpTo[k] : ConstsUpTo[k][u] \in Seq(BOOLEAN) \ {<< >>}
           S == {k \in 0..TypeDepth : Good(k)}
<1>0. TypeDepth \in Nat
  BY TypesAssumption
<1>1. ASSUME NEW k \in 0..TypeDepth, k # 0 => Good(k - 1)
      PROVE  Good(k)
  <2>1. SUFFICES ASSUME NEW u \in TypesUpTo[k]
                 PROVE  ConstsUpTo[k][u] \in Seq(BOOLEAN) \ {<< >>}
    OBVIOUS
  <2>2. CASE PointsTo(u)
    <3>1. k # 0 /\ u.to \in TypesUpTo[k - 1]
      BY <2>1, <2>2, Kinds DEF PointsTo
    <3> DEFINE x == ConstsUpTo[k - 1][u.to]
    <3>2. x \in Seq(BOOLEAN)
      BY <1>1, <3>1
    <3>3. ConstsUpTo[k][u] = << "const" \in u.q >> \o x
      BY <2>1, <2>2, ConstsAt
    <3> HIDE DEF x
    <3>. QED
      BY <3>2, <3>3
  <2>3. CASE ~PointsTo(u)
    <3>1. ConstsUpTo[k][u] = << "const" \in u.q >> \o << >>
      BY <2>1, <2>3, ConstsAt
    <3>. QED
      BY <3>1
  <2>. QED
    BY <2>2, <2>3
<1>2. 0 \in S
  BY <1>0, <1>1
<1>3. ASSUME NEW k \in S, k \in 0..TypeDepth, k + 1 <= TypeDepth PROVE k + 1 \in S
  <2>1. k + 1 \in 0..TypeDepth /\ (k + 1) - 1 = k /\ Good(k)
    BY <1>0, <1>3
  <2> HIDE DEF Good
  <2>2. Good(k + 1)
    BY <1>1, <2>1
  <2>. QED
    BY <2>1, <2>2
<1>4. 0..TypeDepth \subseteq S
  <2> HIDE DEF S
  <2>. QED
    BY <1>0, <1>2, <1>3, Induction
<1>. QED
  BY <1>4

\* What a type says does not depend on how deep types may be nested.
LEMMA ConstsGrow ==
  ASSUME NEW n \in 0..TypeDepth, n + 1 \in 0..TypeDepth, NEW t \in TypesUpTo[n]
  PROVE  ConstsUpTo[n + 1][t] = ConstsUpTo[n][t]
<1> DEFINE Same(k) == \A u \in TypesUpTo[k] : ConstsUpTo[k + 1][u] = ConstsUpTo[k][u]
           S == {k \in 0..TypeDepth : k + 1 \in 0..TypeDepth => Same(k)}
<1>0. TypeDepth \in Nat
  BY TypesAssumption
<1>1. ASSUME NEW k \in 0..TypeDepth, k + 1 \in 0..TypeDepth, k # 0 => Same(k - 1)
      PROVE  Same(k)
  <2>1. SUFFICES ASSUME NEW u \in TypesUpTo[k]
                 PROVE  ConstsUpTo[k + 1][u] = ConstsUpTo[k][u]
    OBVIOUS
  <2>2. u \in TypesUpTo[k + 1] /\ (k + 1) - 1 = k
    BY <1>1, <2>1, Grows
  <2>3. ConstsUpTo[k + 1][u] =
            << "const" \in u.q >> \o IF PointsTo(u) THEN ConstsUpTo[k][u.to] ELSE << >>
    BY <1>1, <2>2, ConstsAt
  <2>4. ConstsUpTo[k][u] =
            << "const" \in u.q >> \o IF PointsTo(u) THEN ConstsUpTo[k - 1][u.to] ELSE << >>
    BY <2>1, ConstsAt
  <2>5. CASE PointsTo(u)
    <3>1. k # 0 /\ u.to \in TypesUpTo[k - 1] /\ (k - 1) + 1 = k
      BY <2>1, <2>5, Kinds DEF PointsTo
    <3>2. ConstsUpTo[k][u.to] = ConstsUpTo[k - 1][u.to]
      BY <1>1, <3>1
    <3>. QED
      BY <2>3, <2>4, <3>2
  <2>. QED
    BY <2>3, <2>4, <2>5
<1>2. 0 \in S
  <2>1. 0 \in 0..TypeDepth
    BY <1>0
  <2> HIDE DEF Same
  <2>2. 0 + 1 \in 0..TypeDepth => Same(0)
    BY <1>1, <2>1
  <2>. QED
    BY <2>1, <2>2
<1>3. ASSUME NEW k \in S, k \in 0..TypeDepth, k + 1 <= TypeDepth PROVE k + 1 \in S
  <2>1. k + 1 \in 0..TypeDepth /\ (k + 1) - 1 = k /\ Same(k)
    BY <1>0, <1>3
  <2> HIDE DEF Same
  <2>2. (k + 1) + 1 \in 0..TypeDepth => Same(k + 1)
    BY <1>1, <2>1
  <2>. QED
    BY <2>1, <2>2
<1>4. 0..TypeDepth \subseteq S
  <2> HIDE DEF S
  <2>. QED
    BY <1>0, <1>2, <1>3, Induction
<1>. QED
  BY <1>4

\* What a type says: of its object whether it is const, then what the type pointed
\* to says.
LEMMA ConstsFacts ==
  ASSUME NEW t \in Types
  PROVE  /\ ConstsOf(t) \in Seq(BOOLEAN) \ {<< >>}
         /\ Len(ConstsOf(t)) \in Nat \ {0}
         /\ ConstsOf(t)[1] = ("const" \in t.q)
         /\ ~PointsTo(t) => ConstsOf(t) = << "const" \in t.q >> /\ Len(ConstsOf(t)) = 1
         /\ PointsTo(t) =>
               /\ t.to \in Types
               /\ ConstsOf(t) = << "const" \in t.q >> \o ConstsOf(t.to)
               /\ Len(ConstsOf(t)) = 1 + Len(ConstsOf(t.to))
               /\ \A i \in 1..Len(ConstsOf(t.to)) : ConstsOf(t)[i + 1] = ConstsOf(t.to)[i]
<1>0. TypeDepth \in 0..TypeDepth /\ TypeDepth - 1 \in 0..TypeDepth /\ (TypeDepth - 1) + 1 = TypeDepth
  BY TypesAssumption
<1>1. ASSUME NEW u \in Types PROVE ConstsOf(u) \in Seq(BOOLEAN) \ {<< >>}
  BY <1>0, ConstsSeq DEF Types, ConstsOf
<1>2. ConstsOf(t) =
            << "const" \in t.q >> \o IF PointsTo(t) THEN ConstsUpTo[TypeDepth - 1][t.to] ELSE << >>
  BY <1>0, ConstsAt DEF Types, ConstsOf
<1>3. CASE ~PointsTo(t)
  <2>1. ConstsOf(t) = << "const" \in t.q >> \o << >>
    BY <1>2, <1>3
  <2>. QED
    BY <1>3, <2>1
<1>4. CASE PointsTo(t)
  <2>1. t.to \in TypesUpTo[TypeDepth - 1] /\ t.to \in Types
    BY <1>4, InTypes
  <2>2. ConstsUpTo[TypeDepth - 1][t.to] = ConstsOf(t.to)
    BY <1>0, <2>1, ConstsGrow DEF ConstsOf
  <2> DEFINE x == ConstsOf(t.to)
  <2>3. x \in Seq(BOOLEAN)
    BY <1>1, <2>1
  <2>4. ConstsOf(t) = << "const" \in t.q >> \o x
    BY <1>2, <1>4, <2>2
  <2> HIDE DEF x
  <2>5. Len(ConstsOf(t)) = 1 + Len(x) /\ Len(x) \in Nat
    BY <2>3, <2>4
  <2>6. ConstsOf(t)[1] = ("const" \in t.q)
    BY <2>3, <2>4
  <2>7. \A i \in 1..Len(x) : ConstsOf(t)[i + 1] = x[i]
    BY <2>3, <2>4
  <2>. QED
    BY <1>1, <1>4, <2>1, <2>4, <2>5, <2>6, <2>7 DEF x
<1>. QED
  BY <1>3, <1>4

------------------------------------------------------------------------------
(* Compatible types *)

\* What compatible_with answers for the types nested at most k deep.
AnswersRow(k, inner) ==
    [p \in TypesUpTo[k] \X TypesUpTo[k] |-> CompositeType(p[1], p[2], inner)]
IsAnswersTable(C, n) ==
    C = [k \in 0..n |-> AnswersRow(k, IF k = 0 THEN << >> ELSE C[k - 1])]

\* There is such a table of any length.
LEMMA AnswersTablesExist ==
  ASSUME NEW b \in Nat
  PROVE  \E C : IsAnswersTable(C, b)
<1> DEFINE S == {n \in Nat : \E C : IsAnswersTable(C, n)}
<1>1. 0 \in S
  <2>1. IsAnswersTable([k \in 0..0 |-> AnswersRow(0, << >>)], 0)
    BY DEF IsAnswersTable
  <2>. QED
    BY <2>1
<1>2. ASSUME NEW n \in S PROVE n + 1 \in S
  <2>1. PICK f : IsAnswersTable(f, n)
    BY <1>2
  <2> DEFINE g == [k \in 0..(n + 1) |-> IF k = n + 1 THEN AnswersRow(n + 1, f[n]) ELSE f[k]]
  <2>2. n \in Nat /\ n + 1 \in Nat
    OBVIOUS
  <2>3. ASSUME NEW k \in 0..(n + 1)
        PROVE  g[k] = AnswersRow(k, IF k = 0 THEN << >> ELSE g[k - 1])
    <3>1. CASE k = n + 1
      <4>1. k # 0 /\ k - 1 = n /\ n \in 0..(n + 1) /\ n # n + 1
        BY <2>2, <3>1
      <4>2. g[k - 1] = f[n]
        BY <4>1
      <4>. QED
        BY <3>1, <4>1, <4>2
    <3>2. CASE k # n + 1
      <4>1. k \in 0..n /\ (k # 0 => k - 1 \in 0..(n + 1) /\ k - 1 # n + 1)
        BY <2>2, <3>2
      <4>2. g[k] = f[k] /\ (k # 0 => g[k - 1] = f[k - 1])
        BY <4>1, <3>2
      <4>3. f[k] = AnswersRow(k, IF k = 0 THEN << >> ELSE f[k - 1])
        BY <4>1, <2>1 DEF IsAnswersTable
      <4>. QED
        BY <4>2, <4>3
    <3>. QED
      BY <3>1, <3>2
  <2>4. IsAnswersTable(g, n + 1)
    <3>1. g = [k \in 0..(n + 1) |-> g[k]]
      OBVIOUS
    <3> HIDE DEF g
    <3>. QED
      BY <2>3, <3>1 DEF IsAnswersTable
  <2>. QED
    BY <2>2, <2>4
<1>3. 0..b \subseteq S
  <2> HIDE DEF S
  <2>. QED
    BY <1>1, <1>2, Induction
<1>. QED
  BY <1>3

\* What the types a and b are made of is asked about one level down.
Inner(n) == IF n = 0 THEN << >> ELSE CompatibleUpTo[n - 1]

\* CompatibleUpTo is that table.
LEMMA CompatibleAt ==
  ASSUME NEW n \in 0..TypeDepth, NEW a \in TypesUpTo[n], NEW b \in TypesUpTo[n]
  PROVE  CompatibleUpTo[n][<< a, b >>] = CompositeType(a, b, Inner(n))
<1>1. CompatibleUpTo = CHOOSE C : IsAnswersTable(C, TypeDepth)
  BY Zenon DEF CompatibleUpTo, IsAnswersTable, AnswersRow
<1>2. IsAnswersTable(CompatibleUpTo, TypeDepth)
  BY <1>1, UniverseFacts, AnswersTablesExist
<1>3. CompatibleUpTo[n] = AnswersRow(n, Inner(n))
  BY <1>2 DEF IsAnswersTable, Inner
<1>. QED
  BY <1>3 DEF AnswersRow

\* NoType and AssertFails are no types.
LEMMA NoTypes ==
  /\ \A n \in 0..TypeDepth : NoType \notin TypesUpTo[n] /\ AssertFails \notin TypesUpTo[n]
                             /\ Bare \notin TypesUpTo[n]
  /\ NoType # AssertFails /\ NoType # Bare /\ Bare # AssertFails
<1>1. NoType # AssertFails /\ NoType # Bare /\ Bare # AssertFails
  BY DEF NoType, AssertFails, Bare
<1>2. ASSUME NEW n \in 0..TypeDepth PROVE NoType \notin TypesUpTo[n]
  BY Kinds DEF NoType
<1>3. ASSUME NEW n \in 0..TypeDepth PROVE AssertFails \notin TypesUpTo[n]
  BY Kinds DEF AssertFails
<1>4. ASSUME NEW n \in 0..TypeDepth PROVE Bare \notin TypesUpTo[n]
  BY Kinds DEF Bare
<1>. QED
  BY <1>1, <1>2, <1>3, <1>4

\* An array that is given another static, or other qualifiers.
ArrayOf(t, n, s, q) == [basic |-> "ARRAY", to |-> t, size |-> n, static |-> s, q |-> q]
WithStatic(t, s)    == [t EXCEPT !.static = s]
\* It is the array that is built so.
LEMMA ArrayFields ==
  ASSUME NEW t, NEW n, NEW s, NEW q, NEW x
  PROVE  /\ WithStatic(ArrayOf(t, n, s, q), x) = ArrayOf(t, n, x, q)
         /\ Qualify(ArrayOf(t, n, s, q), x) = ArrayOf(t, n, s, x)
<1>1. WithStatic(ArrayOf(t, n, s, q), x) = ArrayOf(t, n, x, q)
  BY DEF ArrayOf, WithStatic
<1>2. Qualify(ArrayOf(t, n, s, q), x) = ArrayOf(t, n, s, x)
  BY DEF ArrayOf, Qualify
<1>. QED
  BY <1>1, <1>2

\* The answer c about a pointer or array a.
PointerAnswer(n, a, b, inner, c) ==
    /\ n \in 1..TypeDepth /\ a.to \in TypesUpTo[n - 1]
    /\ ~PointsTo(b) \/ a.q # b.q => c = NoType
    /\ PointsTo(b) /\ a.q = b.q =>
          /\ b.to \in TypesUpTo[n - 1]
          /\ ~IsType(inner[<< a.to, b.to >>]) => c = inner[<< a.to, b.to >>]
          /\ IsType(inner[<< a.to, b.to >>]) =>
                \/ c = [basic |-> "POINTER", to |-> inner[<< a.to, b.to >>], q |-> a.q]
                \/ \E k \in Int, s \in BOOLEAN :
                      c = [basic |-> "ARRAY", to |-> inner[<< a.to, b.to >>], size |-> k,
                           static |-> s, q |-> a.q]
                \/ c = NoType
    /\ PointsTo(b) /\ a.q = b.q /\ IsType(inner[<< a.to, b.to >>]) =>
          (c = NoType <=> /\ a.basic = "ARRAY" /\ b.basic = "ARRAY"
                          /\ ~(a.size < 0 \/ b.size < 0 \/ a.size = b.size))

\* What is answered about two pointers or arrays, from the answer for what they
\* point to.
LEMMA PointerAnswers ==
  ASSUME NEW n \in 0..TypeDepth, NEW a \in TypesUpTo[n], NEW b \in TypesUpTo[n], NEW inner,
         PointsTo(a)
  PROVE  PointerAnswer(n, a, b, inner, CompositeType(a, b, inner))
<1> DEFINE c == CompositeType(a, b, inner)
<1> SUFFICES PointerAnswer(n, a, b, inner, c)
  OBVIOUS
<1> HIDE DEF c
<1>1. n \in 1..TypeDepth /\ a.to \in TypesUpTo[n - 1] /\ a.q \in SUBSET Qualifiers
  BY Kinds DEF PointsTo
<1>2. PointsTo(b) => b.to \in TypesUpTo[n - 1]
  BY Kinds DEF PointsTo
<1> DEFINE x == inner[<< a.to, b.to >>]
<1>3. CompatiblePointer(a, b, inner) =
         IF ~PointsTo(b) \/ a.q # b.q THEN NoType
         ELSE IF IsType(x) THEN [basic |-> "POINTER", to |-> x, q |-> a.q] ELSE x
  BY DEF CompatiblePointer, SameQualifiers, POINTER, Qualify
<1>6. [basic |-> "POINTER", to |-> x, q |-> a.q] # NoType
  BY DEF NoType
<1>4. CASE a.basic = "POINTER"
  <2>1. c = CompatiblePointer(a, b, inner)
    BY <1>4 DEF c, CompositeType
  <2> HIDE DEF x
  <2>. QED
    BY <1>1, <1>2, <1>3, <1>4, <1>6, <2>1 DEF x, PointerAnswer
<1>5. CASE a.basic = "ARRAY"
  <2>1. c = CompatibleArray(a, b, inner)
    BY <1>5 DEF c, CompositeType
  <2>2. a.size \in Int /\ a.static \in BOOLEAN
    BY <1>5, Kinds
  <2>3. CASE b.basic # "ARRAY" \/ a.q # b.q
    <3>1. c = CompatiblePointer(a, b, inner)
      BY <2>1, <2>3 DEF CompatibleArray, SameQualifiers
    <3> HIDE DEF x
    <3>. QED
      BY <1>1, <1>2, <1>3, <1>6, <2>3, <3>1 DEF x, PointerAnswer
  <2>4. CASE b.basic = "ARRAY" /\ a.q = b.q
    <3>1. b.size \in Int /\ b.static \in BOOLEAN /\ PointsTo(b)
      BY <2>4, Kinds DEF PointsTo
    <3>2. CompositeSize(a, b) \in Int
      BY <2>2, <3>1 DEF CompositeSize, NoSize
    <3> DEFINE w == [basic |-> "ARRAY", to |-> x, size |-> CompositeSize(a, b),
                     static |-> (a.static /\ b.static), q |-> a.q]
    <3>3. c = IF ~IsType(x) THEN x
              ELSE IF a.size < 0 \/ b.size < 0 \/ a.size = b.size THEN w ELSE NoType
      <4> DEFINE k == CompositeSize(a, b)
                 st == a.static /\ b.static
      <4>0. PICK f : ARRAY(x, k) = ArrayOf(x, k, f, {})
        <5>1. ARRAY(x, k) = ArrayOf(x, k, FALSE, {})
          BY Zenon DEF ARRAY, ArrayOf
        <5>. QED
          BY <5>1, Zenon
      <4>3. c = IF ~IsType(x) THEN x
                ELSE IF a.size < 0 \/ b.size < 0 \/ a.size = b.size
                     THEN Qualify(WithStatic(ARRAY(x, k), st), a.q) ELSE NoType
        BY <2>1, <2>4, Zenon DEF CompatibleArray, SameQualifiers, Provided, WithStatic
      <4>4. w = ArrayOf(x, k, st, a.q)
        BY Zenon DEF ArrayOf
      <4> HIDE DEF k, st, x, w
      <4>1. WithStatic(ArrayOf(x, k, f, {}), st) = ArrayOf(x, k, st, {})
        BY ArrayFields
      <4>2. Qualify(ArrayOf(x, k, st, {}), a.q) = ArrayOf(x, k, st, a.q)
        BY ArrayFields
      <4>. QED
        BY <4>0, <4>1, <4>2, <4>3, <4>4, Zenon
    <3>4. (a.static /\ b.static) \in BOOLEAN
      BY <2>2, <3>1
    <3>5. IsType(x) => w = [basic |-> "ARRAY", to |-> inner[<< a.to, b.to >>], size |-> CompositeSize(a, b),
                     static |-> (a.static /\ b.static), q |-> a.q]
      OBVIOUS
    <3>6. w # NoType
      BY DEF NoType
    <3>. HIDE DEF w, x
    <3>. QED
      BY <1>1, <1>2, <1>5, <2>4, <3>1, <3>2, <3>3, <3>4, <3>5, <3>6 DEF x, IsType, PointerAnswer
  <2>. QED
    BY <2>3, <2>4
<1>. QED
  BY <1>4, <1>5 DEF PointsTo, PointerAnswer

\* The parameters of two functions are compatible one by one.
ParamsAgree(a, b, inner) ==
    /\ a.variadic = b.variadic /\ Len(a.params) = Len(b.params)
    /\ \A i \in DOMAIN a.params : IsType(inner[<< a.params[i], b.params[i] >>])

\* The answer c about a function a.
FunctionAnswer(n, a, b, inner, c) ==
    /\ b.basic # "FUNCTION" => c = NoType
    /\ b.basic = "FUNCTION" /\ ~IsType(inner[<< a.ret, b.ret >>]) =>
          c = inner[<< a.ret, b.ret >>]
    /\ b.basic = "FUNCTION" /\ IsType(inner[<< a.ret, b.ret >>]) =>
          \/ c = b /\ ~Prototyped(a)
          \/ c = FUNCTION(a.ret, a.params, a.variadic) /\ ~Prototyped(b)
          \/ c = NoType /\ Prototyped(a) /\ Prototyped(b) /\ ~ParamsAgree(a, b, inner)
          \/ /\ Prototyped(a) /\ Prototyped(b) /\ ParamsAgree(a, b, inner)
             /\ c = FUNCTION(inner[<< a.ret, b.ret >>],
                             [i \in DOMAIN a.params |->
                                 inner[<< a.params[i], b.params[i] >>]], FALSE)

\* What is answered about two functions, from the answers for what they return
\* and take.
LEMMA FunctionAnswers ==
  ASSUME NEW n \in 0..TypeDepth, NEW a \in TypesUpTo[n], NEW b \in TypesUpTo[n], NEW inner,
         a.basic = "FUNCTION"
  PROVE  FunctionAnswer(n, a, b, inner, CompositeType(a, b, inner))
<1> DEFINE c == CompositeType(a, b, inner)
<1> SUFFICES FunctionAnswer(n, a, b, inner, c)
  OBVIOUS
<1> HIDE DEF c
<1>1. c = CompatibleFunction(a, b, inner)
  BY DEF c, CompositeType
<1> DEFINE r == inner[<< a.ret, b.ret >>]
           ps == [i \in DOMAIN a.params |-> inner[<< a.params[i], b.params[i] >>]]
<1>2. c = IF b.basic # "FUNCTION" THEN NoType
          ELSE IF ~IsType(r) THEN r
          ELSE IF ~Prototyped(a) THEN b
          ELSE IF ~Prototyped(b) THEN FUNCTION(a.ret, a.params, a.variadic)
          ELSE IF a.variadic # b.variadic \/ Len(a.params) # Len(b.params) THEN NoType
          ELSE IF \A i \in DOMAIN ps : IsType(ps[i]) THEN FUNCTION(r, ps, FALSE) ELSE NoType
  BY <1>1, Zenon DEF CompatibleFunction, Provided
<1>3. (\A i \in DOMAIN ps : IsType(ps[i])) <=>
         \A i \in DOMAIN a.params : IsType(inner[<< a.params[i], b.params[i] >>])
  OBVIOUS
<1>4. (a.variadic # b.variadic \/ Len(a.params) # Len(b.params))
      \/ ~(\A i \in DOMAIN ps : IsType(ps[i])) <=> ~ParamsAgree(a, b, inner)
  BY <1>3, Zenon DEF ParamsAgree
<1> HIDE DEF r, ps
<1>5. /\ b.basic # "FUNCTION" => c = NoType
      /\ b.basic = "FUNCTION" /\ ~IsType(r) => c = r
      /\ b.basic = "FUNCTION" /\ IsType(r) =>
               \/ c = b /\ ~Prototyped(a)
               \/ c = FUNCTION(a.ret, a.params, a.variadic) /\ ~Prototyped(b)
               \/ c = NoType /\ Prototyped(a) /\ Prototyped(b) /\ ~ParamsAgree(a, b, inner)
               \/ /\ Prototyped(a) /\ Prototyped(b) /\ ParamsAgree(a, b, inner)
                  /\ c = FUNCTION(r, ps, FALSE)
  BY <1>2, <1>4
<1>. QED
  BY <1>5, Zenon DEF r, ps, FunctionAnswer

\* The answer c about a type a that is made of no others.
BasicAnswer(n, a, b, inner, c) ==
    /\ c \in {NoType, AssertFails, b} \/ (c = ResetQualifies(a) /\ a.basic = "INT")
    /\ IsType(c) =>
          /\ b.basic = a.basic \/ {a.basic, b.basic} = {"INT", "ENUM"}
          /\ a.basic # "VOID" => a.q = b.q
          /\ c = b \/ b.basic = "ENUM"
    /\ c = AssertFails <=> /\ a.basic = "ENUM" /\ b.basic = "ENUM" /\ a.q = b.q
                           /\ NoId \in {a.id, b.id}

\* The answers about the types that are made of no others.
LEMMA BasicAnswers ==
  ASSUME NEW n \in 0..TypeDepth, NEW a \in TypesUpTo[n], NEW b \in TypesUpTo[n], NEW inner,
         a.basic \in {"STRUCT", "UNION", "ENUM", "VOID", "INT", "FLOAT"}
  PROVE  BasicAnswer(n, a, b, inner, CompositeType(a, b, inner))
<1> DEFINE c == CompositeType(a, b, inner)
<1> SUFFICES BasicAnswer(n, a, b, inner, c)
  OBVIOUS
<1> HIDE DEF c
<1>1. \A t \in {a, b} : t # NoType /\ t # AssertFails /\ IsType(t)
  BY NoTypes DEF IsType
<1>2. NoType # AssertFails
  BY NoTypes
<1>3. CASE a.basic \in {"STRUCT", "UNION", "VOID", "FLOAT"}
  BY <1>1, <1>2, <1>3
  DEF c, CompositeType, CompatibleStruct, CompatibleUnion, CompatibleVoid, CompatibleFloat,
      Provided, SameQualifiers, IsType, BasicAnswer
<1>4. CASE a.basic = "ENUM"
  BY <1>1, <1>2, <1>4 DEF c, CompositeType, CompatibleEnum, Provided, SameQualifiers, IsType, IsEnumInt,
      BasicAnswer
<1>5. CASE a.basic = "INT"
  <2>1. ResetQualifies(a) \in [basic : {"INT"}, size : Nat, unsigned : BOOLEAN, q : SUBSET Qualifiers]
    BY <1>5, Kinds DEF ResetQualifies
  <2>2. ResetQualifies(a) # NoType /\ ResetQualifies(a) # AssertFails
    BY <2>1 DEF NoType, AssertFails
  <2>. QED
    BY <1>1, <1>2, <1>5, <2>2 DEF c, CompositeType, CompatibleInt, Provided, SameQualifiers, IsType,
        BasicAnswer
<1>. QED
  BY <1>3, <1>4, <1>5

\* A composite is a type nested no deeper than the two it is of.
LEMMA CompositeTyped ==
  ASSUME NEW n \in 0..TypeDepth, NEW a \in TypesUpTo[n], NEW b \in TypesUpTo[n]
  PROVE  CompatibleUpTo[n][<< a, b >>] \in TypesUpTo[n] \cup {NoType, AssertFails}
<1> DEFINE Answer_(k, u, v) == CompatibleUpTo[k][<< u, v >>]
           Good(k) == \A u, v \in TypesUpTo[k] :
                         Answer_(k, u, v) \in TypesUpTo[k] \cup {NoType, AssertFails}
           S == {k \in 0..TypeDepth : Good(k)}
<1>0. TypeDepth \in Nat
  BY TypesAssumption
<1>1. ASSUME NEW k \in 0..TypeDepth, k # 0 => Good(k - 1), NEW u \in TypesUpTo[k],
             NEW v \in TypesUpTo[k]
      PROVE  Answer_(k, u, v) \in TypesUpTo[k] \cup {NoType, AssertFails}
  <2> DEFINE c == Answer_(k, u, v)
  <2>1. c = CompositeType(u, v, Inner(k))
    BY CompatibleAt
  <2>2. k # 0 => \A x, y \in TypesUpTo[k - 1] :
                    Inner(k)[<< x, y >>] \in TypesUpTo[k - 1] \cup {NoType, AssertFails}
    BY <1>1 DEF Inner
  <2>3. CASE u.basic \in {"STRUCT", "UNION", "ENUM", "VOID", "INT", "FLOAT"}
    <3>1. u.basic = "INT" => ResetQualifies(u) \in TypesUpTo[k]
      <4>1. Qualify(u, {}) = ResetQualifies(u)
        BY DEF Qualify, ResetQualifies
      <4>. QED
        BY <4>1, Requalified
    <3>2. BasicAnswer(k, u, v, Inner(k), c)
      BY <2>1, <2>3, BasicAnswers
    <3> HIDE DEF c
    <3>. QED
      BY <3>1, <3>2 DEF c, BasicAnswer
  <2>4. CASE PointsTo(u)
    <3>0. PointerAnswer(k, u, v, Inner(k), c)
      BY <2>1, <2>4, PointerAnswers
    <3> HIDE DEF c
    <3>1. k \in 1..TypeDepth /\ u.to \in TypesUpTo[k - 1] /\ u.q \in SUBSET Qualifiers
      BY <3>0, Kinds DEF PointerAnswer
    <3>2. CASE ~PointsTo(v) \/ u.q # v.q
      <4>1. c = NoType
        BY <3>0, <3>2 DEF PointerAnswer
      <4>. QED
        BY <4>1 DEF c
    <3>3. CASE PointsTo(v) /\ u.q = v.q
      <4> DEFINE x == Inner(k)[<< u.to, v.to >>]
      <4>1. v.to \in TypesUpTo[k - 1]
        BY <3>0, <3>3 DEF PointerAnswer
      <4>2. x \in TypesUpTo[k - 1] \cup {NoType, AssertFails}
        BY <2>2, <3>1, <4>1
      <4>3. /\ ~IsType(x) => c = x
            /\ IsType(x) =>
                     \/ c = [basic |-> "POINTER", to |-> x, q |-> u.q]
                     \/ \E i \in Int, s \in BOOLEAN :
                           c = [basic |-> "ARRAY", to |-> x, size |-> i, static |-> s, q |-> u.q]
                     \/ c = NoType
        BY <3>0, <3>3 DEF PointerAnswer
      <4> HIDE DEF x
      <4>4. CASE ~IsType(x)
        BY <4>2, <4>3, <4>4 DEF IsType, c
      <4>5. CASE IsType(x)
        <5>1. x \in TypesUpTo[k - 1]
          BY <4>2, <4>5 DEF IsType
        <5>2. [basic |-> "POINTER", to |-> x, q |-> u.q] \in TypesUpTo[k]
          BY <3>1, <5>1, Builds
        <5>3. \A i \in Int, s \in BOOLEAN :
                 [basic |-> "ARRAY", to |-> x, size |-> i, static |-> s, q |-> u.q] \in TypesUpTo[k]
          BY <3>1, <5>1, Builds
        <5>4. c \in TypesUpTo[k] \cup {NoType}
          BY <4>3, <4>5, <5>2, <5>3, Zenon
        <5>. QED
          BY <5>4 DEF c
      <4>. QED
        BY <4>4, <4>5
    <3>. QED
      BY <3>2, <3>3
  <2>5. CASE u.basic = "FUNCTION"
    <3>0. FunctionAnswer(k, u, v, Inner(k), c)
      BY <2>1, <2>5, FunctionAnswers
    <3> HIDE DEF c
    <3>1. k \in 1..TypeDepth /\ u.ret \in TypesUpTo[k - 1] /\ u.params \in Seq(TypesUpTo[k - 1])
          /\ u.variadic \in BOOLEAN
      BY <2>5, Kinds
    <3>2. CASE v.basic # "FUNCTION"
      <4>1. c = NoType
        BY <3>0, <3>2 DEF FunctionAnswer
      <4>. QED
        BY <4>1 DEF c
    <3>3. CASE v.basic = "FUNCTION"
      <4> DEFINE r == Inner(k)[<< u.ret, v.ret >>]
                 ps == [i \in DOMAIN u.params |-> Inner(k)[<< u.params[i], v.params[i] >>]]
      <4>1. v.ret \in TypesUpTo[k - 1] /\ v.params \in Seq(TypesUpTo[k - 1])
        BY <3>3, Kinds
      <4>2. r \in TypesUpTo[k - 1] \cup {NoType, AssertFails}
        BY <2>2, <3>1, <4>1
      <4>3. /\ ~IsType(r) => c = r
            /\ IsType(r) => \/ c = v
                            \/ c = FUNCTION(u.ret, u.params, u.variadic)
                            \/ c = NoType
                            \/ ParamsAgree(u, v, Inner(k)) /\ c = FUNCTION(r, ps, FALSE)
        BY <3>0, <3>3 DEF FunctionAnswer
      <4>4. ASSUME ParamsAgree(u, v, Inner(k)) PROVE ps \in Seq(TypesUpTo[k - 1])
        <5>1. Len(u.params) = Len(v.params) /\ \A i \in DOMAIN u.params : IsType(ps[i])
          BY <4>4 DEF ParamsAgree
        <5>2. \A i \in DOMAIN u.params : u.params[i] \in TypesUpTo[k - 1] /\ v.params[i] \in TypesUpTo[k - 1]
          BY <3>1, <4>1, <5>1
        <5>3. ASSUME NEW i \in DOMAIN u.params PROVE ps[i] \in TypesUpTo[k - 1]
          <6>1. Inner(k)[<< u.params[i], v.params[i] >>] \in TypesUpTo[k - 1] \cup {NoType, AssertFails}
            BY <2>2, <3>1, <5>2
          <6>. QED
            BY <5>1, <6>1 DEF IsType
        <5>4. ps = [i \in 1..Len(u.params) |-> ps[i]] /\ Len(u.params) \in Nat
              /\ DOMAIN u.params = 1..Len(u.params)
          BY <3>1
        <5> HIDE DEF ps
        <5>5. ps \in [1..Len(u.params) -> TypesUpTo[k - 1]]
          BY <5>3, <5>4
        <5>. QED
          BY <5>4, <5>5, SeqDef
      <4> HIDE DEF r, ps
      <4>5. CASE ~IsType(r)
        BY <4>2, <4>3, <4>5 DEF IsType, c
      <4>6. CASE IsType(r)
        <5>1. r \in TypesUpTo[k - 1]
          BY <4>2, <4>6 DEF IsType
        <5>2. FUNCTION(u.ret, u.params, u.variadic) \in TypesUpTo[k]
          BY <3>1, Builds
        <5>3. ParamsAgree(u, v, Inner(k)) => FUNCTION(r, ps, FALSE) \in TypesUpTo[k]
          BY <3>1, <4>4, <5>1, Builds
        <5>. QED
          BY <4>3, <4>6, <5>2, <5>3 DEF c
      <4>. QED
        BY <4>5, <4>6
    <3>. QED
      BY <3>2, <3>3
  <2>. QED
    BY <2>3, <2>4, <2>5, Kinds DEF PointsTo
<1>2. ASSUME NEW k \in 0..TypeDepth, k # 0 => Good(k - 1) PROVE Good(k)
  BY <1>1, <1>2
<1> HIDE DEF Good
<1>3. 0 \in S
  BY <1>0, <1>2
<1>4. ASSUME NEW k \in S, k \in 0..TypeDepth, k + 1 <= TypeDepth PROVE k + 1 \in S
  <2>1. k + 1 \in 0..TypeDepth /\ (k + 1) - 1 = k /\ Good(k)
    BY <1>0, <1>4
  <2>2. Good(k + 1)
    BY <1>2, <2>1
  <2>. QED
    BY <2>1, <2>2
<1>5. 0..TypeDepth \subseteq S
  <2> HIDE DEF S
  <2>. QED
    BY <1>0, <1>3, <1>4, Induction
<1>. QED
  BY <1>5 DEF Good

\* Where both types, and the composite, say the same of their objects.
SameConsts(n, a, b, c) ==
    /\ ConstsUpTo[n][a] = ConstsUpTo[n][b]
    /\ NoConst(EnumQualifiers) => ConstsUpTo[n][c] = ConstsUpTo[n][a]

\* Two compatible types say the same of the objects, unless void is const, and the
\* composite says it too, unless enums are.
LEMMA CompositeConsts ==
  ASSUME NEW n \in 0..TypeDepth, NEW a \in TypesUpTo[n], NEW b \in TypesUpTo[n],
         NoConst(VoidQualifiers), IsType(CompatibleUpTo[n][<< a, b >>])
  PROVE  SameConsts(n, a, b, CompatibleUpTo[n][<< a, b >>])
<1> DEFINE C(k, u, v) == CompatibleUpTo[k][<< u, v >>]
           Good(k) == \A u, v \in TypesUpTo[k] : IsType(C(k, u, v)) => SameConsts(k, u, v, C(k, u, v))
           S == {k \in 0..TypeDepth : Good(k)}
<1>0. TypeDepth \in Nat
  BY TypesAssumption
<1>1. ASSUME NEW k \in 0..TypeDepth, k # 0 => Good(k - 1), NEW u \in TypesUpTo[k],
             NEW v \in TypesUpTo[k], IsType(C(k, u, v))
      PROVE  SameConsts(k, u, v, C(k, u, v))
  <2> DEFINE c == C(k, u, v)
  <2>1. c = CompositeType(u, v, Inner(k))
    BY CompatibleAt
  <2>2. c \in TypesUpTo[k]
    BY <1>1, CompositeTyped DEF IsType
  <2>3. ASSUME NEW t \in TypesUpTo[k], ~PointsTo(t)
        PROVE  ConstsUpTo[k][t] = << "const" \in t.q >>
    <3>1. ConstsUpTo[k][t] = << "const" \in t.q >> \o << >>
      BY <2>3, ConstsAt
    <3>. QED
      BY <3>1
  <2>4. CASE u.basic \in {"STRUCT", "UNION", "ENUM", "VOID", "INT", "FLOAT"}
    <3>1. BasicAnswer(k, u, v, Inner(k), c)
      BY <2>1, <2>4, BasicAnswers
    <3>2. IsType(c)
      BY <1>1
    <3> HIDE DEF c
    <3>3. ~PointsTo(u) /\ ~PointsTo(v) /\ ~PointsTo(c)
      <4>1. u.basic = "INT" => ResetQualifies(u).basic = "INT"
        BY Kinds DEF ResetQualifies
      <4>. QED
        BY <2>4, <3>1, <3>2, <4>1 DEF BasicAnswer, PointsTo, IsType
    <3>4. ("const" \in u.q) = ("const" \in v.q)
      <4>1. CASE u.basic = "VOID"
        <5>1. v.basic = "VOID"
          BY <3>1, <3>2, <4>1 DEF BasicAnswer
        <5>2. u.q \in VoidQualifiers /\ v.q \in VoidQualifiers
          BY <4>1, <5>1, Kinds
        <5>. QED
          BY <5>2 DEF NoConst
      <4>2. CASE u.basic # "VOID"
        BY <3>1, <3>2, <4>2 DEF BasicAnswer
      <4>. QED
        BY <4>1, <4>2
    <3>5. ASSUME NoConst(EnumQualifiers) PROVE ("const" \in c.q) = ("const" \in v.q)
      <4>1. CASE v.basic = "ENUM"
        <5>1. v.q \in EnumQualifiers
          BY <4>1, Kinds
        <5>2. c = v \/ (c = ResetQualifies(u) /\ u.basic = "INT")
          BY <3>1, <3>2 DEF BasicAnswer, IsType
        <5>3. u.basic = "INT" => ResetQualifies(u).q = {}
          BY Kinds DEF ResetQualifies
        <5>. QED
          BY <3>5, <5>1, <5>2, <5>3 DEF NoConst
      <4>2. CASE v.basic # "ENUM"
        BY <3>1, <3>2, <4>2 DEF BasicAnswer
      <4>. QED
        BY <4>1, <4>2
    <3>6. /\ ConstsUpTo[k][u] = << "const" \in u.q >>
          /\ ConstsUpTo[k][v] = << "const" \in v.q >>
          /\ ConstsUpTo[k][c] = << "const" \in c.q >>
      BY <2>2, <2>3, <3>3 DEF c
    <3>. QED
      BY <3>4, <3>5, <3>6 DEF SameConsts, c
  <2>5. CASE PointsTo(u)
    <3>0. PointerAnswer(k, u, v, Inner(k), c)
      BY <2>1, <2>5, PointerAnswers
    <3>1. IsType(c)
      BY <1>1
    <3> HIDE DEF c
    <3> DEFINE x == Inner(k)[<< u.to, v.to >>]
    <3>2. PointsTo(v) /\ u.q = v.q
      BY <3>0, <3>1 DEF PointerAnswer, IsType
    <3>3. k \in 1..TypeDepth /\ u.to \in TypesUpTo[k - 1] /\ v.to \in TypesUpTo[k - 1]
          /\ (~IsType(x) => c = x)
      BY <3>0, <3>2 DEF PointerAnswer
    <3>4. IsType(x) /\ k # 0 /\ x = C(k - 1, u.to, v.to)
      BY <3>1, <3>3 DEF Inner
    <3>5. SameConsts(k - 1, u.to, v.to, x)
      BY <1>1, <3>3, <3>4
    <3>6. \/ c = [basic |-> "POINTER", to |-> x, q |-> u.q]
          \/ \E i \in Int, s \in BOOLEAN :
                c = [basic |-> "ARRAY", to |-> x, size |-> i, static |-> s, q |-> u.q]
      BY <3>0, <3>1, <3>2, <3>4 DEF PointerAnswer, IsType
    <3> HIDE DEF x
    <3>7. PointsTo(c) /\ c.to = x /\ c.q = u.q
      BY <3>6 DEF PointsTo
    <3>8. /\ ConstsUpTo[k][u] = << "const" \in u.q >> \o ConstsUpTo[k - 1][u.to]
          /\ ConstsUpTo[k][v] = << "const" \in v.q >> \o ConstsUpTo[k - 1][v.to]
          /\ ConstsUpTo[k][c] = << "const" \in c.q >> \o ConstsUpTo[k - 1][c.to]
      BY <2>2, <2>5, <3>2, <3>7, ConstsAt DEF c
    <3>. QED
      BY <3>2, <3>5, <3>7, <3>8 DEF SameConsts, c
  <2>6. CASE u.basic = "FUNCTION"
    <3>0. FunctionAnswer(k, u, v, Inner(k), c)
      BY <2>1, <2>6, FunctionAnswers
    <3>1. IsType(c)
      BY <1>1
    <3> HIDE DEF c
    <3>2. v.basic = "FUNCTION"
      BY <3>0, <3>1 DEF FunctionAnswer, IsType
    <3>3. c.basic = "FUNCTION"
      <4> DEFINE r == Inner(k)[<< u.ret, v.ret >>]
      <4>1. IsType(r)
        BY <3>0, <3>1, <3>2 DEF FunctionAnswer
      <4>2. \/ c = v
            \/ c = FUNCTION(u.ret, u.params, u.variadic)
            \/ c = NoType
            \/ \E p : c = FUNCTION(r, p, FALSE)
        BY <3>0, <3>2, <4>1, Zenon DEF FunctionAnswer
      <4> HIDE DEF r
      <4>. QED
        BY <3>1, <3>2, <4>2 DEF FUNCTION, IsType
    <3>4. u.q = {} /\ v.q = {} /\ c.q = {}
      BY <2>2, <2>6, <3>2, <3>3, Kinds DEF c
    <3>5. ~PointsTo(u) /\ ~PointsTo(v) /\ ~PointsTo(c)
      BY <2>6, <3>2, <3>3 DEF PointsTo
    <3>6. /\ ConstsUpTo[k][u] = << "const" \in u.q >>
          /\ ConstsUpTo[k][v] = << "const" \in v.q >>
          /\ ConstsUpTo[k][c] = << "const" \in c.q >>
      BY <2>2, <2>3, <3>5 DEF c
    <3>. QED
      BY <3>4, <3>6 DEF SameConsts, c
  <2>. QED
    BY <2>4, <2>5, <2>6, Kinds DEF PointsTo
<1>2. ASSUME NEW k \in 0..TypeDepth, k # 0 => Good(k - 1) PROVE Good(k)
  BY <1>1, <1>2
<1> HIDE DEF Good
<1>3. 0 \in S
  BY <1>0, <1>2
<1>4. ASSUME NEW k \in S, k \in 0..TypeDepth, k + 1 <= TypeDepth PROVE k + 1 \in S
  <2>1. k + 1 \in 0..TypeDepth /\ (k + 1) - 1 = k /\ Good(k)
    BY <1>0, <1>4
  <2>2. Good(k + 1)
    BY <1>2, <2>1
  <2>. QED
    BY <2>1, <2>2
<1>5. 0..TypeDepth \subseteq S
  <2> HIDE DEF S
  <2>. QED
    BY <1>0, <1>3, <1>4, Induction
<1>. QED
  BY <1>5 DEF Good


------------------------------------------------------------------------------
(* Both orders of two types *)

\* Both answers are types, or they are the same.
Alike(c, d) == c = d \/ (IsType(c) /\ IsType(d))

Simple == {"STRUCT", "UNION", "ENUM", "VOID", "INT", "FLOAT"}

\* In both orders, types that are made of no others have the same answer.
LEMMA BasicBothOrders ==
  ASSUME NEW n \in 0..TypeDepth, NEW a \in TypesUpTo[n], NEW b \in TypesUpTo[n], NEW i, NEW j,
         a.basic \in Simple, b.basic \in Simple
  PROVE  Alike(CompositeType(a, b, i), CompositeType(b, a, j))
<1>1. IsType(a) /\ IsType(b)
  BY NoTypes DEF IsType
<1>2. ASSUME NEW t \in {a, b}, t.basic = "INT" PROVE IsType(ResetQualifies(t))
  <2>1. ResetQualifies(t) \in [basic : {"INT"}, size : Nat, unsigned : BOOLEAN, q : SUBSET Qualifiers]
    BY <1>2, Kinds DEF ResetQualifies
  <2>. QED
    BY <2>1 DEF IsType, NoType, AssertFails
<1> DEFINE R(t) == ResetQualifies(t)
<1> HIDE DEF R
<1>3. CompositeType(a, b, i) =
        CASE a.basic = "STRUCT"  -> CompatibleStruct(a, b)
          [] a.basic = "UNION"   -> CompatibleUnion(a, b)
          [] a.basic = "ENUM"    -> CompatibleEnum(a, b)
          [] a.basic = "VOID"    -> CompatibleVoid(a, b)
          [] a.basic = "INT"     -> CompatibleInt(a, b)
          [] a.basic = "FLOAT"   -> CompatibleFloat(a, b)
  BY DEF CompositeType, Simple
<1>4. CompositeType(b, a, j) =
        CASE b.basic = "STRUCT"  -> CompatibleStruct(b, a)
          [] b.basic = "UNION"   -> CompatibleUnion(b, a)
          [] b.basic = "ENUM"    -> CompatibleEnum(b, a)
          [] b.basic = "VOID"    -> CompatibleVoid(b, a)
          [] b.basic = "INT"     -> CompatibleInt(b, a)
          [] b.basic = "FLOAT"   -> CompatibleFloat(b, a)
  BY DEF CompositeType, Simple
<1>5. CASE a.basic \in {"STRUCT", "UNION", "VOID"}
  BY <1>1, <1>3, <1>4, <1>5 DEF Simple, CompatibleStruct, CompatibleUnion, CompatibleVoid,
      CompatibleEnum, CompatibleInt, CompatibleFloat, Provided, SameQualifiers, Alike, IsEnumInt
<1>6. CASE a.basic = "FLOAT"
  BY <1>1, <1>3, <1>4, <1>6 DEF Simple, CompatibleStruct, CompatibleUnion, CompatibleVoid,
      CompatibleEnum, CompatibleInt, CompatibleFloat, Provided, SameQualifiers, Alike, IsEnumInt
<1>7. CASE a.basic = "ENUM"
  <2>1. CASE b.basic \in {"STRUCT", "UNION", "VOID", "FLOAT"}
    BY <1>3, <1>4, <1>7, <2>1 DEF CompatibleStruct, CompatibleUnion, CompatibleVoid,
        CompatibleEnum, CompatibleFloat, Provided, SameQualifiers, Alike, IsEnumInt
  <2>2. CASE b.basic = "ENUM"
    BY <1>1, <1>3, <1>4, <1>7, <2>2 DEF CompatibleEnum, Provided, SameQualifiers, Alike
  <2>3. CASE b.basic = "INT"
    BY <1>1, <1>2, <1>3, <1>4, <1>7, <2>3 DEF CompatibleEnum, CompatibleInt, Provided,
        SameQualifiers, Alike
  <2>. QED
    BY <2>1, <2>2, <2>3 DEF Simple
<1>8. CASE a.basic = "INT"
  <2>1. CASE b.basic \in {"STRUCT", "UNION", "VOID", "FLOAT"}
    BY <1>3, <1>4, <1>8, <2>1 DEF CompatibleStruct, CompatibleUnion, CompatibleVoid,
        CompatibleInt, CompatibleFloat, Provided, SameQualifiers, Alike
  <2>2. CASE b.basic = "ENUM"
    BY <1>1, <1>2, <1>3, <1>4, <1>8, <2>2 DEF CompatibleEnum, CompatibleInt, Provided,
        SameQualifiers, Alike
  <2>3. CASE b.basic = "INT"
    BY <1>1, <1>3, <1>4, <1>8, <2>3 DEF CompatibleInt, Provided, SameQualifiers, Alike
  <2>. QED
    BY <2>1, <2>2, <2>3 DEF Simple
<1>. QED
  BY <1>5, <1>6, <1>7, <1>8 DEF Simple


\* No answer but NoType about a type made of no others and one that is.
LEMMA BasicAndOther ==
  ASSUME NEW n \in 0..TypeDepth, NEW a \in TypesUpTo[n], NEW b \in TypesUpTo[n], NEW i, NEW j,
         a.basic \in Simple, b.basic \notin Simple
  PROVE  CompositeType(a, b, i) = NoType /\ CompositeType(b, a, j) = NoType
<1> DEFINE c == CompositeType(a, b, i)
<1>1. c = NoType
  <2>1. BasicAnswer(n, a, b, i, c)
    BY BasicAnswers DEF Simple
  <2> HIDE DEF c
  <2>2. ~IsType(c)
    BY <2>1 DEF BasicAnswer, Simple
  <2>3. c # AssertFails
    BY <2>1 DEF BasicAnswer, Simple
  <2>. QED
    BY <2>2, <2>3 DEF IsType
<1>2. CompositeType(b, a, j) = NoType
  <2>1. PointsTo(b) \/ b.basic = "FUNCTION"
    BY Kinds DEF Simple, PointsTo
  <2>2. ~PointsTo(a) /\ a.basic # "FUNCTION"
    BY DEF Simple, PointsTo
  <2>3. CASE PointsTo(b)
    <3>1. PointerAnswer(n, b, a, j, CompositeType(b, a, j))
      BY <2>3, PointerAnswers
    <3>. QED
      BY <2>2, <3>1 DEF PointerAnswer
  <2>4. CASE b.basic = "FUNCTION"
    <3>1. FunctionAnswer(n, b, a, j, CompositeType(b, a, j))
      BY <2>4, FunctionAnswers
    <3>. QED
      BY <2>2, <3>1 DEF FunctionAnswer
  <2>. QED
    BY <2>1, <2>3, <2>4
<1>. QED
  BY <1>1, <1>2

\* compatible_with answers in both orders alike.
LEMMA BothOrders ==
  ASSUME NEW n \in 0..TypeDepth, NEW a \in TypesUpTo[n], NEW b \in TypesUpTo[n]
  PROVE  Alike(CompatibleUpTo[n][<< a, b >>], CompatibleUpTo[n][<< b, a >>])
<1> DEFINE C(k, u, v) == CompatibleUpTo[k][<< u, v >>]
           Good(k) == \A u, v \in TypesUpTo[k] : Alike(C(k, u, v), C(k, v, u))
           S == {k \in 0..TypeDepth : Good(k)}
<1>0. TypeDepth \in Nat
  BY TypesAssumption
<1>1. ASSUME NEW k \in 0..TypeDepth, k # 0 => Good(k - 1), NEW u \in TypesUpTo[k],
             NEW v \in TypesUpTo[k]
      PROVE  Alike(C(k, u, v), C(k, v, u))
  <2> DEFINE c == C(k, u, v)
             d == C(k, v, u)
  <2>1. c = CompositeType(u, v, Inner(k)) /\ d = CompositeType(v, u, Inner(k))
    BY CompatibleAt
  <2>2. CASE u.basic \in Simple /\ v.basic \in Simple
    BY <2>1, <2>2, BasicBothOrders
  <2>3. CASE u.basic \in Simple /\ v.basic \notin Simple
    BY <2>1, <2>3, BasicAndOther DEF Alike
  <2>4. CASE u.basic \notin Simple /\ v.basic \in Simple
    BY <2>1, <2>4, BasicAndOther DEF Alike
  <2>5. CASE PointsTo(u) /\ PointsTo(v)
    <3>0. PointerAnswer(k, u, v, Inner(k), c) /\ PointerAnswer(k, v, u, Inner(k), d)
      BY <2>1, <2>5, PointerAnswers
    <3> HIDE DEF c, d
    <3>1. CASE u.q # v.q
      <4>1. c = NoType /\ d = NoType
        BY <3>0, <3>1 DEF PointerAnswer
      <4>. QED
        BY <4>1 DEF Alike, c, d
    <3>2. CASE u.q = v.q
      <4> DEFINE x == Inner(k)[<< u.to, v.to >>]
                 y == Inner(k)[<< v.to, u.to >>]
      <4>1. k \in 1..TypeDepth /\ u.to \in TypesUpTo[k - 1] /\ v.to \in TypesUpTo[k - 1]
            /\ (~IsType(x) => c = x) /\ (~IsType(y) => d = y)
        BY <2>5, <3>0, <3>2 DEF PointerAnswer
      <4>2. Alike(x, y)
        BY <1>1, <4>1 DEF Inner
      <4>3. CASE ~IsType(x)
        <5>1. x = y
          BY <4>2, <4>3 DEF Alike
        <5>. QED
          BY <4>1, <4>3, <5>1 DEF Alike, c, d
      <4>4. CASE IsType(x)
        <5>1. IsType(y)
          BY <4>2, <4>4 DEF Alike
        <5>2. /\ c = NoType <=> /\ u.basic = "ARRAY" /\ v.basic = "ARRAY"
                                /\ ~(u.size < 0 \/ v.size < 0 \/ u.size = v.size)
              /\ d = NoType <=> /\ v.basic = "ARRAY" /\ u.basic = "ARRAY"
                                /\ ~(v.size < 0 \/ u.size < 0 \/ v.size = u.size)
          BY <2>5, <3>0, <3>2, <4>4, <5>1 DEF PointerAnswer
        <5>3. c # AssertFails /\ d # AssertFails
          <6>1. \/ c = [basic |-> "POINTER", to |-> x, q |-> u.q]
                \/ \E i \in Int, s \in BOOLEAN :
                      c = [basic |-> "ARRAY", to |-> x, size |-> i, static |-> s, q |-> u.q]
                \/ c = NoType
            BY <2>5, <3>0, <3>2, <4>4 DEF PointerAnswer
          <6>2. \/ d = [basic |-> "POINTER", to |-> y, q |-> v.q]
                \/ \E i \in Int, s \in BOOLEAN :
                      d = [basic |-> "ARRAY", to |-> y, size |-> i, static |-> s, q |-> v.q]
                \/ d = NoType
            BY <2>5, <3>0, <3>2, <5>1 DEF PointerAnswer
          <6> HIDE DEF x, y
          <6>. QED
            BY <6>1, <6>2 DEF NoType, AssertFails
        <5>4. c = NoType <=> d = NoType
          BY <5>2
        <5>. QED
          BY <5>3, <5>4 DEF Alike, IsType, c, d
      <4>. QED
        BY <4>3, <4>4
    <3>. QED
      BY <3>1, <3>2
  <2>6. CASE PointsTo(u) /\ v.basic = "FUNCTION"
    <3>1. PointerAnswer(k, u, v, Inner(k), c) /\ FunctionAnswer(k, v, u, Inner(k), d)
      BY <2>1, <2>6, PointerAnswers, FunctionAnswers
    <3> HIDE DEF c, d
    <3>2. c = NoType /\ d = NoType
      BY <2>6, <3>1 DEF PointerAnswer, FunctionAnswer, PointsTo
    <3>. QED
      BY <3>2 DEF Alike, c, d
  <2>7. CASE u.basic = "FUNCTION" /\ PointsTo(v)
    <3>1. PointerAnswer(k, v, u, Inner(k), d) /\ FunctionAnswer(k, u, v, Inner(k), c)
      BY <2>1, <2>7, PointerAnswers, FunctionAnswers
    <3> HIDE DEF c, d
    <3>2. c = NoType /\ d = NoType
      BY <2>7, <3>1 DEF PointerAnswer, FunctionAnswer, PointsTo
    <3>. QED
      BY <3>2 DEF Alike, c, d
  <2>8. CASE u.basic = "FUNCTION" /\ v.basic = "FUNCTION"
    <3>1. FunctionAnswer(k, u, v, Inner(k), c) /\ FunctionAnswer(k, v, u, Inner(k), d)
      BY <2>1, <2>8, FunctionAnswers
    <3> HIDE DEF c, d
    <3>2. k \in 1..TypeDepth /\ \A t \in {u, v} : t.ret \in TypesUpTo[k - 1]
          /\ t.params \in Seq(TypesUpTo[k - 1]) /\ IsType(t)
      BY <2>8, Kinds, NoTypes DEF IsType
    <3>3. \A s, t \in TypesUpTo[k - 1] : Alike(Inner(k)[<< s, t >>], Inner(k)[<< t, s >>])
      <4>1. k # 0 /\ Good(k - 1)
        BY <1>1, <3>2
      <4>2. Inner(k) = CompatibleUpTo[k - 1]
        BY <4>1 DEF Inner
      <4>. QED
        BY <4>1, <4>2
    <3>4. Alike(Inner(k)[<< u.ret, v.ret >>], Inner(k)[<< v.ret, u.ret >>])
      BY <3>2, <3>3
    <3>5. ASSUME NEW s \in {u, v}, NEW t \in {u, v}, ParamsAgree(s, t, Inner(k))
          PROVE  ParamsAgree(t, s, Inner(k))
      <4>1. /\ t.variadic = s.variadic /\ Len(t.params) = Len(s.params)
            /\ DOMAIN t.params = DOMAIN s.params
            /\ \A i \in DOMAIN s.params : IsType(Inner(k)[<< s.params[i], t.params[i] >>])
        BY <3>2, <3>5 DEF ParamsAgree
      <4>2. ASSUME NEW i \in DOMAIN t.params PROVE IsType(Inner(k)[<< t.params[i], s.params[i] >>])
        <5>1. s.params[i] \in TypesUpTo[k - 1] /\ t.params[i] \in TypesUpTo[k - 1]
          BY <3>2, <4>1
        <5>2. IsType(Inner(k)[<< s.params[i], t.params[i] >>])
          BY <4>1
        <5>. QED
          BY <3>3, <5>1, <5>2 DEF Alike
      <4>. QED
        BY <4>1, <4>2 DEF ParamsAgree
    <3>6. ParamsAgree(u, v, Inner(k)) <=> ParamsAgree(v, u, Inner(k))
      BY <3>5
    <3>7. ASSUME NEW r, NEW p, NEW x PROVE IsType(FUNCTION(r, p, x))
      BY DEF FUNCTION, IsType, NoType, AssertFails
    <3>8. CASE ~IsType(Inner(k)[<< u.ret, v.ret >>])
      <4>1. ~IsType(Inner(k)[<< v.ret, u.ret >>])
            /\ Inner(k)[<< u.ret, v.ret >>] = Inner(k)[<< v.ret, u.ret >>]
        BY <3>4, <3>8 DEF Alike
      <4>2. c = d
        BY <2>8, <3>1, <3>8, <4>1 DEF FunctionAnswer
      <4>. QED
        BY <4>2 DEF Alike, c, d
    <3>9. CASE IsType(Inner(k)[<< u.ret, v.ret >>])
      <4>1. IsType(Inner(k)[<< v.ret, u.ret >>])
        BY <3>4, <3>9 DEF Alike
      <4> DEFINE Refused_(s, t) == Prototyped(s) /\ Prototyped(t) /\ ~ParamsAgree(s, t, Inner(k))
      <4>2. (c = NoType /\ Refused_(u, v)) \/ (IsType(c) /\ ~Refused_(u, v))
        BY <2>8, <3>1, <3>2, <3>7, <3>9, Zenon DEF FunctionAnswer
      <4>3. (d = NoType /\ Refused_(v, u)) \/ (IsType(d) /\ ~Refused_(v, u))
        BY <2>8, <3>1, <3>2, <3>7, <4>1, Zenon DEF FunctionAnswer
      <4>4. Refused_(u, v) <=> Refused_(v, u)
        BY <3>6
      <4> HIDE DEF Refused_
      <4>5. Alike(c, d)
        BY <4>2, <4>3, <4>4 DEF Alike
      <4>. QED
        BY <4>5 DEF c, d
    <3>. QED
      BY <3>8, <3>9
  <2>9. /\ u.basic \in Simple \/ PointsTo(u) \/ u.basic = "FUNCTION"
        /\ v.basic \in Simple \/ PointsTo(v) \/ v.basic = "FUNCTION"
    BY Kinds DEF Simple, PointsTo
  <2>10. /\ u.basic \in Simple => ~PointsTo(u) /\ u.basic # "FUNCTION"
         /\ v.basic \in Simple => ~PointsTo(v) /\ v.basic # "FUNCTION"
    BY DEF Simple, PointsTo
  <2>. QED
    BY <2>2, <2>3, <2>4, <2>5, <2>6, <2>7, <2>8, <2>9, <2>10
<1>2. ASSUME NEW k \in 0..TypeDepth, k # 0 => Good(k - 1) PROVE Good(k)
  BY <1>1, <1>2
<1> HIDE DEF Good
<1>3. 0 \in S
  BY <1>0, <1>2
<1>4. ASSUME NEW k \in S, k \in 0..TypeDepth, k + 1 <= TypeDepth PROVE k + 1 \in S
  <2>1. k + 1 \in 0..TypeDepth /\ (k + 1) - 1 = k /\ Good(k)
    BY <1>0, <1>4
  <2>2. Good(k + 1)
    BY <1>2, <2>1
  <2>. QED
    BY <2>1, <2>2
<1>5. 0..TypeDepth \subseteq S
  <2> HIDE DEF S
  <2>. QED
    BY <1>0, <1>3, <1>4, Induction
<1>. QED
  BY <1>5 DEF Good


------------------------------------------------------------------------------
(* Casts *)

\* What compatible_with answers for any two types.
LEMMA CompatibleFacts ==
  ASSUME NEW a \in Types, NEW b \in Types
  PROVE  /\ CompatibleWith(a, b) \in Types \cup {NoType, AssertFails}
         /\ Alike(CompatibleWith(a, b), CompatibleWith(b, a))
         /\ NoConst(VoidQualifiers) /\ IsType(CompatibleWith(a, b)) =>
               /\ ConstsOf(a) = ConstsOf(b)
               /\ NoConst(EnumQualifiers) => ConstsOf(CompatibleWith(a, b)) = ConstsOf(a)
<1>1. TypeDepth \in 0..TypeDepth
  BY TypesAssumption
<1>2. CompatibleWith(a, b) \in Types \cup {NoType, AssertFails}
  BY <1>1, CompositeTyped DEF CompatibleWith, Types
<1>3. Alike(CompatibleWith(a, b), CompatibleWith(b, a))
  BY <1>1, BothOrders DEF CompatibleWith, Types
<1>4. ASSUME NoConst(VoidQualifiers), IsType(CompatibleWith(a, b))
      PROVE  SameConsts(TypeDepth, a, b, CompatibleWith(a, b))
  BY <1>1, <1>4, CompositeConsts DEF CompatibleWith, Types
<1>. QED
  BY <1>2, <1>3, <1>4 DEF SameConsts, ConstsOf

\* The composites of pointers and arrays, and those of any other types.
LEMMA CompositeKinds ==
  ASSUME NEW a \in Types, NEW b \in Types, IsType(CompatibleWith(a, b))
  PROVE  /\ PointsTo(CompatibleWith(a, b)) <=> PointsTo(a)
         /\ PointsTo(b) <=> PointsTo(a)
         /\ a.basic = "UNION" => CompatibleWith(a, b) = b
<1> DEFINE c == CompatibleWith(a, b)
<1>1. TypeDepth \in 0..TypeDepth /\ a \in TypesUpTo[TypeDepth] /\ b \in TypesUpTo[TypeDepth]
  BY TypesAssumption DEF Types
<1>2. c = CompositeType(a, b, Inner(TypeDepth))
  BY <1>1, CompatibleAt DEF CompatibleWith
<1>3. IsType(c)
  OBVIOUS
<1>4. CASE a.basic \in Simple
  <2>1. BasicAnswer(TypeDepth, a, b, Inner(TypeDepth), c)
    BY <1>1, <1>2, <1>4, BasicAnswers DEF Simple
  <2>2. a.basic = "INT" => ResetQualifies(a).basic = "INT"
    BY <1>1, Kinds DEF ResetQualifies
  <2> HIDE DEF c
  <2>. QED
    BY <1>3, <1>4, <2>1, <2>2 DEF c, BasicAnswer, PointsTo, Simple, IsType
<1>5. CASE PointsTo(a)
  <2>1. PointerAnswer(TypeDepth, a, b, Inner(TypeDepth), c)
    BY <1>1, <1>2, <1>5, PointerAnswers
  <2> DEFINE x == Inner(TypeDepth)[<< a.to, b.to >>]
  <2> HIDE DEF c
  <2>2. PointsTo(b) /\ a.q = b.q
    BY <1>3, <2>1 DEF PointerAnswer, IsType
  <2>3. /\ ~IsType(x) => c = x
        /\ IsType(x) => \/ c = [basic |-> "POINTER", to |-> x, q |-> a.q]
                        \/ \E k \in Int, s \in BOOLEAN :
                              c = [basic |-> "ARRAY", to |-> x, size |-> k, static |-> s, q |-> a.q]
                        \/ c = NoType
    BY <2>1, <2>2 DEF PointerAnswer
  <2> HIDE DEF x
  <2>4. PointsTo(c)
    BY <1>3, <2>3 DEF PointsTo, IsType
  <2>. QED
    BY <1>5, <2>2, <2>4 DEF PointsTo, c
<1>6. CASE a.basic = "FUNCTION"
  <2>1. FunctionAnswer(TypeDepth, a, b, Inner(TypeDepth), c)
    BY <1>1, <1>2, <1>6, FunctionAnswers
  <2> DEFINE r == Inner(TypeDepth)[<< a.ret, b.ret >>]
  <2> HIDE DEF c
  <2>2. b.basic = "FUNCTION" /\ IsType(r)
    BY <1>3, <2>1 DEF FunctionAnswer, IsType
  <2>3. \/ c = b
        \/ c = FUNCTION(a.ret, a.params, a.variadic)
        \/ c = NoType
        \/ \E p : c = FUNCTION(r, p, FALSE)
    BY <2>1, <2>2, Zenon DEF FunctionAnswer
  <2> HIDE DEF r
  <2>4. c.basic = "FUNCTION"
    BY <1>3, <2>2, <2>3 DEF FUNCTION, IsType
  <2>. QED
    BY <1>6, <2>2, <2>4 DEF PointsTo, c
<1>. QED
  BY <1>1, <1>4, <1>5, <1>6, Kinds DEF PointsTo, Simple

\* An implicit cast gives the type cast to.
LEMMA ImplicitCasts ==
  ASSUME NEW a \in Types, NEW b \in Types
  PROVE  ImplicitCastTo(a, b) \in {b, NoType, AssertFails}
<1>1. CompatibleWith(a, b) \in Types \cup {NoType, AssertFails}
  BY CompatibleFacts
<1>2. a.basic = "UNION" => CompatibleWith(a, b) \in {b, NoType, AssertFails}
  BY CompositeKinds DEF IsType
<1>. QED
  BY <1>2, Zenon DEF ImplicitCastTo, ImplicitStruct, ImplicitUnion, ImplicitEnum, ImplicitVoid, ImplicitInt,
      ImplicitFloat, ImplicitPointer, ImplicitArray, ImplicitFunction, Provided

\* An explicit cast too.
LEMMA ExplicitCasts ==
  ASSUME NEW a \in Types, NEW b \in Types
  PROVE  ExplicitCastTo(a, b) \in {b, NoType}
BY Zenon DEF ExplicitCastTo, ExplicitStruct, ExplicitUnion, ExplicitEnum, ExplicitVoid, ExplicitInt,
    ExplicitFloat, ExplicitPointer, ExplicitArray, ExplicitFunction, Provided

\* Where a pointer may be cast to another, that one says everything of the objects
\* pointed to that the first does.
LEMMA PointerCasts ==
  ASSUME NoConst(VoidQualifiers), NEW a \in Types, NEW b \in Types, PointsTo(a), PointsTo(b),
         \/ Compatible(a.to, b.to)
         \/ a.to.basic = "VOID"
         \/ b.to.basic = "VOID" /\ ~DropsQualifier(a.to, b.to),
         NEW i \in 2..Len(ConstsOf(b)), i \in DOMAIN ConstsOf(a), ConstsOf(a)[i]
  PROVE  ConstsOf(b)[i]
<1>1. a.to \in Types /\ b.to \in Types
  BY InTypes
<1>2. /\ Len(ConstsOf(a.to)) \in Nat /\ Len(ConstsOf(b.to)) \in Nat
      /\ Len(ConstsOf(a)) = 1 + Len(ConstsOf(a.to)) /\ Len(ConstsOf(b)) = 1 + Len(ConstsOf(b.to))
      /\ DOMAIN ConstsOf(a) = 1..Len(ConstsOf(a))
  <2>1. ConstsOf(a) \in Seq(BOOLEAN)
    BY ConstsFacts
  <2>2. Len(ConstsOf(a.to)) \in Nat /\ Len(ConstsOf(b.to)) \in Nat
    BY <1>1, ConstsFacts
  <2>3. Len(ConstsOf(a)) = 1 + Len(ConstsOf(a.to)) /\ Len(ConstsOf(b)) = 1 + Len(ConstsOf(b.to))
    BY ConstsFacts
  <2>. QED
    BY <2>1, <2>2, <2>3
<1>8. /\ ConstsOf(a.to)[1] = ("const" \in a.to.q)
      /\ ConstsOf(b.to)[1] = ("const" \in b.to.q)
  BY <1>1, ConstsFacts
<1>3. i \in 2..Len(ConstsOf(a)) /\ i - 1 \in 1..Len(ConstsOf(a.to)) /\ i - 1 \in 1..Len(ConstsOf(b.to))
      /\ (i - 1) + 1 = i
  BY <1>2
<1>4. ConstsOf(a)[i] = ConstsOf(a.to)[i - 1] /\ ConstsOf(b)[i] = ConstsOf(b.to)[i - 1]
  <2>1. /\ \A j \in 1..Len(ConstsOf(a.to)) : ConstsOf(a)[j + 1] = ConstsOf(a.to)[j]
        /\ \A j \in 1..Len(ConstsOf(b.to)) : ConstsOf(b)[j + 1] = ConstsOf(b.to)[j]
    BY ConstsFacts
  <2>. QED
    BY <1>3, <2>1
<1>5. CASE Compatible(a.to, b.to)
  <2>1. ConstsOf(a.to) = ConstsOf(b.to)
    BY <1>1, <1>5, CompatibleFacts DEF Compatible
  <2>. QED
    BY <1>4, <2>1
<1>6. CASE a.to.basic = "VOID"
  <2>1. Len(ConstsOf(a.to)) = 1 /\ "const" \notin a.to.q
    <3>1. a.to.q \in VoidQualifiers
      BY <1>1, <1>6, TypesAssumption, Kinds DEF Types
    <3>. QED
      BY <1>1, <1>6, <3>1, ConstsFacts DEF NoConst, PointsTo
  <2>2. i - 1 = 1
    BY <1>2, <1>3, <2>1
  <2>3. ConstsOf(a)[i] = ("const" \in a.to.q)
    BY <1>4, <1>8, <2>2
  <2>. QED
    BY <2>1, <2>3
<1>7. CASE b.to.basic = "VOID" /\ ~DropsQualifier(a.to, b.to)
  <2>1. Len(ConstsOf(b.to)) = 1
    BY <1>1, <1>7, ConstsFacts DEF PointsTo
  <2>2. "const" \in a.to.q => "const" \in b.to.q
    BY <1>7 DEF DropsQualifier
  <2>3. i - 1 = 1
    BY <1>2, <1>3, <2>1
  <2>4. ConstsOf(a)[i] = ("const" \in a.to.q) /\ ConstsOf(b)[i] = ("const" \in b.to.q)
    BY <1>4, <1>8, <2>3
  <2>. QED
    BY <2>2, <2>4
<1>. QED
  BY <1>5, <1>6, <1>7

\* So does any type that another has an implicit cast to.
LEMMA CastsKeepConst ==
  ASSUME NoConst(VoidQualifiers), NEW a \in Types, NEW b \in Types, IsType(ImplicitCastTo(a, b)),
         NEW i \in 2..Len(ConstsOf(b)), i \in DOMAIN ConstsOf(a), ConstsOf(a)[i]
  PROVE  ConstsOf(b)[i]
<1>1. PointsTo(a)
  <2>1. SUFFICES ASSUME ~PointsTo(a) PROVE FALSE
    OBVIOUS
  <2>2. ConstsOf(a) \in Seq(BOOLEAN) /\ Len(ConstsOf(a)) = 1
    BY <2>1, ConstsFacts
  <2>. QED
    BY <2>2
<1>2. PointsTo(b)
  <2>1. SUFFICES ASSUME ~PointsTo(b) PROVE FALSE
    OBVIOUS
  <2>2. Len(ConstsOf(b)) = 1
    BY <2>1, ConstsFacts
  <2>. QED
    BY <2>2
<1>3. \/ Compatible(a.to, b.to)
      \/ a.to.basic = "VOID"
      \/ b.to.basic = "VOID" /\ ~DropsQualifier(a.to, b.to)
  <2>1. CASE a.basic = "POINTER"
    BY <1>2, <2>1 DEF PointsTo, ImplicitCastTo, ImplicitPointer, Provided, IsType
  <2>2. CASE a.basic = "ARRAY"
    BY <1>2, <2>2 DEF PointsTo, ImplicitCastTo, ImplicitArray, Provided, IsType
  <2>. QED
    BY <1>1, <2>1, <2>2 DEF PointsTo
<1>. QED
  BY <1>1, <1>2, <1>3, PointerCasts


------------------------------------------------------------------------------
(* The types of the operators *)

\* A type without its qualifiers.
LEMMA Unqualified ==
  ASSUME NEW n \in 0..TypeDepth, NEW t \in TypesUpTo[n]
  PROVE  /\ ResetQualifies(t) \in TypesUpTo[n]
         /\ ResetQualifies(t).basic = t.basic /\ ResetQualifies(t).q = {}
         /\ PointsTo(t) => ResetQualifies(t).to = t.to
<1>1. ResetQualifies(t) = Qualify(t, {})
  BY DEF ResetQualifies, Qualify
<1>2. {} \in VoidQualifiers /\ {} \in EnumQualifiers /\ {} \in SUBSET Qualifiers
  BY TypesAssumption
<1>. QED
  BY <1>1, <1>2, Requalified

\* The pointer an array or a pointer is used as.
LEMMA Pointers ==
  ASSUME NEW n \in 0..TypeDepth, NEW t \in TypesUpTo[n]
  PROVE  /\ PointsTo(t) =>
               /\ n \in 1..TypeDepth /\ t.to \in TypesUpTo[n - 1] /\ t.q \in SUBSET Qualifiers
               /\ \A q \in SUBSET Qualifiers :
                     /\ Qualify(POINTER(t.to), q) \in TypesUpTo[n]
                     /\ Qualify(POINTER(t.to), q).basic = "POINTER"
                     /\ Qualify(POINTER(t.to), q).to = t.to
                     /\ Qualify(POINTER(t.to), q).q = q
               /\ PtrCompatible(t) \in TypesUpTo[n] /\ PtrCompatible(t).basic = "POINTER"
               /\ PtrCompatible(t).to = t.to
         /\ ~PointsTo(t) => PtrCompatible(t) = NoType
<1>1. CASE PointsTo(t)
  <2>1. n \in 1..TypeDepth /\ t.to \in TypesUpTo[n - 1] /\ t.q \in SUBSET Qualifiers
    BY <1>1, Kinds DEF PointsTo
  <2>2. ASSUME NEW q \in SUBSET Qualifiers
        PROVE  /\ Qualify(POINTER(t.to), q) \in TypesUpTo[n]
               /\ Qualify(POINTER(t.to), q).basic = "POINTER"
               /\ Qualify(POINTER(t.to), q).to = t.to
               /\ Qualify(POINTER(t.to), q).q = q
    <3>1. Qualify(POINTER(t.to), q) = [basic |-> "POINTER", to |-> t.to, q |-> q]
      BY DEF POINTER, Qualify
    <3>2. [basic |-> "POINTER", to |-> t.to, q |-> q] \in TypesUpTo[n]
      BY <2>1, Builds
    <3>. QED
      BY <3>1, <3>2
  <2>3. PtrCompatible(t) = t \/ PtrCompatible(t) = Qualify(POINTER(t.to), t.q)
    BY <1>1 DEF PtrCompatible, PointsTo
  <2>4. t.basic = "POINTER" => PtrCompatible(t) = t
    BY DEF PtrCompatible
  <2>5. t.basic = "ARRAY" => PtrCompatible(t) = Qualify(POINTER(t.to), t.q)
    BY DEF PtrCompatible
  <2>6. /\ PtrCompatible(t) \in TypesUpTo[n] /\ PtrCompatible(t).basic = "POINTER"
        /\ PtrCompatible(t).to = t.to
    BY <1>1, <2>1, <2>2, <2>4, <2>5 DEF PointsTo
  <2>. QED
    BY <1>1, <2>1, <2>2, <2>6
<1>2. CASE ~PointsTo(t)
  <2>1. PtrCompatible(t) = NoType
    BY <1>2 DEF PtrCompatible, PointsTo
  <2>. QED
    BY <1>2, <2>1
<1>. QED
  BY <1>1, <1>2

IntTypes == [basic : {"INT"}, size : Nat, unsigned : BOOLEAN, q : SUBSET Qualifiers]

\* The integer an integer or an enum is used as.
LEMMA Integers_ ==
  ASSUME NEW n \in 0..TypeDepth, NEW t \in TypesUpTo[n]
  PROVE  /\ IntTypes \subseteq TypesUpTo[n]
         /\ t.basic \in {"INT", "ENUM"} => IntCompatible(t) \in IntTypes
         /\ t.basic \notin {"INT", "ENUM"} => IntCompatible(t) = NoType
         /\ IsType(IntCompatible(t)) <=> t.basic \in {"INT", "ENUM"}
<1>1. IntTypes \subseteq TypesUpTo[n]
  <2>1. BasicTypes \subseteq TypesUpTo[n]
    BY UniverseFacts
  <2>. QED
    BY <2>1 DEF BasicTypes, IntTypes
<1>2. t.basic = "INT" => IntCompatible(t) \in IntTypes
  BY Kinds DEF IntCompatible, IntTypes
<1>3. t.basic = "ENUM" => IntCompatible(t) \in IntTypes
  <2>1. SUFFICES ASSUME t.basic = "ENUM" PROVE IntCompatible(t) \in IntTypes
    OBVIOUS
  <2>2. t.q \in SUBSET Qualifiers
    BY Kinds
  <2>3. IntCompatible(t) = [EnumInt EXCEPT !.q = t.q]
    BY <2>1 DEF IntCompatible, Qualify
  <2>4. EnumInt \in IntTypes
    BY DEF EnumInt, INT, IntTypes
  <2>. QED
    BY <2>2, <2>3, <2>4 DEF IntTypes
<1>4. t.basic \notin {"INT", "ENUM"} => IntCompatible(t) = NoType
  BY DEF IntCompatible
<1>5. \A u \in IntTypes : IsType(u)
  BY DEF IntTypes, IsType, NoType, AssertFails
<1>6. ~IsType(NoType)
  BY DEF IsType
<1>. QED
  BY <1>1, <1>2, <1>3, <1>4, <1>5, <1>6

\* What balancing the operands gives.
LEMMA Composites ==
  ASSUME NEW a \in Types, NEW b \in Types
  PROVE  /\ Composed(a, b) \in Types \cup {NoType, AssertFails}
         /\ IsType(Composed(a, b)) /\ Composed(a, b).basic \in Arithmetic =>
               ~PointsTo(a) /\ ~PointsTo(b)
<1> DEFINE w == CompatibleWith(a, b)
<1>0. TypeDepth \in 0..TypeDepth /\ a \in TypesUpTo[TypeDepth] /\ b \in TypesUpTo[TypeDepth]
      /\ Types = TypesUpTo[TypeDepth]
  BY TypesAssumption DEF Types
<1>1. w \in Types \cup {NoType, AssertFails}
  BY CompatibleFacts
<1>2. IsType(w) => (PointsTo(w) <=> PointsTo(a)) /\ (PointsTo(b) <=> PointsTo(a))
  BY CompositeKinds
<1> HIDE DEF w
<1>3. CASE w # NoType
  <2>1. Composed(a, b) = w
    BY <1>3 DEF Composed, CompositeOrPromote, w
  <2>. QED
    BY <1>1, <1>2, <2>1 DEF Arithmetic, PointsTo
<1>4. CASE w = NoType
  <2> DEFINE i1 == IntCompatible(a)
             i2 == IntCompatible(b)
  <2>1. Composed(a, b) =
           IF IsType(i1) /\ IsType(i2) THEN LongerInt(i1, i2)
           ELSE IF IsType(i1) /\ b.basic = "FLOAT" THEN b
           ELSE IF a.basic = "FLOAT" /\ IsType(i2) THEN a
           ELSE IF a.basic = "FLOAT" /\ b.basic = "FLOAT"
                THEN IF a.size > b.size THEN a ELSE b
           ELSE NoType
    BY <1>4 DEF Composed, CompositeOrPromote, w
  <2>2. /\ IsType(i1) <=> a.basic \in {"INT", "ENUM"}
        /\ IsType(i2) <=> b.basic \in {"INT", "ENUM"}
        /\ IsType(i1) => i1 \in Types
        /\ IsType(i2) => i2 \in Types
    BY <1>0, Integers_
  <2>3. LongerInt(i1, i2) \in {i1, i2}
    BY DEF LongerInt
  <2>4. ~IsType(NoType)
    BY DEF IsType
  <2> HIDE DEF i1, i2
  <2>5. Composed(a, b) \in Types \cup {NoType}
    BY <2>1, <2>2, <2>3
  <2>6. IsType(Composed(a, b)) => a.basic \in {"INT", "ENUM", "FLOAT"} /\ b.basic \in {"INT", "ENUM", "FLOAT"}
    BY <2>1, <2>2, <2>4
  <2>. QED
    BY <2>5, <2>6 DEF PointsTo
<1>. QED
  BY <1>3, <1>4


\* ++ and -- give the type of their operand, an array being a pointer.
LEMMA StepTypes ==
  ASSUME NEW n \in 0..TypeDepth, NEW op, NEW o, o.type \in TypesUpTo[n]
  PROVE  /\ StepType(op, o) \in TypesUpTo[n] \cup {NoType}
         /\ IsType(StepType(op, o)) =>
               /\ o.lvalue /\ "const" \notin o.type.q
               /\ PointsTo(StepType(op, o)) <=> PointsTo(o.type)
               /\ PointsTo(o.type) => StepType(op, o).to = o.type.to
<1> DEFINE u == Qualify(POINTER(o.type.to), o.type.q \cap {"const"})
           t == CASE o.type.basic \in {"INT", "POINTER"} -> o.type
                  [] o.type.basic = "ARRAY" -> u
                  [] OTHER -> NoType
           s == StepType(op, o)
<1>1. s = IF ~o.lvalue \/ "const" \in o.type.q THEN NoType
          ELSE IF op \in Decrements /\ IsType(t) THEN ResetQualifies(t) ELSE t
  BY Zenon DEF StepType
<1>2. o.type.basic = "ARRAY" =>
         u \in TypesUpTo[n] /\ u.basic = "POINTER" /\ u.to = o.type.to
  <2>1. SUFFICES ASSUME o.type.basic = "ARRAY"
                 PROVE  u \in TypesUpTo[n] /\ u.basic = "POINTER" /\ u.to = o.type.to
    OBVIOUS
  <2>2. PointsTo(o.type)
    BY <2>1 DEF PointsTo
  <2>3. (o.type.q \cap {"const"}) \in SUBSET Qualifiers
    BY <2>2, Pointers
  <2>. QED
    BY <2>2, <2>3, Pointers
<1>3. t = NoType \/ /\ t \in TypesUpTo[n]
                    /\ PointsTo(t) <=> PointsTo(o.type)
                    /\ PointsTo(o.type) => t.to = o.type.to
  <2> HIDE DEF u
  <2>1. CASE o.type.basic \in {"INT", "POINTER"}
    BY <2>1
  <2>2. CASE o.type.basic = "ARRAY"
    BY <1>2, <2>2 DEF PointsTo
  <2>3. CASE o.type.basic \notin {"INT", "POINTER", "ARRAY"}
    BY <2>3
  <2>. QED
    BY <2>1, <2>2, <2>3
<1> HIDE DEF t, s
<1>4. IsType(t) => /\ t \in TypesUpTo[n]
                   /\ ResetQualifies(t) \in TypesUpTo[n]
                   /\ ResetQualifies(t).basic = t.basic
                   /\ PointsTo(t) => ResetQualifies(t).to = t.to
  BY <1>3, Unqualified DEF IsType
<1>5. ~IsType(NoType)
  BY DEF IsType
<1>6. s = NoType \/ /\ o.lvalue /\ "const" \notin o.type.q
                    /\ s \in TypesUpTo[n]
                    /\ PointsTo(s) <=> PointsTo(o.type)
                    /\ PointsTo(o.type) => s.to = o.type.to
  <2>1. CASE ~o.lvalue \/ "const" \in o.type.q
    BY <1>1, <2>1
  <2>2. CASE o.lvalue /\ "const" \notin o.type.q /\ op \in Decrements /\ IsType(t)
    <3>1. s = ResetQualifies(t)
      BY <1>1, <2>2
    <3>2. t # NoType
      BY <1>5, <2>2
    <3>3. PointsTo(s) <=> PointsTo(t)
      BY <1>4, <2>2, <3>1 DEF PointsTo
    <3>. QED
      BY <1>3, <1>4, <2>2, <3>1, <3>2, <3>3
  <2>3. CASE o.lvalue /\ "const" \notin o.type.q /\ ~(op \in Decrements /\ IsType(t))
    <3>1. s = t
      BY <1>1, <2>3
    <3>. QED
      BY <1>3, <2>3, <3>1
  <2>. QED
    BY <2>1, <2>2, <2>3
<1>. QED
  BY <1>5, <1>6 DEF s

\* The types of the unary operators; what ++ or -- gives, or a pointer points to,
\* is nested no deeper than an object's type may be.
LEMMA UnaryTypes ==
  ASSUME NEW op, NEW o, o.type \in Types, o.lvalue => o.type \in TypesUpTo[TypeDepth - 1]
  PROVE  /\ UnaryType(op, o) \in Types \cup {NoType}
         /\ UnaryLvalue(op) => UnaryType(op, o) \in TypesUpTo[TypeDepth - 1] \cup {NoType}
<1>0. /\ TypeDepth \in 0..TypeDepth /\ TypeDepth - 1 \in 0..TypeDepth /\ TypeDepth \in 1..TypeDepth
      /\ Types = TypesUpTo[TypeDepth] /\ TypesUpTo[TypeDepth - 1] \subseteq Types
  BY TypesAssumption, InTypes DEF Types
<1> DEFINE t == UnaryType(op, o)
<1>1. CASE op \in Steps
  <2>1. t = StepType(op, o)
    <3>1. op \notin {"REFERENCE", "DEREFERENCE", "LOGICAL_NOT", "BITWISE_NOT", "SIZEOF"}
      BY <1>1 DEF Steps, Decrements
    <3>. QED
      BY <1>1, <3>1 DEF UnaryType
  <2> HIDE DEF t
  <2>2. t \in Types \cup {NoType}
    BY <1>0, <2>1, StepTypes
  <2>3. o.lvalue => t \in TypesUpTo[TypeDepth - 1] \cup {NoType}
    BY <1>0, <2>1, StepTypes
  <2>4. ~o.lvalue => t = NoType
    BY <2>1 DEF StepType
  <2>. QED
    BY <2>2, <2>3, <2>4 DEF t
<1>2. CASE op = "REFERENCE"
  <2>1. o.lvalue => POINTER(o.type) \in Types
    <3>1. {} \in SUBSET Qualifiers
      OBVIOUS
    <3>. QED
      BY <1>0, <3>1, Builds DEF POINTER
  <2>2. op \notin Steps /\ ~UnaryLvalue(op)
    BY <1>2 DEF Steps, Decrements, UnaryLvalue
  <2>3. t = IF o.lvalue THEN POINTER(o.type) ELSE NoType
    BY <1>2, <2>2 DEF UnaryType
  <2> HIDE DEF t
  <2>. QED
    BY <2>1, <2>2, <2>3 DEF t
<1>3. CASE op = "DEREFERENCE"
  <2>1. op \notin Steps
    BY <1>3 DEF Steps, Decrements
  <2>2. t = IF PointsTo(o.type) THEN o.type.to ELSE NoType
    BY <1>3, <2>1 DEF UnaryType
  <2>3. PointsTo(o.type) => o.type.to \in TypesUpTo[TypeDepth - 1]
    BY InTypes
  <2> HIDE DEF t
  <2>. QED
    BY <1>0, <2>2, <2>3 DEF t
<1>4. CASE op \notin Steps \cup {"REFERENCE", "DEREFERENCE"}
  <2>1. ~UnaryLvalue(op)
    BY <1>4 DEF UnaryLvalue, Steps, Decrements
  <2>2. IntTypes \subseteq Types /\ IntCompatible(o.type) \in IntTypes \cup {NoType}
    BY <1>0, Integers_
  <2>3. Bool \in IntTypes /\ SizeType \in IntTypes
    BY DEF Bool, SizeType, INT, IntTypes
  <2>4. t \in {NoType, Bool, SizeType, IntCompatible(o.type), o.type}
    BY <1>4, Zenon DEF UnaryType
  <2> HIDE DEF t
  <2>. QED
    BY <2>1, <2>2, <2>3, <2>4 DEF t
<1>. QED
  BY <1>1, <1>2, <1>3, <1>4


Answers == Types \cup {NoType, AssertFails}

\* A type restricted to some kinds.
LEMMA Restricted ==
  ASSUME NEW t, NEW kinds
  PROVE  /\ OfKind(t, kinds) \in {t, NoType}
         /\ IsType(OfKind(t, kinds)) => OfKind(t, kinds) = t /\ t.basic \in kinds
<1>1. ~IsType(NoType) /\ ~IsType(AssertFails)
  BY DEF IsType
<1>. QED
  BY <1>1 DEF OfKind

\* An array among the operands of + and - is a pointer.
LEMMA Decays ==
  ASSUME NEW a \in Types
  PROVE  /\ Decayed(a) \in Types
         /\ PointsTo(Decayed(a)) <=> PointsTo(a)
         /\ Decayed(a).basic = "POINTER" <=> PointsTo(a)
         /\ PointsTo(a) => Decayed(a).to = a.to
         /\ ~PointsTo(a) => Decayed(a) = a
<1>1. TypeDepth \in 0..TypeDepth /\ Types = TypesUpTo[TypeDepth]
  BY TypesAssumption DEF Types
<1>. QED
  BY <1>1, Pointers DEF Decayed, PointsTo

\* The types of + and -: a pointer that is an operand, the composite of two, or a
\* type of arithmetic.
LEMMA SumTypes ==
  ASSUME NEW l \in Types, NEW r \in Types
  PROVE  /\ PlusType(l, r) \in Answers
         /\ IsType(PlusType(l, r)) =>
               \/ PlusType(l, r) = l /\ l.basic = "POINTER"
               \/ PlusType(l, r) = r /\ r.basic = "POINTER" /\ ~PointsTo(l)
               \/ ~PointsTo(PlusType(l, r))
         /\ MinusType(l, r) \in Answers
         /\ IsType(MinusType(l, r)) =>
               \/ MinusType(l, r) = l /\ l.basic = "POINTER"
               \/ MinusType(l, r) = CompatibleWith(l, r) /\ l.basic = "POINTER"
               \/ ~PointsTo(MinusType(l, r))
<1>1. Composed(l, r) \in Answers /\ CompatibleWith(l, r) \in Answers
  BY Composites, CompatibleFacts DEF Answers
<1> DEFINE c == OfKind(Composed(l, r), Arithmetic)
<1>2. c \in Answers /\ (IsType(c) => ~PointsTo(c))
  <2>1. c \in {Composed(l, r), NoType} /\ (IsType(c) => c = Composed(l, r) /\ Composed(l, r).basic \in Arithmetic)
    BY Restricted
  <2> HIDE DEF c
  <2>2. NoType \in Answers
    BY DEF Answers
  <2>. QED
    BY <1>1, <2>1, <2>2 DEF Arithmetic, PointsTo
<1>3. ~IsType(NoType) /\ NoType \in Answers /\ l \in Answers /\ r \in Answers
  BY DEF IsType, Answers
<1>4. Steppable(l) => l.basic = "POINTER"
  BY DEF Steppable
<1>5. Steppable(r) => r.basic = "POINTER"
  BY DEF Steppable
<1>6. IsType(IntCompatible(l)) => ~PointsTo(l)
  <2>1. TypeDepth \in 0..TypeDepth /\ Types = TypesUpTo[TypeDepth]
    BY TypesAssumption DEF Types
  <2>2. IsType(IntCompatible(l)) <=> l.basic \in {"INT", "ENUM"}
    BY <2>1, Integers_
  <2>. QED
    BY <2>2 DEF PointsTo
<1>7. \/ PlusType(l, r) = l /\ Steppable(l)
      \/ PlusType(l, r) = r /\ Steppable(r) /\ IsType(IntCompatible(l))
      \/ PlusType(l, r) = NoType
      \/ PlusType(l, r) = c
  BY Zenon DEF PlusType
<1>8. \/ MinusType(l, r) = l /\ Steppable(l)
      \/ MinusType(l, r) = CompatibleWith(l, r) /\ Steppable(l)
      \/ MinusType(l, r) = NoType
      \/ MinusType(l, r) = c
  BY Zenon DEF MinusType
<1> HIDE DEF c
<1>9. /\ PlusType(l, r) \in Answers
      /\ IsType(PlusType(l, r)) =>
               \/ PlusType(l, r) = l /\ l.basic = "POINTER"
               \/ PlusType(l, r) = r /\ r.basic = "POINTER" /\ ~PointsTo(l)
               \/ ~PointsTo(PlusType(l, r))
  BY <1>2, <1>3, <1>4, <1>5, <1>6, <1>7
<1>10. /\ MinusType(l, r) \in Answers
       /\ IsType(MinusType(l, r)) =>
               \/ MinusType(l, r) = l /\ l.basic = "POINTER"
               \/ MinusType(l, r) = CompatibleWith(l, r) /\ l.basic = "POINTER"
               \/ ~PointsTo(MinusType(l, r))
  BY <1>1, <1>2, <1>3, <1>4, <1>8
<1>. QED
  BY <1>9, <1>10

\* What is +=ed: a pointer by an integer, or a type of arithmetic.
LEMMA AccumulateTypes ==
  ASSUME NEW l \in Types, NEW r \in Types
  PROVE  /\ AccumulateType(l, r) \in {l, NoType, AssertFails}
         /\ IsType(AccumulateType(l, r)) => r.basic \in {"INT", "ENUM"} \/ ~PointsTo(l)
<1>1. TypeDepth \in 0..TypeDepth /\ Types = TypesUpTo[TypeDepth]
  BY TypesAssumption DEF Types
<1>2. IsType(IntCompatible(r)) <=> r.basic \in {"INT", "ENUM"}
  BY <1>1, Integers_
<1> DEFINE c == OfKind(ImplicitCastTo(r, l), Arithmetic)
<1>3. /\ c \in {ImplicitCastTo(r, l), NoType}
      /\ IsType(c) => c = ImplicitCastTo(r, l) /\ ImplicitCastTo(r, l).basic \in Arithmetic
  BY Restricted
<1>4. ImplicitCastTo(r, l) \in {l, NoType, AssertFails}
  BY ImplicitCasts
<1> HIDE DEF c
<1>5. c \in {l, NoType, AssertFails} /\ (IsType(c) => ~PointsTo(l))
  BY <1>3, <1>4 DEF Arithmetic, PointsTo, IsType
<1>6. (AccumulateType(l, r) = l /\ IsType(IntCompatible(r))) \/ AccumulateType(l, r) = c
  BY Zenon DEF AccumulateType, c
<1>. QED
  BY <1>2, <1>5, <1>6

\* Every operator but + and -, and those that write, gives a type that is made of
\* no others.
LEMMA OtherTypes ==
  ASSUME NEW l \in Types, NEW r \in Types,
         NEW t \in {FactorType(l, r), IntegralType(l, r), ComparisonType(l, r), EqualType(l, r),
                    LogicalType(l, r)}
  PROVE  /\ t \in Answers
         /\ IsType(t) => ~PointsTo(t)
         /\ t \in {FactorType(l, r), IntegralType(l, r)} /\ IsType(t) => ~PointsTo(l)
<1>1. Composed(l, r) \in Answers
  BY Composites DEF Answers
<1>2. NoType \in Answers /\ AssertFails \in Answers /\ ~IsType(NoType) /\ ~IsType(AssertFails)
  BY DEF Answers, IsType
<1>3. Bool \in Answers /\ ~PointsTo(Bool)
  <2>1. Bool \in IntTypes
    BY DEF Bool, INT, IntTypes
  <2>2. TypeDepth \in 0..TypeDepth /\ Types = TypesUpTo[TypeDepth]
    BY TypesAssumption DEF Types
  <2>3. Types # {}
    OBVIOUS
  <2>4. IntTypes \subseteq Types
    BY <2>2, Integers_
  <2>. QED
    BY <2>1, <2>4 DEF Answers, Bool, INT, PointsTo
<1>4. ASSUME NEW kinds \in {Arithmetic, {"INT"}}
      PROVE  LET c == OfKind(Composed(l, r), kinds)
             IN  c \in Answers /\ (IsType(c) => ~PointsTo(c) /\ ~PointsTo(l))
  <2> DEFINE c == OfKind(Composed(l, r), kinds)
  <2>1. /\ c \in {Composed(l, r), NoType}
        /\ IsType(c) => c = Composed(l, r) /\ Composed(l, r).basic \in kinds
    BY Restricted
  <2>2. IsType(Composed(l, r)) /\ Composed(l, r).basic \in Arithmetic => ~PointsTo(l)
    BY Composites
  <2>3. kinds \subseteq Arithmetic
    BY DEF Arithmetic
  <2> HIDE DEF c
  <2>4. c \in Answers /\ (IsType(c) => ~PointsTo(c) /\ ~PointsTo(l))
    <3>1. IsType(c) => c = Composed(l, r) /\ c.basic \in Arithmetic
      BY <2>1, <2>3
    <3>2. IsType(c) => c.basic \in {"INT", "FLOAT"}
      BY <3>1 DEF Arithmetic
    <3>. QED
      BY <1>1, <1>2, <2>1, <2>2, <3>1, <3>2 DEF PointsTo
  <2>. QED
    BY <2>4 DEF c
<1>5. FactorType(l, r) \in Answers
      /\ (IsType(FactorType(l, r)) => ~PointsTo(FactorType(l, r)) /\ ~PointsTo(l))
  BY <1>4 DEF FactorType
<1>6. IntegralType(l, r) \in Answers
      /\ (IsType(IntegralType(l, r)) => ~PointsTo(IntegralType(l, r)) /\ ~PointsTo(l))
  BY <1>4 DEF IntegralType
<1>7. ComparisonType(l, r) \in {Bool, NoType, AssertFails}
  BY DEF ComparisonType, IsType
<1>8. EqualType(l, r) \in {Bool, NoType, AssertFails}
  BY Zenon DEF EqualType
<1>9. LogicalType(l, r) \in {Bool, NoType}
  BY Zenon DEF LogicalType
<1>10. CASE t \in {FactorType(l, r), IntegralType(l, r)}
  BY <1>5, <1>6, <1>10
<1>11. CASE t \in {Bool, NoType, AssertFails} /\ t \notin {FactorType(l, r), IntegralType(l, r)}
  BY <1>2, <1>3, <1>11
<1>. QED
  BY <1>7, <1>8, <1>9, <1>10, <1>11


\* An operator that writes to a pointer casts what it writes, or adds an integer.
WriteAnswer(op, l, r, t) ==
    /\ op = "ASSIGNMENT" => t = ImplicitCastTo(r, l)
    /\ op # "ASSIGNMENT" => ~PointsTo(l) \/ r.basic \in {"INT", "ENUM"}
    /\ op \notin Assignments => ~PointsTo(t)

\* The types of the binary operators before the left operand is looked at.
LEMMA PlainTypes ==
  ASSUME NEW op, NEW l \in Types, NEW r \in Types
  PROVE  /\ PlainType(op, l, r) \in Answers
         /\ op \in Writes /\ IsType(PlainType(op, l, r)) => WriteAnswer(op, l, r, PlainType(op, l, r))
         /\ op = "PLUS" => PlainType(op, l, r) = PlusType(Decayed(l), Decayed(r))
         /\ op = "MINUS" => PlainType(op, l, r) = MinusType(Decayed(l), r)
<1> DEFINE t == PlainType(op, l, r)
<1>0. Decayed(l) \in Types /\ Decayed(r) \in Types
  BY Decays
<1>1. CASE op \in Factors
  <2>1. op \notin {"PLUS", "MINUS", "ASSIGNMENT"} \cup Comparisons \cup Equalities \cup Logicals
                  \cup Accumulates
        /\ (op \in Writes => op \in Assignments)
    BY <1>1 DEF Factors, Comparisons, Equalities, Logicals, Accumulates, Writes
  <2>2. t = FactorType(l, r)
    BY <1>1, <2>1 DEF PlainType
  <2>3. t \in Answers /\ (IsType(t) => ~PointsTo(l))
    BY <2>2, OtherTypes
  <2> HIDE DEF t
  <2>. QED
    BY <2>1, <2>3 DEF t, WriteAnswer
<1>2. CASE op = "PLUS"
  <2>1. op \notin Factors \cup Comparisons \cup Equalities \cup Logicals \cup Accumulates
        /\ op \notin Writes
    BY <1>2 DEF Factors, Comparisons, Equalities, Logicals, Accumulates, Writes, Assignments
  <2>2. t = PlusType(Decayed(l), Decayed(r))
    BY <1>2, <2>1 DEF PlainType
  <2>3. t \in Answers
    BY <1>0, <2>2, SumTypes
  <2>. QED
    BY <1>2, <2>1, <2>2, <2>3
<1>3. CASE op = "MINUS"
  <2>1. op \notin Factors \cup Comparisons \cup Equalities \cup Logicals \cup Accumulates
        /\ op \notin Writes
    BY <1>3 DEF Factors, Comparisons, Equalities, Logicals, Accumulates, Writes, Assignments
  <2>2. t = MinusType(Decayed(l), r)
    BY <1>3, <2>1 DEF PlainType
  <2>3. t \in Answers
    BY <1>0, <2>2, SumTypes
  <2>. QED
    BY <1>3, <2>1, <2>2, <2>3
<1>4. CASE op \in Comparisons \cup Equalities \cup Logicals
  <2>1. op \notin Factors \cup Accumulates \cup Writes \cup {"PLUS", "MINUS", "ASSIGNMENT"}
    BY <1>4 DEF Factors, Comparisons, Equalities, Logicals, Accumulates, Writes, Assignments
  <2>2. /\ op \in Comparisons => op \notin Equalities \cup Logicals
        /\ op \in Equalities => op \notin Logicals
    BY DEF Comparisons, Equalities, Logicals
  <2>3. t \in {ComparisonType(l, r), EqualType(l, r), LogicalType(l, r)}
    BY <1>4, <2>1, <2>2 DEF PlainType
  <2>4. t \in Answers
    BY <2>3, OtherTypes
  <2>. QED
    BY <2>1, <2>4
<1>5. CASE op = "ASSIGNMENT"
  <2>1. op \notin Factors \cup Comparisons \cup Equalities \cup Logicals \cup Accumulates
        /\ op \in Assignments
    BY <1>5 DEF Factors, Comparisons, Equalities, Logicals, Accumulates, Assignments
  <2>2. t = ImplicitCastTo(r, l)
    BY <1>5, <2>1 DEF PlainType
  <2>3. t \in Answers
    BY <2>2, ImplicitCasts DEF Answers
  <2> HIDE DEF t
  <2>. QED
    BY <1>5, <2>1, <2>2, <2>3 DEF t, WriteAnswer
<1>6. CASE op \in Accumulates
  <2>1. op \notin Factors \cup Comparisons \cup Equalities \cup Logicals \cup {"PLUS", "MINUS", "ASSIGNMENT"}
        /\ op \in Assignments
    BY <1>6 DEF Factors, Comparisons, Equalities, Logicals, Accumulates, Assignments
  <2>2. t = AccumulateType(l, r)
    BY <1>6, <2>1 DEF PlainType
  <2>3. t \in {l, NoType, AssertFails} /\ (IsType(t) => r.basic \in {"INT", "ENUM"} \/ ~PointsTo(l))
    BY <2>2, AccumulateTypes
  <2>4. t \in Answers
    BY <2>3 DEF Answers
  <2> HIDE DEF t
  <2>. QED
    BY <2>1, <2>3, <2>4 DEF t, WriteAnswer
<1>7. CASE op \notin Factors \cup Comparisons \cup Equalities \cup Logicals \cup Accumulates
                     \cup {"PLUS", "MINUS", "ASSIGNMENT"}
  <2>1. t = IntegralType(l, r)
    BY <1>7 DEF PlainType
  <2>2. t \in Answers /\ (IsType(t) => ~PointsTo(l) /\ ~PointsTo(t))
    BY <2>1, OtherTypes
  <2> HIDE DEF t
  <2>. QED
    BY <1>7, <2>2 DEF t, WriteAnswer
<1>. QED
  BY <1>1, <1>2, <1>3, <1>4, <1>5, <1>6, <1>7

\* Copying a type gives it, or fails.
LEMMA Copies ==
  ASSUME NEW t
  PROVE  CopyOf(t) \in {t, AssertFails}
BY DEF CopyOf

\* A binary operator answers a type without qualifiers, and writes only to an
\* lvalue that is not const.
LEMMA BinaryTypes ==
  ASSUME NEW op, NEW l, NEW r, l.type \in Types, r.type \in Types
  PROVE  /\ BinaryType(op, l, r) \in Answers
         /\ IsType(BinaryType(op, l, r)) =>
               /\ IsType(PlainType(op, l.type, r.type))
               /\ op \in Assignments => /\ l.lvalue /\ "const" \notin l.type.q
                                        /\ BinaryType(op, l, r) = ResetQualifies(l.type)
               /\ op \notin Assignments =>
                     BinaryType(op, l, r) = ResetQualifies(PlainType(op, l.type, r.type))
<1> DEFINE t == PlainType(op, l.type, r.type)
           result == CopyOf(IF op \in Assignments THEN l.type ELSE t)
<1>1. t \in Answers
  BY PlainTypes
<1>2. BinaryType(op, l, r) =
         IF op \in Assignments /\ CopyOf(l.type) = AssertFails THEN AssertFails
         ELSE IF op \in Assignments /\ (~l.lvalue \/ "const" \in l.type.q) THEN NoType
         ELSE IF ~IsType(t) THEN t
         ELSE IF IsType(result) THEN ResetQualifies(result) ELSE result
  BY Zenon DEF BinaryType
<1>3. /\ op \in Assignments => result \in {l.type, AssertFails}
      /\ op \notin Assignments => result \in {t, AssertFails}
  BY Copies
<1>4. ~IsType(NoType) /\ ~IsType(AssertFails) /\ NoType \in Answers /\ AssertFails \in Answers
  BY DEF IsType, Answers
<1>5. TypeDepth \in 0..TypeDepth /\ Types = TypesUpTo[TypeDepth]
  BY TypesAssumption DEF Types
<1>6. \A u \in Types : ResetQualifies(u) \in Answers
  BY <1>5, Unqualified DEF Answers
<1> HIDE DEF t, result
<1>7. IsType(result) => result \in Types
  BY <1>1, <1>3, <1>4 DEF Answers, IsType
<1>8. ~IsType(result) => result \in Answers
  BY <1>4 DEF IsType, Answers
<1>9. BinaryType(op, l, r) \in Answers
  BY <1>1, <1>2, <1>4, <1>6, <1>7, <1>8
<1>10. ASSUME IsType(BinaryType(op, l, r))
       PROVE  /\ IsType(t)
              /\ op \in Assignments => /\ l.lvalue /\ "const" \notin l.type.q
                                       /\ BinaryType(op, l, r) = ResetQualifies(l.type)
              /\ op \notin Assignments => BinaryType(op, l, r) = ResetQualifies(t)
  <2>1. /\ ~(op \in Assignments /\ (~l.lvalue \/ "const" \in l.type.q))
        /\ IsType(t) /\ IsType(result) /\ BinaryType(op, l, r) = ResetQualifies(result)
    BY <1>2, <1>4, <1>10
  <2>2. result # AssertFails
    BY <1>4, <2>1
  <2>. QED
    BY <1>3, <2>1, <2>2
<1>. QED
  BY <1>9, <1>10 DEF t


\* A member has the type it is declared with, with more qualifiers.
LEMMA MemberTypes ==
  ASSUME NEW t \in Types, NEW f
  PROVE  /\ MemberType(t, f) \in TypesUpTo[TypeDepth - 1] \cup {NoType, AssertFails, Bare}
         /\ Accepted(MemberType(t, f)) =>
               /\ t.id \in TagIds /\ f \in DOMAIN Members(t.id)
               /\ Members(t.id)[f] \in TypesUpTo[TypeDepth - 1]
               /\ MemberType(t, f) = Qualify(Members(t.id)[f], MemberQualifiers(Members(t.id)[f], t.q))
               /\ MemberType(t, f) \in TypesUpTo[TypeDepth - 1]
               /\ t.q \in SUBSET Qualifiers
<1> DEFINE m == Members(t.id)[f]
           a == MemberType(t, f)
<1>0. TypeDepth \in 0..TypeDepth /\ TypeDepth - 1 \in 0..TypeDepth /\ Types = TypesUpTo[TypeDepth]
  BY TypesAssumption DEF Types
<1>1. ~Accepted(NoType) /\ ~Accepted(AssertFails) /\ ~Accepted(Bare)
  BY DEF Accepted
<1>2. CASE t.basic \in {"STRUCT", "UNION"} /\ t.def /\ f \in DOMAIN Members(t.id)
  <2>1. t.id \in TagIds /\ t.q \in SUBSET Qualifiers
    BY <1>0, <1>2, Kinds
  <2>2. m \in TypesUpTo[TypeDepth - 1]
        /\ \A q \in SUBSET Qualifiers : Qualify(m, q) \in TypesUpTo[TypeDepth - 1]
    <3>1. {} \in SUBSET Qualifiers
      OBVIOUS
    <3>. QED
      BY <1>2, <2>1, <3>1, MembersAssumption
  <2>3. a = Qualify(CopyOf(m), MemberQualifiers(m, t.q))
    BY <1>2, Zenon DEF MemberType
  <2>4. CopyOf(m) \in {m, AssertFails}
    BY Copies
  <2>5. MemberQualifiers(m, t.q) \in SUBSET Qualifiers
    <3>1. m.q \in SUBSET Qualifiers
      BY <1>0, <2>2, Kinds
    <3> HIDE DEF m
    <3>. QED
      BY <2>1, <3>1 DEF MemberQualifiers, Qualifiers
  <2> HIDE DEF m, a
  <2>6. ASSUME NEW q PROVE Qualify(AssertFails, q) = AssertFails
    BY DEF Qualify, AssertFails
  <2>. QED
    BY <1>1, <1>2, <2>1, <2>2, <2>3, <2>4, <2>5, <2>6 DEF m, a
<1>3. CASE ~(t.basic \in {"STRUCT", "UNION"} /\ t.def /\ f \in DOMAIN Members(t.id))
  <2>1. a \in {NoType, AssertFails, Bare}
    BY <1>3, Zenon DEF MemberType
  <2>. QED
    BY <1>1, <2>1
<1>. QED
  BY <1>2, <1>3

\* A call has the type the function returns, and every argument that is read has an
\* implicit cast to its parameter.
LEMMA CallTypes ==
  ASSUME NEW t \in Types, NEW args
  PROVE  /\ CallType(t, args) \in Types \cup {NoType, AssertFails, Bare}
         /\ Accepted(CallType(t, args)) =>
               /\ Callee(t) \in Types /\ Callee(t).params \in Seq(Types)
               /\ Len(Callee(t).params) <= Len(args)
               /\ \A i \in DOMAIN Callee(t).params :
                     ImplicitCastTo(args[i], Callee(t).params[i]) \notin {NoType, AssertFails}
<1> DEFINE f == Callee(t)
           cast == [i \in DOMAIN f.params |-> ImplicitCastTo(args[i], f.params[i])]
           a == CallType(t, args)
<1>1. ~Accepted(NoType) /\ ~Accepted(AssertFails) /\ ~Accepted(Bare)
  BY DEF Accepted
<1>2. a = IF f = NoType THEN AssertFails
          ELSE IF ImplicitCastTo(t, f) = AssertFails THEN AssertFails
          ELSE IF ImplicitCastTo(t, f) = NoType THEN Bare
          ELSE IF Len(f.params) # Len(args) /\ ~f.variadic THEN Bare
          ELSE IF Len(f.params) > Len(args) THEN AssertFails
          ELSE IF \E i \in DOMAIN cast : cast[i] = AssertFails THEN AssertFails
          ELSE IF \E i \in DOMAIN cast : cast[i] = NoType THEN NoType
          ELSE f.ret
  BY Zenon DEF CallType
<1>3. f # NoType => f \in Types /\ f.basic = "FUNCTION"
  <2>1. t.basic = "POINTER" => t.to \in Types
    BY InTypes DEF PointsTo
  <2>. QED
    BY <2>1 DEF Callee
<1>4. f # NoType => f.ret \in Types /\ f.params \in Seq(Types)
  <2>1. f # NoType => f.ret \in TypesUpTo[TypeDepth - 1] /\ f.params \in Seq(TypesUpTo[TypeDepth - 1])
    BY <1>3, InTypes
  <2>2. TypesUpTo[TypeDepth - 1] \subseteq Types
    BY InTypes
  <2> HIDE DEF f
  <2>. QED
    BY <2>1, <2>2
<1>5. DOMAIN cast = DOMAIN f.params
      /\ \A i \in DOMAIN f.params : cast[i] = ImplicitCastTo(args[i], f.params[i])
  OBVIOUS
<1> HIDE DEF f, a, cast
<1>6. a \in Types \cup {NoType, AssertFails, Bare}
  BY <1>2, <1>4
<1>7. ASSUME Accepted(a)
      PROVE  /\ f # NoType /\ ~(Len(f.params) > Len(args))
             /\ \A i \in DOMAIN cast : cast[i] \notin {NoType, AssertFails}
  BY <1>1, <1>2, <1>7
<1>8. ASSUME Accepted(a) PROVE Len(f.params) <= Len(args)
  <2>1. (Len(f.params) # Len(args) /\ f.variadic) \/ Len(f.params) = Len(args)
    BY <1>1, <1>2, <1>8
  <2>. QED
    BY <1>4, <1>7, <1>8, <2>1
<1>. QED
  BY <1>3, <1>4, <1>5, <1>6, <1>7, <1>8 DEF f, a

\* What ConditionalType answers of the pointers p and r that its branches are.
Branches(p, r, t) ==
    \/ t = ResetQualifies(p) /\ IsType(CompatibleWith(p.to, r.to))
    \/ t = ResetQualifies(r) /\ p.to.basic = "VOID"
    \/ t = ResetQualifies(p) /\ r.to.basic = "VOID"

\* A conditional has the type of one of its two pointers.
LEMMA ConditionalTypes ==
  ASSUME NEW c, NEW a \in Types, NEW b \in Types
  PROVE  /\ ConditionalType(c, a, b) \in Answers
         /\ IsType(ConditionalType(c, a, b)) =>
               /\ PointsTo(a) /\ PointsTo(b)
               /\ Branches(PtrCompatible(a), PtrCompatible(b), ConditionalType(c, a, b))
<1> DEFINE p == PtrCompatible(a)
           r == PtrCompatible(b)
           t == ConditionalType(c, a, b)
<1>0. TypeDepth \in 0..TypeDepth /\ Types = TypesUpTo[TypeDepth]
  BY TypesAssumption DEF Types
<1>1. ~IsType(NoType) /\ ~IsType(AssertFails) /\ NoType \in Answers /\ AssertFails \in Answers
  BY DEF IsType, Answers
<1>2. t = IF ~IsType(p) \/ ~IsType(r) THEN AssertFails
          ELSE IF CompatibleWith(p.to, r.to) = AssertFails THEN AssertFails
          ELSE IF ~IsTruth(c) THEN NoType
          ELSE IF IsType(CompatibleWith(p.to, r.to)) THEN ResetQualifies(p)
          ELSE IF p.to.basic = "VOID" THEN ResetQualifies(r)
          ELSE IF r.to.basic = "VOID" THEN ResetQualifies(p)
          ELSE NoType
  BY Zenon DEF ConditionalType
<1>3. (IsType(p) => PointsTo(a) /\ p \in Types) /\ (IsType(r) => PointsTo(b) /\ r \in Types)
  BY <1>0, <1>1, Pointers
<1>4. \A u \in Types : ResetQualifies(u) \in Answers
  BY <1>0, Unqualified DEF Answers
<1> HIDE DEF p, r, t
<1>5. t \in Answers
  BY <1>1, <1>2, <1>3, <1>4
<1>6. IsType(t) => IsType(p) /\ IsType(r) /\ Branches(p, r, t)
  BY <1>1, <1>2 DEF Branches
<1>. QED
  BY <1>3, <1>5, <1>6 DEF p, r, t


------------------------------------------------------------------------------
(* The operands *)

\* An operand without an error has a type, and one that designates an object can
\* be pointed to.
CheckedOperands ==
    {o \in [type : Types \cup {NoType}, lvalue : BOOLEAN, err : BOOLEAN, consts : Seq(BOOLEAN)] :
        ~o.err => o.type \in Types /\ (o.lvalue => o.type \in TypesUpTo[TypeDepth - 1])}
TypeOK ==
    /\ operands \in Seq(CheckedOperands)
    /\ failed \in BOOLEAN /\ wrote \in BOOLEAN

\* The first of the members of a sequence, and what follows it.
LEMMA Heads ==
  ASSUME NEW S, NEW s \in Seq(S), s # << >>
  PROVE  /\ 1 \in DOMAIN s /\ Head(s) = s[1]
         /\ Tail(s) \in Seq(S) /\ Len(Tail(s)) = Len(s) - 1
         /\ \A i \in 1..Len(Tail(s)) : Tail(s)[i] = s[i + 1]
BY HeadTailProperties

\* What is known of an operand as a value, and of what it points to.
LEMMA Known ==
  ASSUME NEW o, o.consts \in Seq(BOOLEAN)
  PROVE  /\ PointedTo(o) \in Seq(BOOLEAN) /\ AsValue(o) \in Seq(BOOLEAN)
         /\ \A i \in DOMAIN PointedTo(o) : i + 1 \in DOMAIN o.consts /\ PointedTo(o)[i] = o.consts[i + 1]
         /\ \A i \in DOMAIN AsValue(o) : i # 1 => i \in DOMAIN o.consts /\ AsValue(o)[i] = o.consts[i]
         /\ AsValue(o)[1] = FALSE
<1> DEFINE p == PointedTo(o)
<1>1. p \in Seq(BOOLEAN) /\ (o.consts = << >> => Len(p) = 0)
      /\ (o.consts # << >> => Len(p) = Len(o.consts) - 1 /\ \A i \in 1..Len(p) : p[i] = o.consts[i + 1])
  <2>1. CASE o.consts = << >>
    <3>1. p = << >>
      BY <2>1 DEF PointedTo
    <3>. QED
      BY <2>1, <3>1
  <2>2. CASE o.consts # << >>
    <3>1. p = Tail(o.consts)
      BY <2>2 DEF PointedTo
    <3>2. /\ Tail(o.consts) \in Seq(BOOLEAN) /\ Len(Tail(o.consts)) = Len(o.consts) - 1
          /\ \A i \in 1..Len(Tail(o.consts)) : Tail(o.consts)[i] = o.consts[i + 1]
      BY <2>2, Heads
    <3> HIDE DEF p
    <3>. QED
      BY <2>2, <3>1, <3>2, Zenon
  <2>. QED
    BY <2>1, <2>2
<1>2. ASSUME NEW i \in DOMAIN p PROVE i + 1 \in DOMAIN o.consts /\ p[i] = o.consts[i + 1]
  <2> HIDE DEF p
  <2>1. i \in 1..Len(p) /\ o.consts # << >>
    BY <1>1, <1>2
  <2>2. i + 1 \in 1..Len(o.consts)
    BY <1>1, <2>1
  <2>. QED
    BY <1>1, <2>1, <2>2
<1> HIDE DEF p
<1> DEFINE v == << FALSE >> \o p
<1>3. v \in Seq(BOOLEAN) /\ Len(v) = 1 + Len(p) /\ v[1] = FALSE
      /\ \A i \in 1..Len(p) : v[i + 1] = p[i]
  BY <1>1
<1>4. AsValue(o) = v
  BY DEF AsValue, p
<1> HIDE DEF v
<1>5. ASSUME NEW i \in DOMAIN v, i # 1 PROVE i \in DOMAIN o.consts /\ v[i] = o.consts[i]
  <2>1. i \in 2..(1 + Len(p)) /\ Len(p) \in Nat /\ DOMAIN p = 1..Len(p)
    BY <1>1, <1>3, <1>5
  <2>2. i - 1 \in 1..Len(p) /\ (i - 1) + 1 = i
    BY <2>1
  <2>3. v[i] = p[i - 1]
    BY <1>3, <2>2
  <2>4. i \in DOMAIN o.consts /\ p[i - 1] = o.consts[i]
    BY <1>2, <2>1, <2>2
  <2>. QED
    BY <2>3, <2>4
<1>. QED
  BY <1>1, <1>2, <1>3, <1>4, <1>5 DEF p

\* What either of two operands says.
LEMMA EitherKnown ==
  ASSUME NEW s \in Seq(BOOLEAN), NEW t \in Seq(BOOLEAN)
  PROVE  /\ EitherConst(s, t) \in Seq(BOOLEAN)
         /\ \A i \in DOMAIN EitherConst(s, t) :
               EitherConst(s, t)[i] => (i \in DOMAIN s /\ s[i]) \/ (i \in DOMAIN t /\ t[i])
<1> DEFINE n == IF Len(s) > Len(t) THEN Len(s) ELSE Len(t)
           e == [i \in 1..n |-> (i \in DOMAIN s /\ s[i]) \/ (i \in DOMAIN t /\ t[i])]
<1>1. n \in Nat
  OBVIOUS
<1>2. EitherConst(s, t) = e
  BY DEF EitherConst
<1>3. e \in [1..n -> BOOLEAN] /\ DOMAIN e = 1..n
  <2> HIDE DEF n
  <2>1. ASSUME NEW i \in 1..n PROVE e[i] \in BOOLEAN
    OBVIOUS
  <2>. QED
    BY <2>1
<1>4. ASSUME NEW i \in DOMAIN e, e[i] PROVE (i \in DOMAIN s /\ s[i]) \/ (i \in DOMAIN t /\ t[i])
  BY <1>4
<1> HIDE DEF n, e
<1>5. e \in Seq(BOOLEAN)
  BY <1>1, <1>3, SeqDef
<1>. QED
  BY <1>2, <1>4, <1>5

\* What is left of it that a type still says.
LEMMA VisibleKnown ==
  ASSUME NEW t \in Types, NEW s \in Seq(BOOLEAN)
  PROVE  /\ Visible(t, s) \in Seq(BOOLEAN)
         /\ \A i \in DOMAIN Visible(t, s) :
               i \in DOMAIN s /\ i \in DOMAIN ConstsOf(t) /\ Visible(t, s)[i] = s[i]
<1> DEFINE c == ConstsOf(t)
           v == [i \in DOMAIN s \cap DOMAIN c |-> s[i]]
<1>1. c \in Seq(BOOLEAN)
  BY ConstsFacts
<1>2. Visible(t, s) = v
  BY DEF Visible
<1>3. DOMAIN v = DOMAIN s \cap DOMAIN c /\ \A i \in DOMAIN v : v[i] = s[i]
  OBVIOUS
<1> HIDE DEF c
<1>4. PICK n \in Nat : DOMAIN s \cap DOMAIN c = 1..n
  <2>1. DOMAIN s = 1..Len(s) /\ DOMAIN c = 1..Len(c) /\ Len(s) \in Nat /\ Len(c) \in Nat
    BY <1>1
  <2>2. CASE Len(s) <= Len(c)
    <3>1. DOMAIN s \cap DOMAIN c = 1..Len(s)
      BY <2>1, <2>2
    <3>. QED
      BY <2>1, <3>1
  <2>3. CASE ~(Len(s) <= Len(c))
    <3>1. DOMAIN s \cap DOMAIN c = 1..Len(c)
      BY <2>1, <2>3
    <3>. QED
      BY <2>1, <3>1
  <2>. QED
    BY <2>2, <2>3
<1>5. v \in [1..n -> BOOLEAN]
  <2>1. ASSUME NEW i \in 1..n PROVE s[i] \in BOOLEAN
    BY <1>4
  <2>2. v = [i \in 1..n |-> s[i]]
    BY <1>4
  <2>. QED
    BY <2>1, <2>2
<1> HIDE DEF v
<1>6. v \in Seq(BOOLEAN)
  BY <1>5, SeqDef
<1>. QED
  BY <1>2, <1>3, <1>6 DEF c

\* An operand is the record that is built for it.
LEMMA OperandFields ==
  ASSUME NEW t, NEW lvalue \in BOOLEAN, NEW consts \in Seq(BOOLEAN),
         t \in Types, lvalue => t \in TypesUpTo[TypeDepth - 1]
  PROVE  /\ Operand(t, lvalue, consts) \in CheckedOperands
         /\ Operand(t, lvalue, consts).type = t /\ Operand(t, lvalue, consts).lvalue = lvalue
         /\ Operand(t, lvalue, consts).consts = consts /\ ~Operand(t, lvalue, consts).err
BY DEF Operand, CheckedOperands

\* So is one that is refused.
LEMMA RefusedFields ==
  /\ Refused(NoType) \in CheckedOperands /\ Refused(VOID) \in CheckedOperands
  /\ \A t : Refused(t).err
<1>1. VOID \in Types
  <2>1. BasicTypes \subseteq TypesUpTo[TypeDepth]
    <3>1. TypeDepth \in 1..TypeDepth
      BY TypesAssumption
    <3>. QED
      BY <3>1, UniverseFacts
  <2>2. VOID \in BasicTypes
    BY TypesAssumption DEF VOID, BasicTypes
  <2>. QED
    BY <2>1, <2>2 DEF Types
<1>2. << >> \in Seq(BOOLEAN)
  OBVIOUS
<1>. QED
  BY <1>1, <1>2 DEF Refused, CheckedOperands

\* What a node leaves of the operands.
LEMMA Pushes ==
  ASSUME NEW S, operands \in Seq(S), NEW n \in 0..Depth, NEW o \in S
  PROVE  Replaced(n, o) \in Seq(S)
<1>1. Depth \in Nat /\ Depth - n \in 0..Depth
  BY DEF Depth
<1>2. SubSeq(operands, 1, Depth - n) \in Seq(S)
  <2>1. \A i \in 1..(Depth - n) : operands[i] \in S
    BY <1>1 DEF Depth
  <2>. QED
    BY <1>1, <2>1, SubSeqProperties
<1>. QED
  BY <1>2 DEF Replaced


\* A node keeps what holds of every operand if it holds of what it gives.
LEMMA Nodes ==
  ASSUME NEW S, operands \in Seq(S), Refused(NoType) \in S, Refused(VOID) \in S,
         NEW n \in Nat, NEW t, NEW o, NEW writes \in BOOLEAN, Node(n, t, o, writes),
         (\A i \in 1..n : ~Nth(i).err) /\ Accepted(t) => o \in S
  PROVE  /\ operands' \in Seq(S)
         /\ failed' \in BOOLEAN
         /\ wrote \in BOOLEAN => wrote' \in BOOLEAN
         /\ ~wrote /\ ((\A i \in 1..n : ~Nth(i).err) /\ Accepted(t) => ~writes) => ~wrote'
<1> DEFINE erred == \E i \in 1..n : Nth(i).err
           x == IF erred \/ t = Bare THEN Refused(NoType)
                ELSE IF Accepted(t) THEN o ELSE Refused(VOID)
<1>1. /\ n \in 0..Depth
      /\ operands' = Replaced(n, x)
      /\ failed' = (~erred /\ t = AssertFails)
      /\ wrote' = (wrote \/ (~erred /\ Accepted(t) /\ writes))
  <2>1. Depth \in Nat
    BY DEF Depth
  <2>. QED
    BY <2>1 DEF Node
<1>2. x \in S
  OBVIOUS
<1> HIDE DEF x
<1>3. operands' \in Seq(S)
  BY <1>1, <1>2, Pushes
<1>4. /\ failed' \in BOOLEAN
      /\ wrote \in BOOLEAN => wrote' \in BOOLEAN
      /\ ~wrote /\ ((\A i \in 1..n : ~Nth(i).err) /\ Accepted(t) => ~writes) => ~wrote'
  BY <1>1
<1>. QED
  BY <1>3, <1>4

\* The operands of a node are among those that wait.
LEMMA Nths ==
  ASSUME NEW S, operands \in Seq(S), NEW i \in 1..Depth
  PROVE  Nth(i) \in S
<1>1. Depth - i + 1 \in 1..Len(operands)
  BY DEF Depth
<1>. QED
  BY <1>1 DEF Nth

\* What an operator answers of operands without errors.
LEMMA Answered ==
  ASSUME NEW n \in Nat, NEW t, \A i \in 1..n : ~Nth(i).err
  PROVE  Answer(n, t) = t
BY DEF Answer


\* An operand without an error.
Sound(o) == o \in CheckedOperands /\ ~o.err

\* Its fields, and that it is the record they make.
LEMMA SoundFields ==
  ASSUME NEW o, Sound(o)
  PROVE  /\ o.type \in Types /\ o.lvalue \in BOOLEAN /\ o.consts \in Seq(BOOLEAN)
         /\ o.lvalue => o.type \in TypesUpTo[TypeDepth - 1]
         /\ o = Operand(o.type, o.lvalue, o.consts)
BY DEF Sound, CheckedOperands, Operand

\* What is accepted is a type.
LEMMA AcceptedTypes ==
  ASSUME NEW t, Accepted(t)
  PROVE  /\ t \notin {NoType, AssertFails, Bare} /\ IsType(t)
         /\ t \in Types \cup {NoType, AssertFails, Bare} => t \in Types
BY DEF Accepted, IsType

\* What a unary operator gives is an operand with a type.
LEMMA UnaryOperands ==
  ASSUME NEW op, NEW o, Sound(o), NEW t, t = UnaryType(op, o), Accepted(t)
  PROVE  Operand(t, UnaryLvalue(op), UnaryConsts(op, o)) \in CheckedOperands
<1>1. o.type \in Types /\ o.consts \in Seq(BOOLEAN) /\ (o.lvalue => o.type \in TypesUpTo[TypeDepth - 1])
  BY SoundFields
<1>2. t \in Types /\ (UnaryLvalue(op) => t \in TypesUpTo[TypeDepth - 1]) /\ t # NoType
  BY <1>1, UnaryTypes, AcceptedTypes
<1>3. UnaryLvalue(op) \in BOOLEAN
  BY DEF UnaryLvalue
<1>4. UnaryConsts(op, o) \in Seq(BOOLEAN)
  <2>1. PointedTo(o) \in Seq(BOOLEAN) /\ AsValue(o) \in Seq(BOOLEAN)
    BY <1>1, Known
  <2>2. << FALSE >> \in Seq(BOOLEAN) /\ << FALSE >> \o o.consts \in Seq(BOOLEAN)
    BY <1>1
  <2>3. UnaryConsts(op, o) \in {<< FALSE >> \o o.consts, PointedTo(o), AsValue(o), << FALSE >>}
    BY Zenon DEF UnaryConsts
  <2>. QED
    BY <2>1, <2>2, <2>3
<1>. QED
  BY <1>2, <1>3, <1>4, OperandFields

\* What a binary operator gives is an operand with a type.
LEMMA BinaryOperands ==
  ASSUME NEW op, NEW l, NEW r, Sound(l), Sound(r), NEW t, t = BinaryType(op, l, r), Accepted(t)
  PROVE  Operand(t, FALSE, Visible(t, BinaryConsts(op, l, r))) \in CheckedOperands
<1>1. l.type \in Types /\ r.type \in Types /\ l.consts \in Seq(BOOLEAN) /\ r.consts \in Seq(BOOLEAN)
  BY SoundFields
<1>2. t \in Types
  BY <1>1, BinaryTypes, AcceptedTypes DEF Answers
<1>3. BinaryConsts(op, l, r) \in Seq(BOOLEAN)
  <2>0. << FALSE >> \in Seq(BOOLEAN)
    OBVIOUS
  <2>1. AsValue(l) \in Seq(BOOLEAN) /\ AsValue(r) \in Seq(BOOLEAN)
    BY <1>1, Known
  <2>2. EitherConst(AsValue(l), AsValue(r)) \in Seq(BOOLEAN)
    BY <2>1, EitherKnown
  <2>3. BinaryConsts(op, l, r) \in
           {EitherConst(AsValue(l), AsValue(r)), AsValue(l), AsValue(r), << FALSE >>}
    BY Zenon DEF BinaryConsts
  <2>. QED
    BY <2>0, <2>1, <2>2, <2>3
<1>4. Visible(t, BinaryConsts(op, l, r)) \in Seq(BOOLEAN)
  BY <1>2, <1>3, VisibleKnown
<1>. QED
  BY <1>2, <1>4, OperandFields

\* The type of an index.
IndexType(a, i) ==
    IF PointsTo(a) /\ IsType(IntCompatible(i)) THEN CopyOf(a.to) ELSE NoType

\* An element is an operand with the type the array or pointer points to.
LEMMA IndexOperands ==
  ASSUME NEW a, NEW i, Sound(a), Sound(i), NEW t, t = IndexType(a.type, i.type), Accepted(t)
  PROVE  /\ Operand(t, TRUE, PointedTo(a)) \in CheckedOperands
         /\ PointsTo(a.type) /\ t = a.type.to
<1>1. a.type \in Types /\ a.consts \in Seq(BOOLEAN)
  BY SoundFields
<1>2. t # NoType /\ t # AssertFails
  BY AcceptedTypes
<1>3. PointsTo(a.type) /\ t = a.type.to
  <2>1. CopyOf(a.type.to) \in {a.type.to, AssertFails}
    BY Copies
  <2>. QED
    BY <1>2, <2>1 DEF IndexType
<1>4. t \in TypesUpTo[TypeDepth - 1] /\ t \in Types
  BY <1>1, <1>3, InTypes
<1>5. PointedTo(a) \in Seq(BOOLEAN)
  BY <1>1, Known
<1>. QED
  BY <1>3, <1>4, <1>5, OperandFields

\* What is known of a member.
LEMMA MembersKnown ==
  ASSUME NEW s \in Types, NEW f, Accepted(MemberType(s, f)), NEW isConst \in BOOLEAN
  PROVE  /\ MemberConsts(s, isConst, f) \in Seq(BOOLEAN)
         /\ DOMAIN MemberConsts(s, isConst, f) = DOMAIN ConstsOf(Members(s.id)[f])
         /\ \A i \in DOMAIN MemberConsts(s, isConst, f) :
               MemberConsts(s, isConst, f)[i] =>
                  \/ ConstsOf(Members(s.id)[f])[i]
                  \/ isConst /\ (i = 1 \/ Members(s.id)[f].basic = "ARRAY")
<1> DEFINE m == Members(s.id)[f]
           c == ConstsOf(m)
           k == [i \in DOMAIN c |-> c[i] \/ (isConst /\ (i = 1 \/ (i = 2 /\ m.basic = "ARRAY")))]
<1>1. m \in Types
  BY MemberTypes, InTypes
<1>2. c \in Seq(BOOLEAN)
  BY <1>1, ConstsFacts
<1>3. MemberConsts(s, isConst, f) = k
  BY Zenon DEF MemberConsts
<1>4. DOMAIN k = DOMAIN c
      /\ \A i \in DOMAIN c : k[i] = (c[i] \/ (isConst /\ (i = 1 \/ (i = 2 /\ m.basic = "ARRAY"))))
  OBVIOUS
<1> HIDE DEF m, c
<1>5. k \in [1..Len(c) -> BOOLEAN] /\ Len(c) \in Nat
  BY <1>2
<1> HIDE DEF k
<1>6. k \in Seq(BOOLEAN)
  BY <1>5, SeqDef
<1>7. ASSUME NEW i \in DOMAIN k, k[i] PROVE c[i] \/ (isConst /\ (i = 1 \/ m.basic = "ARRAY"))
  BY <1>4, <1>7
<1>. QED
  BY <1>3, <1>4, <1>6, <1>7 DEF c, m

\* The member f of a struct or union of the type s, const if isConst.
LEMMA MemberOperands ==
  ASSUME NEW s \in Types, NEW f, NEW lvalue \in BOOLEAN, NEW isConst \in BOOLEAN,
         NEW t, t = MemberType(s, f), Accepted(t)
  PROVE  Operand(t, lvalue, MemberConsts(s, isConst, f)) \in CheckedOperands
<1>1. t \in TypesUpTo[TypeDepth - 1] /\ t \in Types
  BY MemberTypes, InTypes
<1>2. MemberConsts(s, isConst, f) \in Seq(BOOLEAN)
  BY MembersKnown
<1>. QED
  BY <1>1, <1>2, OperandFields

\* A value of which nothing is known.
LEMMA PlainOperands ==
  ASSUME NEW t \in Types
  PROVE  Operand(t, FALSE, << FALSE >>) \in CheckedOperands
<1>1. << FALSE >> \in Seq(BOOLEAN)
  OBVIOUS
<1>. QED
  BY <1>1, OperandFields

\* What a conditional gives is an operand with a type.
LEMMA ConditionalOperands ==
  ASSUME NEW c, NEW a, NEW b, Sound(a), Sound(b),
         NEW t, t = ConditionalType(c, a.type, b.type), Accepted(t)
  PROVE  Operand(t, FALSE, EitherConst(AsValue(a), AsValue(b))) \in CheckedOperands
<1>1. a.type \in Types /\ b.type \in Types /\ a.consts \in Seq(BOOLEAN) /\ b.consts \in Seq(BOOLEAN)
  BY SoundFields
<1>2. t \in Types
  BY <1>1, ConditionalTypes, AcceptedTypes DEF Answers
<1>3. EitherConst(AsValue(a), AsValue(b)) \in Seq(BOOLEAN)
  BY <1>1, Known, EitherKnown
<1>. QED
  BY <1>2, <1>3, OperandFields


------------------------------------------------------------------------------
(* The steps of the walk *)

\* What the pointer to a struct gives its members.
PointerMemberType(t, f) == IF t.basic = "POINTER" THEN MemberType(t.to, f) ELSE Bare
PointsToConst(o)        == PointedTo(o) # << >> /\ Head(PointedTo(o))

TypesOf(args, n) == [i \in 1..n |-> args[i].type]
Callable(f, args, n) ==
    ~f.err /\ (\A i \in 1..n : ~args[i].err) /\ Accepted(CallType(f.type, TypesOf(args, n)))

\* No operator over operands of S gives one that is not of S.
ClosedUnary(S) == \A op \in UnaryOps : \A o \in S :
    ~o.err /\ Accepted(UnaryType(op, o)) =>
        Operand(UnaryType(op, o), UnaryLvalue(op), UnaryConsts(op, o)) \in S
ClosedBinary(S) == \A op \in BinaryOps : \A l \in S : \A r \in S :
    ~l.err /\ ~r.err /\ Accepted(BinaryType(op, l, r)) =>
        Operand(BinaryType(op, l, r), FALSE,
                Visible(BinaryType(op, l, r), BinaryConsts(op, l, r))) \in S
ClosedIndex(S) == \A a \in S : \A i \in S :
    ~a.err /\ ~i.err /\ Accepted(IndexType(a.type, i.type)) =>
        Operand(IndexType(a.type, i.type), TRUE, PointedTo(a)) \in S
ClosedMember(S) == \A f \in Fields : \A o \in S :
    ~o.err /\ Accepted(MemberType(o.type, f)) =>
        Operand(MemberType(o.type, f), o.lvalue, MemberConsts(o.type, Designated(o), f)) \in S
ClosedPointerMember(S) == \A f \in Fields : \A o \in S :
    ~o.err /\ Accepted(PointerMemberType(o.type, f)) =>
        Operand(PointerMemberType(o.type, f), TRUE,
                MemberConsts(o.type.to, PointsToConst(o), f)) \in S
ClosedCast(S) == \A to \in CastTypes : \A o \in S :
    ~o.err /\ Accepted(ExplicitCastTo(o.type, to)) =>
        Operand(ExplicitCastTo(o.type, to), FALSE, << FALSE >>) \in S
ClosedCall(S) == \A n \in Nat : \A f \in S : \A args \in [1..n -> S] :
    Callable(f, args, n) =>
        Operand(CallType(f.type, TypesOf(args, n)), FALSE, << FALSE >>) \in S
ClosedConditional(S) == \A c \in S : \A a \in S : \A b \in S :
    ~c.err /\ ~a.err /\ ~b.err /\ Accepted(ConditionalType(c.type, a.type, b.type)) =>
        Operand(ConditionalType(c.type, a.type, b.type), FALSE,
                EitherConst(AsValue(a), AsValue(b))) \in S
ClosedList(S) == \A o \in S : ~o.err => [o EXCEPT !.lvalue = FALSE] \in S
Closed(S) ==
    /\ S \subseteq CheckedOperands /\ Leaves \subseteq S
    /\ Refused(NoType) \in S /\ Refused(VOID) \in S
    /\ ClosedUnary(S) /\ ClosedBinary(S) /\ ClosedIndex(S)
    /\ ClosedMember(S) /\ ClosedPointerMember(S)
    /\ ClosedCast(S) /\ ClosedCall(S) /\ ClosedConditional(S) /\ ClosedList(S)

\* No operator over operands of S writes to an object declared const, or makes a
\* pointer that allows it.
HarmlessUnary(S) == \A op \in UnaryOps : \A o \in S :
    ~o.err /\ Accepted(UnaryType(op, o)) => ~(op \in Steps /\ WritesConst(o))
HarmlessBinary(S) == \A op \in BinaryOps : \A l \in S : \A r \in S :
    ~l.err /\ ~r.err /\ Accepted(BinaryType(op, l, r)) =>
        ~(op \in Writes /\ (WritesConst(l) \/ Launders(r, l.type)))
HarmlessCall(S) == \A n \in Nat : \A f \in S : \A args \in [1..n -> S] :
    Callable(f, args, n) =>
        ~\E i \in DOMAIN Callee(f.type).params : Launders(args[i], Callee(f.type).params[i])
Harmless(S) == HarmlessUnary(S) /\ HarmlessBinary(S) /\ HarmlessCall(S)

\* What a step over operands of S leaves.
Kept(S) ==
    /\ operands' \in Seq(S)
    /\ failed \in BOOLEAN /\ wrote \in BOOLEAN => failed' \in BOOLEAN /\ wrote' \in BOOLEAN
    /\ Harmless(S) /\ ~wrote => ~wrote'

\* A leaf.
LEMMA LeafKeeps ==
  ASSUME NEW S, Closed(S), operands \in Seq(S), NEW o \in Leaves, Leaf(o)
  PROVE  Kept(S)
<1>1. Node(0, o.type, o, FALSE)
  BY DEF Leaf
<1>2. o \in S /\ Refused(NoType) \in S /\ Refused(VOID) \in S
  BY DEF Closed
<1>3. FALSE \in BOOLEAN /\ 0 \in Nat
  OBVIOUS
<1>. QED
  BY <1>1, <1>2, <1>3, Nodes DEF Kept

\* A name that is not declared.
LEMMA UndeclaredKeeps ==
  ASSUME NEW S, Closed(S), operands \in Seq(S), Undeclared
  PROVE  Kept(S)
<1>1. Node(0, NoType, Refused(VOID), FALSE)
  BY DEF Undeclared
<1>2. Refused(NoType) \in S /\ Refused(VOID) \in S
  BY DEF Closed
<1>3. FALSE \in BOOLEAN /\ 0 \in Nat
  OBVIOUS
<1>. QED
  BY <1>1, <1>2, <1>3, Nodes DEF Kept

\* A unary operator over operands of S.
LEMMA UnaryKeeps ==
  ASSUME NEW S, Closed(S), operands \in Seq(S), NEW op \in UnaryOps, Unary(op)
  PROVE  Kept(S)
<1> DEFINE o == Nth(1)
           t == Answer(1, UnaryType(op, o))
           x == Operand(t, UnaryLvalue(op), UnaryConsts(op, o))
           w == op \in Steps /\ WritesConst(o)
<1>1. Node(1, t, x, w)
  BY DEF Unary
<1>2. Refused(NoType) \in S /\ Refused(VOID) \in S /\ ClosedUnary(S)
  BY DEF Closed
<1>3. w \in BOOLEAN /\ 1 \in Nat
  OBVIOUS
<1>4. o \in S
  <2>1. 1 \in 1..Depth
    BY DEF Unary, Depth
  <2>. QED
    BY <2>1, Nths
<1>5. ASSUME \A i \in 1..1 : ~Nth(i).err, Accepted(t)
      PROVE  x \in S /\ (Harmless(S) => ~w)
  <2>1. t = UnaryType(op, o) /\ ~o.err
    BY <1>5, Answered
  <2>2. x \in S
    BY <1>2, <1>4, <1>5, <2>1 DEF ClosedUnary
  <2>3. Harmless(S) => ~w
    BY <1>4, <1>5, <2>1 DEF Harmless, HarmlessUnary
  <2>. QED
    BY <2>2, <2>3
<1> HIDE DEF o, t, x, w
<1>. QED
  BY <1>1, <1>2, <1>3, <1>5, Nodes DEF Kept

\* A binary operator over operands of S.
LEMMA BinaryKeeps ==
  ASSUME NEW S, Closed(S), operands \in Seq(S), NEW op \in BinaryOps, Binary(op)
  PROVE  Kept(S)
<1> DEFINE l == Nth(2)
           r == Nth(1)
           t == Answer(2, BinaryType(op, l, r))
           x == Operand(t, FALSE, Visible(t, BinaryConsts(op, l, r)))
           w == op \in Writes /\ (WritesConst(l) \/ Launders(r, l.type))
<1>1. Node(2, t, x, w)
  BY DEF Binary
<1>2. Refused(NoType) \in S /\ Refused(VOID) \in S /\ ClosedBinary(S)
  BY DEF Closed
<1>3. w \in BOOLEAN /\ 2 \in Nat
  OBVIOUS
<1>4. l \in S /\ r \in S
  <2>1. 1 \in 1..Depth /\ 2 \in 1..Depth
    BY DEF Binary, Depth
  <2>. QED
    BY <2>1, Nths
<1>5. ASSUME \A i \in 1..2 : ~Nth(i).err, Accepted(t)
      PROVE  x \in S /\ (Harmless(S) => ~w)
  <2>1. t = BinaryType(op, l, r) /\ ~l.err /\ ~r.err
    BY <1>5, Answered
  <2>2. x \in S
    BY <1>2, <1>4, <1>5, <2>1 DEF ClosedBinary
  <2>3. Harmless(S) => ~w
    BY <1>4, <1>5, <2>1 DEF Harmless, HarmlessBinary
  <2>. QED
    BY <2>2, <2>3
<1> HIDE DEF l, r, t, x, w
<1>. QED
  BY <1>1, <1>2, <1>3, <1>5, Nodes DEF Kept

\* An index over operands of S.
LEMMA IndexingKeeps ==
  ASSUME NEW S, Closed(S), operands \in Seq(S), Indexing
  PROVE  Kept(S)
<1> DEFINE a == Nth(2)
           i == Nth(1)
           t == Answer(2, IndexType(a.type, i.type))
           x == Operand(t, TRUE, PointedTo(a))
<1>1. Node(2, t, x, FALSE)
  BY Zenon DEF Indexing, IndexType
<1>2. Refused(NoType) \in S /\ Refused(VOID) \in S /\ ClosedIndex(S)
  BY DEF Closed
<1>3. FALSE \in BOOLEAN /\ 2 \in Nat
  OBVIOUS
<1>4. a \in S /\ i \in S
  <2>1. 1 \in 1..Depth /\ 2 \in 1..Depth
    BY DEF Indexing, Depth
  <2>. QED
    BY <2>1, Nths
<1>5. ASSUME \A k \in 1..2 : ~Nth(k).err, Accepted(t)
      PROVE  x \in S
  <2>1. t = IndexType(a.type, i.type) /\ ~a.err /\ ~i.err
    BY <1>5, Answered
  <2>. QED
    BY <1>2, <1>4, <1>5, <2>1 DEF ClosedIndex
<1> HIDE DEF a, i, t, x
<1>. QED
  BY <1>1, <1>2, <1>3, <1>5, Nodes DEF Kept


\* A member of an operand of S.
LEMMA MemberKeeps ==
  ASSUME NEW S, Closed(S), operands \in Seq(S), NEW f \in Fields, MemberAccess(f)
  PROVE  Kept(S)
<1> DEFINE o == Nth(1)
           t == Answer(1, MemberType(o.type, f))
           x == Operand(t, o.lvalue, MemberConsts(o.type, Designated(o), f))
<1>1. Node(1, t, x, FALSE)
  BY DEF MemberAccess
<1>2. Refused(NoType) \in S /\ Refused(VOID) \in S /\ ClosedMember(S)
  BY DEF Closed
<1>3. FALSE \in BOOLEAN /\ 1 \in Nat
  OBVIOUS
<1>4. o \in S
  <2>1. 1 \in 1..Depth
    BY DEF MemberAccess, Depth
  <2>. QED
    BY <2>1, Nths
<1>5. ASSUME \A k \in 1..1 : ~Nth(k).err, Accepted(t)
      PROVE  x \in S
  <2>1. t = MemberType(o.type, f) /\ ~o.err
    BY <1>5, Answered
  <2>. QED
    BY <1>2, <1>4, <1>5, <2>1 DEF ClosedMember
<1> HIDE DEF o, t, x
<1>. QED
  BY <1>1, <1>2, <1>3, <1>5, Nodes DEF Kept

\* A member of what an operand of S points to.
LEMMA PointerMemberKeeps ==
  ASSUME NEW S, Closed(S), operands \in Seq(S), NEW f \in Fields, PointerMemberAccess(f)
  PROVE  Kept(S)
<1> DEFINE o == Nth(1)
           t == Answer(1, PointerMemberType(o.type, f))
           x == Operand(t, TRUE, MemberConsts(o.type.to, PointsToConst(o), f))
<1>1. Node(1, t, x, FALSE)
  BY Zenon DEF PointerMemberAccess, PointerMemberType, PointsToConst
<1>2. Refused(NoType) \in S /\ Refused(VOID) \in S /\ ClosedPointerMember(S)
  BY DEF Closed
<1>3. FALSE \in BOOLEAN /\ 1 \in Nat
  OBVIOUS
<1>4. o \in S
  <2>1. 1 \in 1..Depth
    <3>1. Depth >= 1
      BY Zenon DEF PointerMemberAccess
    <3>. QED
      BY <3>1 DEF Depth
  <2>. QED
    BY <2>1, Nths
<1>5. ASSUME \A k \in 1..1 : ~Nth(k).err, Accepted(t)
      PROVE  x \in S
  <2>1. t = PointerMemberType(o.type, f) /\ ~o.err
    BY <1>5, Answered
  <2>. QED
    BY <1>2, <1>4, <1>5, <2>1 DEF ClosedPointerMember
<1> HIDE DEF o, t, x
<1>. QED
  BY <1>1, <1>2, <1>3, <1>5, Nodes DEF Kept

\* A cast of an operand of S.
LEMMA CastKeeps ==
  ASSUME NEW S, Closed(S), operands \in Seq(S), NEW to \in CastTypes, Cast(to)
  PROVE  Kept(S)
<1> DEFINE o == Nth(1)
           t == Answer(1, ExplicitCastTo(o.type, to))
           x == Operand(t, FALSE, << FALSE >>)
<1>1. Node(1, t, x, FALSE)
  BY DEF Cast
<1>2. Refused(NoType) \in S /\ Refused(VOID) \in S /\ ClosedCast(S)
  BY DEF Closed
<1>3. FALSE \in BOOLEAN /\ 1 \in Nat
  OBVIOUS
<1>4. o \in S
  <2>1. 1 \in 1..Depth
    BY DEF Cast, Depth
  <2>. QED
    BY <2>1, Nths
<1>5. ASSUME \A k \in 1..1 : ~Nth(k).err, Accepted(t)
      PROVE  x \in S
  <2>1. t = ExplicitCastTo(o.type, to) /\ ~o.err
    BY <1>5, Answered
  <2>. QED
    BY <1>2, <1>4, <1>5, <2>1 DEF ClosedCast
<1> HIDE DEF o, t, x
<1>. QED
  BY <1>1, <1>2, <1>3, <1>5, Nodes DEF Kept

\* A call with operands of S.
LEMMA CallKeeps ==
  ASSUME NEW S, Closed(S), operands \in Seq(S), NEW n \in Nat, Call(n)
  PROVE  Kept(S)
<1> DEFINE f == Nth(n + 1)
           args == [i \in 1..n |-> Nth(n - i + 1)]
           t == Answer(n + 1, CallType(f.type, TypesOf(args, n)))
           x == Operand(t, FALSE, << FALSE >>)
           w == \E i \in DOMAIN Callee(f.type).params : Launders(args[i], Callee(f.type).params[i])
<1>1. Node(n + 1, t, x, w) /\ Depth >= n + 1
  BY Zenon DEF Call, TypesOf
<1>2. Refused(NoType) \in S /\ Refused(VOID) \in S /\ ClosedCall(S)
  BY DEF Closed
<1>3. w \in BOOLEAN /\ n + 1 \in Nat
  OBVIOUS
<1>4. f \in S /\ args \in [1..n -> S]
  <2>1. Depth \in Nat
    BY DEF Depth
  <2>2. n + 1 \in 1..Depth /\ \A i \in 1..n : n - i + 1 \in 1..Depth
    BY <1>1, <2>1
  <2>3. f \in S
    BY <2>2, Nths
  <2>4. ASSUME NEW i \in 1..n PROVE Nth(n - i + 1) \in S
    BY <2>2, Nths
  <2>. QED
    BY <2>3, <2>4
<1>5. ASSUME \A k \in 1..(n + 1) : ~Nth(k).err, Accepted(t)
      PROVE  x \in S /\ (Harmless(S) => ~w)
  <2>1. t = CallType(f.type, TypesOf(args, n))
    BY <1>3, <1>5, Answered
  <2>2. ~f.err /\ \A i \in 1..n : ~args[i].err
    <3>1. n + 1 \in 1..(n + 1)
      OBVIOUS
    <3>2. ASSUME NEW i \in 1..n PROVE ~args[i].err
      <4>1. n - i + 1 \in 1..(n + 1) /\ args[i] = Nth(n - i + 1)
        OBVIOUS
      <4>. QED
        BY <1>5, <4>1
    <3>. QED
      BY <1>5, <3>1, <3>2
  <2> HIDE DEF f, args, t
  <2>3. Callable(f, args, n)
    BY <1>5, <2>1, <2>2 DEF Callable
  <2>4. x \in S
    BY <1>2, <1>4, <2>1, <2>3 DEF ClosedCall
  <2>5. Harmless(S) => ~w
    BY <1>4, <2>3, Zenon DEF Harmless, HarmlessCall
  <2>. QED
    BY <2>4, <2>5
<1> HIDE DEF f, args, t, x, w
<1>. QED
  BY <1>1, <1>2, <1>3, <1>5, Nodes DEF Kept

\* A conditional over operands of S.
LEMMA ConditionalKeeps ==
  ASSUME NEW S, Closed(S), operands \in Seq(S), Conditional
  PROVE  Kept(S)
<1> DEFINE c == Nth(3)
           a == Nth(2)
           b == Nth(1)
           t == Answer(3, ConditionalType(c.type, a.type, b.type))
           x == Operand(t, FALSE, EitherConst(AsValue(a), AsValue(b)))
<1>1. Node(3, t, x, FALSE)
  BY DEF Conditional
<1>2. Refused(NoType) \in S /\ Refused(VOID) \in S /\ ClosedConditional(S)
  BY DEF Closed
<1>3. FALSE \in BOOLEAN /\ 3 \in Nat
  OBVIOUS
<1>4. a \in S /\ b \in S /\ c \in S
  <2>1. 1 \in 1..Depth /\ 2 \in 1..Depth /\ 3 \in 1..Depth
    BY DEF Conditional, Depth
  <2>. QED
    BY <2>1, Nths
<1>5. ASSUME \A k \in 1..3 : ~Nth(k).err, Accepted(t)
      PROVE  x \in S
  <2>1. t = ConditionalType(c.type, a.type, b.type) /\ ~a.err /\ ~b.err /\ ~c.err
    BY <1>5, Answered
  <2>. QED
    BY <1>2, <1>4, <1>5, <2>1 DEF ClosedConditional
<1> HIDE DEF a, b, c, t, x
<1>. QED
  BY <1>1, <1>2, <1>3, <1>5, Nodes DEF Kept

\* A list of operands of S.
LEMMA ExprListKeeps ==
  ASSUME NEW S, Closed(S), operands \in Seq(S), NEW n \in 1..2, ExprList(n)
  PROVE  Kept(S)
<1> DEFINE o == Nth(1)
           x == IF o.type = NoType THEN Refused(NoType)
                ELSE IF \E i \in 1..n : Nth(i).err THEN Refused(VOID)
                ELSE [o EXCEPT !.lvalue = FALSE]
<1>1. /\ operands' = Replaced(n, x) /\ wrote' = wrote /\ failed' = (o.type = NoType)
      /\ Depth >= n
  BY DEF ExprList
<1>2. Refused(NoType) \in S /\ Refused(VOID) \in S /\ ClosedList(S)
  BY DEF Closed
<1>3. n \in 0..Depth /\ 1 \in 1..Depth /\ 1 \in 1..n
  BY <1>1 DEF Depth
<1>4. o \in S
  BY <1>3, Nths
<1>5. x \in S
  <2>1. (\A i \in 1..n : ~Nth(i).err) => ~o.err
    BY <1>3
  <2> HIDE DEF o
  <2>. QED
    BY <1>2, <1>4, <2>1 DEF ClosedList
<1> HIDE DEF x
<1>6. operands' \in Seq(S)
  BY <1>1, <1>3, <1>5, Pushes
<1>7. failed' \in BOOLEAN
  BY <1>1
<1>. QED
  BY <1>1, <1>6, <1>7 DEF Kept

\* Every step over operands of S gives operands of S.
LEMMA Steps_ ==
  ASSUME NEW S, Closed(S), operands \in Seq(S), [Next]_vars
  PROVE  Kept(S)
<1>1. CASE UNCHANGED vars
  BY <1>1 DEF vars, Kept
<1>2. CASE \E o \in Leaves : Leaf(o)
  BY <1>2, LeafKeeps
<1>3. CASE Undeclared
  BY <1>3, UndeclaredKeeps
<1>4. CASE \E op \in UnaryOps : Unary(op)
  BY <1>4, UnaryKeeps
<1>5. CASE \E op \in BinaryOps : Binary(op)
  BY <1>5, BinaryKeeps
<1>6. CASE Indexing
  BY <1>6, IndexingKeeps
<1>7. CASE \E f \in Fields : MemberAccess(f) \/ PointerMemberAccess(f)
  BY <1>7, MemberKeeps, PointerMemberKeeps
<1>8. CASE \E t \in CastTypes : Cast(t)
  BY <1>8, CastKeeps
<1>9. CASE \E n \in 0..1 : Call(n)
  <2>1. PICK n \in 0..1 : Call(n)
    BY <1>9
  <2>2. n \in Nat
    OBVIOUS
  <2>. QED
    BY <2>1, <2>2, CallKeeps
<1>10. CASE Conditional
  BY <1>10, ConditionalKeeps
<1>11. CASE \E n \in 1..2 : ExprList(n)
  BY <1>11, ExprListKeeps
<1>. QED
  BY <1>1, <1>2, <1>3, <1>4, <1>5, <1>6, <1>7, <1>8, <1>9, <1>10, <1>11 DEF Next


------------------------------------------------------------------------------
(* Every operand has a type *)

\* No operator over operands with types gives one that has none.
LEMMA CheckedClosed ==
  Closed(CheckedOperands)
<1>0. \A o \in CheckedOperands : ~o.err => Sound(o)
  BY DEF Sound
<1>1. Leaves \subseteq CheckedOperands
  <2>1. ASSUME NEW o \in Leaves PROVE o \in CheckedOperands
    <3>1. o.consts \in Seq(BOOLEAN)
      <4>1. << FALSE >> \in Seq(BOOLEAN)
        OBVIOUS
      <4>2. ConstsOf(o.type) \in Seq(BOOLEAN)
        BY LeavesAssumption, ConstsFacts
      <4>. QED
        BY <4>1, <4>2, LeavesAssumption
    <3>2. /\ o = Operand(o.type, o.lvalue, o.consts)
          /\ o.type \in Types /\ o.lvalue \in BOOLEAN
          /\ o.lvalue => o.type \in TypesUpTo[TypeDepth - 1]
      BY LeavesAssumption
    <3>3. Operand(o.type, o.lvalue, o.consts) \in CheckedOperands
      BY <3>1, <3>2, OperandFields
    <3>. QED
      BY <3>2, <3>3
  <2>. QED
    BY <2>1
<1>2. ClosedUnary(CheckedOperands)
  BY <1>0, UnaryOperands DEF ClosedUnary
<1>3. ClosedBinary(CheckedOperands)
  BY <1>0, BinaryOperands DEF ClosedBinary
<1>4. ClosedIndex(CheckedOperands)
  BY <1>0, IndexOperands DEF ClosedIndex
<1>5. ClosedMember(CheckedOperands)
  <2>1. ASSUME NEW f \in Fields, NEW o \in CheckedOperands, ~o.err, Accepted(MemberType(o.type, f))
        PROVE  Operand(MemberType(o.type, f), o.lvalue, MemberConsts(o.type, Designated(o), f))
                  \in CheckedOperands
    <3>1. Designated(o) \in BOOLEAN
      BY DEF Designated
    <3>2. o.type \in Types /\ o.lvalue \in BOOLEAN
      BY <1>0, <2>1, SoundFields
    <3>. QED
      BY <2>1, <3>1, <3>2, MemberOperands
  <2>. QED
    BY <2>1 DEF ClosedMember
<1>6. ClosedPointerMember(CheckedOperands)
  <2>1. ASSUME NEW f \in Fields, NEW o \in CheckedOperands, ~o.err,
               Accepted(PointerMemberType(o.type, f))
        PROVE  Operand(PointerMemberType(o.type, f), TRUE,
                       MemberConsts(o.type.to, PointsToConst(o), f)) \in CheckedOperands
    <3>1. PointsToConst(o) \in BOOLEAN
      BY DEF PointsToConst
    <3>2. o.type \in Types
      BY <1>0, <2>1, SoundFields
    <3>3. o.type.basic = "POINTER" /\ PointerMemberType(o.type, f) = MemberType(o.type.to, f)
      BY <2>1, AcceptedTypes DEF PointerMemberType
    <3>4. o.type.to \in Types
      BY <3>2, <3>3, InTypes DEF PointsTo
    <3>5. TRUE \in BOOLEAN
      OBVIOUS
    <3>. QED
      BY <2>1, <3>1, <3>3, <3>4, <3>5, MemberOperands
  <2>. QED
    BY <2>1 DEF ClosedPointerMember
<1>7. ClosedCast(CheckedOperands)
  <2>1. ASSUME NEW to \in CastTypes, NEW o \in CheckedOperands, ~o.err,
               Accepted(ExplicitCastTo(o.type, to))
        PROVE  ExplicitCastTo(o.type, to) \in Types
    <3>1. o.type \in Types /\ to \in Types
      BY <1>0, <2>1, SoundFields, CastTypesAssumption
    <3>2. ExplicitCastTo(o.type, to) \in {to, NoType}
      BY <3>1, ExplicitCasts
    <3>. QED
      BY <2>1, <3>1, <3>2, AcceptedTypes
  <2>. QED
    BY <2>1, PlainOperands DEF ClosedCast
<1>8. ClosedCall(CheckedOperands)
  <2>1. ASSUME NEW n \in Nat, NEW f \in CheckedOperands, NEW args \in [1..n -> CheckedOperands],
               Callable(f, args, n)
        PROVE  CallType(f.type, TypesOf(args, n)) \in Types
    <3>1. ~f.err /\ Accepted(CallType(f.type, TypesOf(args, n)))
      BY <2>1 DEF Callable
    <3>2. f.type \in Types
      BY <1>0, <3>1, SoundFields
    <3>. QED
      BY <3>1, <3>2, CallTypes, AcceptedTypes
  <2>. QED
    BY <2>1, PlainOperands DEF ClosedCall
<1>9. ClosedConditional(CheckedOperands)
  BY <1>0, ConditionalOperands DEF ClosedConditional
<1>10. ClosedList(CheckedOperands)
  BY DEF ClosedList, CheckedOperands
<1>. QED
  BY <1>1, <1>2, <1>3, <1>4, <1>5, <1>6, <1>7, <1>8, <1>9, <1>10, RefusedFields DEF Closed

\* Every operand that no error was reported of has a type, and what it designates
\* has one that can be pointed to: the types the operators give are never nested
\* deeper than those they are given allow.
THEOREM Typed == Spec => []TypeOK
<1>1. Init => TypeOK
  <2>1. << >> \in Seq(CheckedOperands)
    OBVIOUS
  <2>. QED
    BY <2>1 DEF Init, TypeOK
<1>2. TypeOK /\ [Next]_vars => TypeOK'
  <2>1. SUFFICES ASSUME TypeOK, [Next]_vars PROVE TypeOK'
    OBVIOUS
  <2>2. Kept(CheckedOperands)
    BY <2>1, CheckedClosed, Steps_ DEF TypeOK
  <2>. QED
    BY <2>1, <2>2 DEF TypeOK, Kept
<1>. QED
  BY <1>1, <1>2, PTL DEF Spec


------------------------------------------------------------------------------
(* What the types of the operands show *)

\* The type t shows the consts c of what is pointed to, and the one of its object.
Below(t, c) ==
    \A i \in DOMAIN c : c[i] /\ i # 1 => i \in DOMAIN ConstsOf(t) /\ ConstsOf(t)[i]
Top(t, c)   == 1 \in DOMAIN c /\ c[1] => "const" \in t.q

ShownOperands ==
    {o \in CheckedOperands :
        ~o.err => Below(o.type, o.consts) /\ (o.lvalue => Top(o.type, o.consts))}

\* A const of no object that t points to.
LEMMA ConstsDomain ==
  ASSUME NEW t \in Types
  PROVE  /\ DOMAIN ConstsOf(t) = 1..Len(ConstsOf(t)) /\ Len(ConstsOf(t)) \in Nat
         /\ PointsTo(t) =>
               /\ t.to \in Types
               /\ \A i \in 1..Len(ConstsOf(t.to)) :
                     i + 1 \in DOMAIN ConstsOf(t) /\ ConstsOf(t)[i + 1] = ConstsOf(t.to)[i]
               /\ \A i \in DOMAIN ConstsOf(t) : i # 1 =>
                     i - 1 \in 1..Len(ConstsOf(t.to)) /\ ConstsOf(t)[i] = ConstsOf(t.to)[i - 1]
         /\ ~PointsTo(t) => DOMAIN ConstsOf(t) = {1}
<1>1. ConstsOf(t) \in Seq(BOOLEAN)
  BY ConstsFacts
<1>2. DOMAIN ConstsOf(t) = 1..Len(ConstsOf(t)) /\ Len(ConstsOf(t)) \in Nat
  BY <1>1
<1>3. ASSUME PointsTo(t)
      PROVE  /\ t.to \in Types
             /\ \A i \in 1..Len(ConstsOf(t.to)) :
                   i + 1 \in DOMAIN ConstsOf(t) /\ ConstsOf(t)[i + 1] = ConstsOf(t.to)[i]
             /\ \A i \in DOMAIN ConstsOf(t) : i # 1 =>
                   i - 1 \in 1..Len(ConstsOf(t.to)) /\ ConstsOf(t)[i] = ConstsOf(t.to)[i - 1]
  <2>1. /\ t.to \in Types
        /\ Len(ConstsOf(t)) = 1 + Len(ConstsOf(t.to))
        /\ \A i \in 1..Len(ConstsOf(t.to)) : ConstsOf(t)[i + 1] = ConstsOf(t.to)[i]
    BY <1>3, ConstsFacts
  <2>2. Len(ConstsOf(t.to)) \in Nat
    BY <2>1, ConstsFacts
  <2>3. ASSUME NEW i \in DOMAIN ConstsOf(t), i # 1
        PROVE  i - 1 \in 1..Len(ConstsOf(t.to)) /\ ConstsOf(t)[i] = ConstsOf(t.to)[i - 1]
    <3>1. i - 1 \in 1..Len(ConstsOf(t.to)) /\ (i - 1) + 1 = i
      BY <1>2, <2>1, <2>2, <2>3
    <3>. QED
      BY <2>1, <3>1
  <2>4. \A i \in 1..Len(ConstsOf(t.to)) : i + 1 \in DOMAIN ConstsOf(t)
    BY <1>2, <2>1, <2>2
  <2>. QED
    BY <2>1, <2>3, <2>4
<1>4. ASSUME ~PointsTo(t) PROVE DOMAIN ConstsOf(t) = {1}
  <2>1. Len(ConstsOf(t)) = 1
    BY <1>4, ConstsFacts
  <2>. QED
    BY <1>2, <2>1
<1>. QED
  BY <1>2, <1>3, <1>4

\* Types that point to what says the same show the same.
LEMMA ShowsAlike ==
  ASSUME NEW u \in Types, NEW v \in Types, PointsTo(u) <=> PointsTo(v),
         PointsTo(u) => ConstsOf(u.to) = ConstsOf(v.to), NEW c, Below(u, c)
  PROVE  Below(v, c)
<1>1. ASSUME NEW i \in DOMAIN c, c[i], i # 1
      PROVE  i \in DOMAIN ConstsOf(v) /\ ConstsOf(v)[i]
  <2>1. i \in DOMAIN ConstsOf(u) /\ ConstsOf(u)[i]
    BY <1>1 DEF Below
  <2>2. PointsTo(u)
    BY <1>1, <2>1, ConstsDomain
  <2>3. i - 1 \in 1..Len(ConstsOf(u.to)) /\ ConstsOf(u)[i] = ConstsOf(u.to)[i - 1]
    BY <1>1, <2>1, <2>2, ConstsDomain
  <2>4. i \in Int
    BY <2>1, ConstsDomain
  <2>5. (i - 1) + 1 \in DOMAIN ConstsOf(v) /\ ConstsOf(v)[(i - 1) + 1] = ConstsOf(v.to)[i - 1]
    BY <2>2, <2>3, ConstsDomain
  <2>6. (i - 1) + 1 = i
    BY <2>4
  <2>7. ConstsOf(v)[i] = ConstsOf(u)[i] /\ i \in DOMAIN ConstsOf(v)
    BY <2>2, <2>3, <2>5, <2>6
  <2>. QED
    BY <2>1, <2>7
<1>. QED
  BY <1>1 DEF Below

\* What an operand that points to nothing is, any type shows.
LEMMA NothingBelow ==
  ASSUME NEW u \in Types, ~PointsTo(u), NEW v, NEW c, Below(u, c)
  PROVE  Below(v, c)
<1>1. ASSUME NEW i \in DOMAIN c, c[i], i # 1 PROVE FALSE
  <2>1. i \in DOMAIN ConstsOf(u)
    BY <1>1 DEF Below
  <2>. QED
    BY <1>1, <2>1, ConstsDomain
<1>. QED
  BY <1>1 DEF Below

\* As a value an operand shows what it points to.
LEMMA ValuesShow ==
  ASSUME NEW t, NEW o, o.consts \in Seq(BOOLEAN), Below(t, o.consts)
  PROVE  Below(t, AsValue(o)) /\ Top(t, AsValue(o))
<1>1. /\ \A i \in DOMAIN AsValue(o) : i # 1 => i \in DOMAIN o.consts /\ AsValue(o)[i] = o.consts[i]
      /\ AsValue(o)[1] = FALSE
  BY Known
<1>2. ASSUME NEW i \in DOMAIN AsValue(o), AsValue(o)[i], i # 1
      PROVE  i \in DOMAIN ConstsOf(t) /\ ConstsOf(t)[i]
  <2>1. i \in DOMAIN o.consts /\ o.consts[i]
    BY <1>1, <1>2
  <2>. QED
    BY <1>2, <2>1 DEF Below
<1>3. Top(t, AsValue(o))
  BY <1>1 DEF Top
<1>. QED
  BY <1>2, <1>3 DEF Below

\* The type pointed to shows the object pointed to, and what is below.
LEMMA PointeesShow ==
  ASSUME NEW t \in Types, PointsTo(t), NEW o, o.consts \in Seq(BOOLEAN), Below(t, o.consts)
  PROVE  Below(t.to, PointedTo(o)) /\ Top(t.to, PointedTo(o))
<1>1. PointedTo(o) \in Seq(BOOLEAN)
      /\ \A i \in DOMAIN PointedTo(o) : i + 1 \in DOMAIN o.consts /\ PointedTo(o)[i] = o.consts[i + 1]
  BY Known
<1>2. ASSUME NEW i \in DOMAIN PointedTo(o), PointedTo(o)[i]
      PROVE  i \in DOMAIN ConstsOf(t.to) /\ ConstsOf(t.to)[i]
  <2>1. i + 1 \in DOMAIN o.consts /\ o.consts[i + 1]
    BY <1>1, <1>2
  <2>2. i \in Nat \ {0}
    BY <1>1
  <2>3. i + 1 # 1 /\ (i + 1) - 1 = i
    BY <2>2
  <2>4. i + 1 \in DOMAIN ConstsOf(t) /\ ConstsOf(t)[i + 1]
    BY <2>1, <2>3 DEF Below
  <2>5. (i + 1) - 1 \in 1..Len(ConstsOf(t.to)) /\ ConstsOf(t)[i + 1] = ConstsOf(t.to)[(i + 1) - 1]
    BY <2>3, <2>4, ConstsDomain
  <2>6. i \in 1..Len(ConstsOf(t.to)) /\ ConstsOf(t)[i + 1] = ConstsOf(t.to)[i]
    BY <2>3, <2>5
  <2>7. t.to \in Types
    BY ConstsDomain
  <2>. QED
    BY <2>4, <2>6, <2>7, ConstsDomain
<1>3. Below(t.to, PointedTo(o))
  BY <1>2 DEF Below
<1>4. Top(t.to, PointedTo(o))
  <2>1. SUFFICES ASSUME 1 \in DOMAIN PointedTo(o), PointedTo(o)[1] PROVE "const" \in t.to.q
    BY DEF Top
  <2>2. ConstsOf(t.to)[1]
    BY <1>2, <2>1
  <2>3. ConstsOf(t.to)[1] = ("const" \in t.to.q)
    BY ConstsDomain, ConstsFacts
  <2>. QED
    BY <2>2, <2>3
<1>. QED
  BY <1>3, <1>4

\* A type that shows two shows either.
LEMMA EitherShows ==
  ASSUME NEW t, NEW a \in Seq(BOOLEAN), NEW b \in Seq(BOOLEAN), Below(t, a), Below(t, b)
  PROVE  Below(t, EitherConst(a, b))
<1>1. \A i \in DOMAIN EitherConst(a, b) :
         EitherConst(a, b)[i] => (i \in DOMAIN a /\ a[i]) \/ (i \in DOMAIN b /\ b[i])
  BY EitherKnown
<1>. QED
  BY <1>1 DEF Below

\* A value of which nothing is known.
LEMMA PlainShows ==
  ASSUME NEW t
  PROVE  Below(t, << FALSE >>) /\ Top(t, << FALSE >>)
BY DEF Below, Top


------------------------------------------------------------------------------
(* No operator loses a const *)

\* An operand that its type shows.
Shown(o) == Sound(o) /\ Below(o.type, o.consts) /\ (o.lvalue => Top(o.type, o.consts))

\* Without an error an operand is shown by its type, and the record that is built is
\* such an operand.
LEMMA ShownFields ==
  /\ \A o \in ShownOperands : ~o.err => Shown(o)
  /\ \A t, lvalue, consts :
        Operand(t, lvalue, consts) \in CheckedOperands /\ Below(t, consts)
        /\ (lvalue => Top(t, consts)) =>
           Operand(t, lvalue, consts) \in ShownOperands
<1>1. ASSUME NEW o \in ShownOperands, ~o.err PROVE Shown(o)
  BY <1>1 DEF ShownOperands, Shown, Sound
<1>2. ASSUME NEW t, NEW lvalue, NEW consts, Operand(t, lvalue, consts) \in CheckedOperands,
             Below(t, consts), lvalue => Top(t, consts)
      PROVE  Operand(t, lvalue, consts) \in ShownOperands
  <2>1. Operand(t, lvalue, consts).type = t /\ Operand(t, lvalue, consts).lvalue = lvalue
        /\ Operand(t, lvalue, consts).consts = consts
    BY DEF Operand
  <2> DEFINE o == Operand(t, lvalue, consts)
  <2> HIDE DEF o
  <2>2. o.type = t /\ o.lvalue = lvalue /\ o.consts = consts /\ o \in CheckedOperands
    BY <1>2, <2>1 DEF o
  <2>3. o \in ShownOperands
    BY <1>2, <2>2 DEF ShownOperands
  <2>. QED
    BY <2>3 DEF o
<1>. QED
  BY <1>1, <1>2

\* The type of a unary operator shows what its operand was reached through.
LEMMA UnaryShown ==
  ASSUME NEW op, NEW o, Shown(o), NEW t, t = UnaryType(op, o), Accepted(t)
  PROVE  Operand(t, UnaryLvalue(op), UnaryConsts(op, o)) \in ShownOperands
<1>0. Sound(o) /\ Below(o.type, o.consts) /\ (o.lvalue => Top(o.type, o.consts))
  BY DEF Shown
<1>1. o.type \in Types /\ o.consts \in Seq(BOOLEAN)
  BY <1>0, SoundFields
<1>2. Operand(t, UnaryLvalue(op), UnaryConsts(op, o)) \in CheckedOperands
  BY <1>0, UnaryOperands
<1>3. t # NoType /\ IsType(t)
  BY AcceptedTypes
<1>4. t \in Types
  BY <1>0, <1>1, <1>3, UnaryTypes, SoundFields
<1>5. CASE op \in Steps
  <2>1. op \notin {"REFERENCE", "DEREFERENCE", "LOGICAL_NOT", "BITWISE_NOT", "SIZEOF"}
    BY <1>5 DEF Steps, Decrements
  <2>2. t = StepType(op, o) /\ UnaryConsts(op, o) = AsValue(o)
    BY <1>5, <2>1 DEF UnaryType, UnaryConsts
  <2>3. (PointsTo(t) <=> PointsTo(o.type)) /\ (PointsTo(o.type) => t.to = o.type.to)
    <3>1. TypeDepth \in 0..TypeDepth /\ o.type \in TypesUpTo[TypeDepth]
      BY <1>1, TypesAssumption DEF Types
    <3>. QED
      BY <1>3, <2>2, <3>1, StepTypes
  <2>4. Below(t, o.consts)
    BY <1>0, <1>1, <1>4, <2>3, ShowsAlike
  <2>5. Below(t, AsValue(o)) /\ Top(t, AsValue(o))
    BY <1>1, <2>4, ValuesShow
  <2>. QED
    BY <1>2, <2>2, <2>5, ShownFields
<1>6. CASE op = "REFERENCE"
  <2>1. op \notin Steps /\ op # "DEREFERENCE" /\ UnaryLvalue(op) = FALSE
    BY <1>6 DEF Steps, Decrements, UnaryLvalue
  <2>2. /\ t = IF o.lvalue THEN POINTER(o.type) ELSE NoType
        /\ UnaryConsts(op, o) = << FALSE >> \o o.consts
    BY <1>6, <2>1 DEF UnaryType, UnaryConsts
  <2>3. o.lvalue /\ t = POINTER(o.type)
    BY <1>3, <2>2
  <2>4. PointsTo(t) /\ t.to = o.type
    BY <2>3 DEF POINTER, PointsTo
  <2> DEFINE c == << FALSE >> \o o.consts
  <2>5. DOMAIN c = 1..(1 + Len(o.consts)) /\ Len(o.consts) \in Nat
        /\ DOMAIN o.consts = 1..Len(o.consts)
        /\ \A i \in 1..Len(o.consts) : c[i + 1] = o.consts[i]
    BY <1>1
  <2> HIDE DEF c
  <2>6. ASSUME NEW i \in DOMAIN c, c[i], i # 1
        PROVE  i \in DOMAIN ConstsOf(t) /\ ConstsOf(t)[i]
    <3>1. i - 1 \in DOMAIN o.consts /\ (i - 1) + 1 = i
      BY <2>5, <2>6
    <3>2. o.consts[i - 1]
      BY <2>5, <2>6, <3>1
    <3>3. i - 1 \in 1..Len(ConstsOf(t.to)) /\ ConstsOf(t.to)[i - 1]
      <4>1. CASE i - 1 = 1
        <5>1. "const" \in o.type.q
          BY <1>0, <2>3, <3>1, <3>2, <4>1 DEF Top
        <5>2. ConstsOf(o.type)[1] = ("const" \in o.type.q) /\ Len(ConstsOf(o.type)) \in Nat \ {0}
          BY <1>1, ConstsFacts
        <5>3. ConstsOf(o.type)[1]
          BY <5>1, <5>2
        <5>. QED
          BY <2>4, <4>1, <5>2, <5>3
      <4>2. CASE i - 1 # 1
        <5>1. i - 1 \in DOMAIN ConstsOf(o.type) /\ ConstsOf(o.type)[i - 1]
          BY <1>0, <3>1, <3>2, <4>2 DEF Below
        <5>. QED
          BY <1>1, <2>4, <5>1, ConstsDomain
      <4>. QED
        BY <4>1, <4>2
    <3>4. (i - 1) + 1 \in DOMAIN ConstsOf(t) /\ ConstsOf(t)[(i - 1) + 1] = ConstsOf(t.to)[i - 1]
      BY <1>4, <2>4, <3>3, ConstsDomain
    <3>. QED
      BY <3>1, <3>3, <3>4
  <2>7. Below(t, c)
    BY <2>6 DEF Below
  <2>8. Below(t, UnaryConsts(op, o))
    BY <2>2, <2>7 DEF c
  <2>. QED
    BY <1>2, <2>1, <2>8, ShownFields
<1>7. CASE op = "DEREFERENCE"
  <2>1. op \notin Steps
    BY <1>7 DEF Steps, Decrements
  <2>2. /\ t = IF PointsTo(o.type) THEN o.type.to ELSE NoType
        /\ UnaryConsts(op, o) = PointedTo(o)
    BY <1>7, <2>1 DEF UnaryType, UnaryConsts
  <2>3. PointsTo(o.type) /\ t = o.type.to
    BY <1>3, <2>2
  <2>4. Below(t, PointedTo(o)) /\ Top(t, PointedTo(o))
    BY <1>0, <1>1, <2>3, PointeesShow
  <2>. QED
    BY <1>2, <2>2, <2>4, ShownFields
<1>8. CASE op \notin Steps \cup {"REFERENCE", "DEREFERENCE"}
  <2>1. UnaryConsts(op, o) = << FALSE >>
    BY <1>8 DEF UnaryConsts
  <2>2. Below(t, UnaryConsts(op, o)) /\ Top(t, UnaryConsts(op, o))
    BY <2>1, PlainShows
  <2>. QED
    BY <1>2, <2>2, ShownFields
<1>. QED
  BY <1>5, <1>6, <1>7, <1>8


\* What a type shows of what is within its reach.
Within(t, c) ==
    \A i \in DOMAIN c : c[i] /\ i # 1 /\ i \in DOMAIN ConstsOf(t) => ConstsOf(t)[i]

\* It shows that, or no object is below it; and what is left visible is shown.
LEMMA WithinFacts ==
  ASSUME NEW t \in Types, NEW c \in Seq(BOOLEAN)
  PROVE  /\ Below(t, c) \/ ~PointsTo(t) => Within(t, c)
         /\ Within(t, c) => Below(t, Visible(t, c)) /\ Within(ResetQualifies(t), c)
<1>1. Below(t, c) => Within(t, c)
  BY DEF Below, Within
<1>2. ~PointsTo(t) => Within(t, c)
  BY ConstsDomain DEF Within
<1>3. \A i \in DOMAIN Visible(t, c) :
         i \in DOMAIN c /\ i \in DOMAIN ConstsOf(t) /\ Visible(t, c)[i] = c[i]
  BY VisibleKnown
<1>4. Within(t, c) => Below(t, Visible(t, c))
  BY <1>3 DEF Within, Below
<1>5. TypeDepth \in 0..TypeDepth /\ Types = TypesUpTo[TypeDepth]
  BY TypesAssumption DEF Types
<1> DEFINE u == ResetQualifies(t)
<1>6. u \in Types /\ (PointsTo(u) <=> PointsTo(t)) /\ (PointsTo(t) => u.to = t.to)
  BY <1>5, Unqualified DEF PointsTo
<1> HIDE DEF u
<1>7. ASSUME Within(t, c), NEW i \in DOMAIN c, c[i], i # 1, i \in DOMAIN ConstsOf(u)
      PROVE  ConstsOf(u)[i]
  <2>1. PointsTo(u) /\ PointsTo(t)
    BY <1>6, <1>7, ConstsDomain
  <2>2. i - 1 \in 1..Len(ConstsOf(u.to)) /\ ConstsOf(u)[i] = ConstsOf(u.to)[i - 1] /\ i \in Int
    BY <1>6, <1>7, <2>1, ConstsDomain
  <2>3. (i - 1) + 1 \in DOMAIN ConstsOf(t) /\ ConstsOf(t)[(i - 1) + 1] = ConstsOf(t.to)[i - 1]
    BY <1>6, <2>1, <2>2, ConstsDomain
  <2>4. (i - 1) + 1 = i
    BY <2>2
  <2>5. i \in DOMAIN ConstsOf(t) /\ ConstsOf(t)[i] = ConstsOf(u)[i]
    BY <1>6, <2>1, <2>2, <2>3, <2>4
  <2>6. ConstsOf(t)[i]
    BY <1>7, <2>5 DEF Within
  <2>. QED
    BY <2>5, <2>6
<1>8. Within(t, c) => Within(u, c)
  BY <1>7 DEF Within
<1>. QED
  BY <1>1, <1>2, <1>4, <1>8 DEF u

\* It shows either of two operands so.
LEMMA EitherWithin ==
  ASSUME NEW t, NEW a \in Seq(BOOLEAN), NEW b \in Seq(BOOLEAN), Within(t, a), Within(t, b)
  PROVE  Within(t, EitherConst(a, b))
<1>1. \A i \in DOMAIN EitherConst(a, b) :
         EitherConst(a, b)[i] => (i \in DOMAIN a /\ a[i]) \/ (i \in DOMAIN b /\ b[i])
  BY EitherKnown
<1>. QED
  BY <1>1 DEF Within

\* A type that shows what a value points to is not laundered by it.
LEMMA WithinLaunders ==
  ASSUME NEW t \in Types, NEW o, o.consts \in Seq(BOOLEAN)
  PROVE  Within(t, AsValue(o)) <=> ~Launders(o, t)
<1>1. AsValue(o) \in Seq(BOOLEAN) /\ AsValue(o)[1] = FALSE
  BY Known
<1>2. DOMAIN ConstsOf(t) = 1..Len(ConstsOf(t)) /\ Len(ConstsOf(t)) \in Nat
  BY ConstsDomain
<1>3. \A i : i \in 2..Len(ConstsOf(t)) <=> i \in DOMAIN ConstsOf(t) /\ i # 1
  BY <1>2
<1>. QED
  BY <1>3 DEF Within, Launders

\* A type that a value has an implicit cast to shows what it points to.
LEMMA CastsWithin ==
  ASSUME NoConst(VoidQualifiers), NEW t \in Types, NEW o, Shown(o), IsType(ImplicitCastTo(o.type, t))
  PROVE  Within(t, AsValue(o))
<1>1. o.type \in Types /\ o.consts \in Seq(BOOLEAN) /\ Below(o.type, o.consts)
  BY SoundFields DEF Shown
<1>2. Below(o.type, AsValue(o))
  BY <1>1, ValuesShow
<1>3. ASSUME NEW i \in DOMAIN AsValue(o), AsValue(o)[i], i # 1, i \in DOMAIN ConstsOf(t)
      PROVE  ConstsOf(t)[i]
  <2>1. i \in DOMAIN ConstsOf(o.type) /\ ConstsOf(o.type)[i]
    BY <1>2, <1>3 DEF Below
  <2>2. i \in 2..Len(ConstsOf(t))
    BY <1>3, ConstsDomain
  <2>. QED
    BY <1>1, <2>1, <2>2, CastsKeepConst
<1>. QED
  BY <1>3 DEF Within

\* What an accepted operator writes is shown by the type of its left operand.
LEMMA WritesWithin ==
  ASSUME NoConst(VoidQualifiers), NEW op \in Writes, NEW l, NEW r, Shown(l), Shown(r),
         IsType(PlainType(op, l.type, r.type))
  PROVE  Within(l.type, AsValue(r))
<1>1. l.type \in Types /\ r.type \in Types /\ r.consts \in Seq(BOOLEAN) /\ Below(r.type, r.consts)
  BY SoundFields DEF Shown
<1>2. WriteAnswer(op, l.type, r.type, PlainType(op, l.type, r.type))
  BY <1>1, PlainTypes
<1>3. AsValue(r) \in Seq(BOOLEAN)
  BY <1>1, Known
<1>4. CASE op = "ASSIGNMENT"
  <2>1. IsType(ImplicitCastTo(r.type, l.type))
    BY <1>2, <1>4 DEF WriteAnswer
  <2>. QED
    BY <1>1, <2>1, CastsWithin
<1>5. CASE op # "ASSIGNMENT" /\ ~PointsTo(l.type)
  BY <1>1, <1>3, <1>5, WithinFacts
<1>6. CASE op # "ASSIGNMENT" /\ PointsTo(l.type)
  <2>1. ~PointsTo(r.type)
    BY <1>2, <1>6 DEF WriteAnswer, PointsTo
  <2>2. Below(l.type, r.consts)
    BY <1>1, <2>1, NothingBelow
  <2>3. Below(l.type, AsValue(r))
    BY <1>1, <2>2, ValuesShow
  <2>. QED
    BY <1>1, <1>3, <2>3, WithinFacts
<1>. QED
  BY <1>4, <1>5, <1>6

\* The type of a binary operator shows what its operands were reached through.
LEMMA BinaryShown ==
  ASSUME KeepsConst, NEW op \in BinaryOps, NEW l, NEW r, Shown(l), Shown(r),
         NEW t, t = BinaryType(op, l, r), Accepted(t)
  PROVE  Operand(t, FALSE, Visible(t, BinaryConsts(op, l, r))) \in ShownOperands
<1> DEFINE p == PlainType(op, l.type, r.type)
<1>0. NoConst(VoidQualifiers) /\ ("MINUS" \notin BinaryOps \/ NoConst(EnumQualifiers))
  BY DEF KeepsConst
<1>1. /\ Sound(l) /\ l.type \in Types /\ l.consts \in Seq(BOOLEAN) /\ Below(l.type, l.consts)
      /\ Sound(r) /\ r.type \in Types /\ r.consts \in Seq(BOOLEAN) /\ Below(r.type, r.consts)
  BY SoundFields DEF Shown
<1>2. Operand(t, FALSE, Visible(t, BinaryConsts(op, l, r))) \in CheckedOperands
  BY <1>1, BinaryOperands
<1>3. IsType(t) /\ t \in Types
  BY <1>1, AcceptedTypes, BinaryTypes DEF Answers
<1>4. /\ IsType(p) /\ p \in Types
      /\ op \in Assignments => t = ResetQualifies(l.type)
      /\ op \notin Assignments => t = ResetQualifies(p)
  <2>1. /\ IsType(p)
        /\ op \in Assignments => t = ResetQualifies(l.type)
        /\ op \notin Assignments => t = ResetQualifies(p)
    BY <1>1, <1>3, BinaryTypes
  <2>2. p \in Answers
    BY <1>1, PlainTypes
  <2>. QED
    BY <2>1, <2>2 DEF Answers, IsType
<1>5. /\ AsValue(l) \in Seq(BOOLEAN) /\ Below(l.type, AsValue(l))
      /\ AsValue(r) \in Seq(BOOLEAN) /\ Below(r.type, AsValue(r))
  BY <1>1, Known, ValuesShow
<1>6. TypeDepth \in 0..TypeDepth /\ Types = TypesUpTo[TypeDepth]
  BY TypesAssumption DEF Types
<1> DEFINE c == BinaryConsts(op, l, r)
<1>7. c \in Seq(BOOLEAN) /\ Within(t, c)
  <2> HIDE DEF p
  <2>1. CASE op \in Writes
    <3>1. c = EitherConst(AsValue(l), AsValue(r))
      <4>1. op \notin {"PLUS", "MINUS"}
        BY <2>1 DEF Writes, Assignments
      <4>. QED
        BY <2>1, <4>1 DEF BinaryConsts
    <3>2. c \in Seq(BOOLEAN)
      BY <1>5, <3>1, EitherKnown
    <3>3. CASE op \in Assignments
      <4>1. Within(l.type, AsValue(r))
        BY <1>0, <1>4, <2>1, WritesWithin DEF p
      <4>2. Within(l.type, AsValue(l))
        BY <1>1, <1>5, WithinFacts
      <4>3. Within(l.type, EitherConst(AsValue(l), AsValue(r)))
        BY <1>5, <4>1, <4>2, EitherWithin
      <4>4. Within(ResetQualifies(l.type), c)
        BY <1>1, <3>1, <3>2, <4>3, WithinFacts
      <4>. QED
        BY <1>4, <3>2, <3>3, <4>4
    <3>4. CASE op \notin Assignments
      <4>1. WriteAnswer(op, l.type, r.type, p)
        BY <1>1, <1>4, <2>1, PlainTypes DEF p
      <4>2. ~PointsTo(p)
        BY <3>4, <4>1 DEF WriteAnswer
      <4>3. ~PointsTo(t)
        BY <1>4, <1>6, <3>4, <4>2, Unqualified DEF PointsTo
      <4>. QED
        BY <1>3, <3>2, <4>3, WithinFacts
    <3>. QED
      BY <3>3, <3>4
  <2>2. CASE op \in {"PLUS", "MINUS"}
    <3> DEFINE o == IF PointsTo(l.type) THEN l ELSE r
    <3>0. op \notin Writes /\ op \notin Assignments
      BY <2>2 DEF Writes, Assignments
    <3>1. c = AsValue(o)
      BY <2>2, <3>0 DEF BinaryConsts
    <3>2. c \in Seq(BOOLEAN) /\ Below(o.type, c) /\ o.type \in Types
      BY <1>1, <1>5, <3>1
    <3>3. t = ResetQualifies(p)
      BY <1>4, <3>0
    <3> HIDE DEF c
    <3>4. PointsTo(p) => Below(p, c)
      <4>1. SUFFICES ASSUME PointsTo(p) PROVE Below(p, c)
        OBVIOUS
      <4>2. \A a \in Types :
               /\ Decayed(a) \in Types
               /\ PointsTo(Decayed(a)) <=> PointsTo(a)
               /\ Decayed(a).basic = "POINTER" <=> PointsTo(a)
               /\ PointsTo(a) => Decayed(a).to = a.to
        BY Decays
      <4>3. \A a \in Types : Below(a, c) => Below(Decayed(a), c)
        BY <4>2, ShowsAlike
      <4>4. CASE op = "PLUS"
        <5>1. p = PlusType(Decayed(l.type), Decayed(r.type))
          BY <1>1, <4>4, PlainTypes DEF p
        <5>2. \/ p = Decayed(l.type) /\ PointsTo(l.type)
              \/ p = Decayed(r.type) /\ ~PointsTo(l.type)
          BY <1>1, <1>4, <4>1, <4>2, <5>1, SumTypes
        <5>3. p = Decayed(o.type)
          BY <5>2
        <5>. QED
          BY <3>2, <4>3, <5>3
      <4>5. CASE op = "MINUS"
        <5>1. p = MinusType(Decayed(l.type), r.type)
          BY <1>1, <4>5, PlainTypes DEF p
        <5>2. /\ PointsTo(l.type)
              /\ p = Decayed(l.type) \/ p = CompatibleWith(Decayed(l.type), r.type)
          BY <1>1, <1>4, <4>1, <4>2, <5>1, SumTypes
        <5>3. Below(Decayed(l.type), c)
          BY <1>1, <3>2, <4>3, <5>2
        <5>4. ASSUME p = CompatibleWith(Decayed(l.type), r.type) PROVE Below(p, c)
          <6>1. ConstsOf(p) = ConstsOf(Decayed(l.type))
            <7>1. NoConst(EnumQualifiers) /\ IsType(CompatibleWith(Decayed(l.type), r.type))
                  /\ Decayed(l.type) \in Types
              BY <1>0, <1>1, <1>4, <4>2, <4>5, <5>4
            <7>. QED
              BY <1>0, <1>1, <5>4, <7>1, CompatibleFacts
          <6>. QED
            BY <5>3, <6>1 DEF Below
        <5>. QED
          BY <5>2, <5>3, <5>4
      <4>. QED
        BY <2>2, <4>4, <4>5
    <3>5. Within(p, c)
      BY <1>4, <3>2, <3>4, WithinFacts
    <3>. QED
      BY <1>4, <3>2, <3>3, <3>5, WithinFacts
  <2>3. CASE op \notin Writes \cup {"PLUS", "MINUS"}
    <3>1. c = << FALSE >>
      BY <2>3 DEF BinaryConsts
    <3>2. c \in Seq(BOOLEAN)
      BY <3>1
    <3>3. Below(t, c)
      BY <3>1, PlainShows
    <3>. QED
      BY <1>3, <3>2, <3>3, WithinFacts
  <2>. QED
    BY <2>1, <2>2, <2>3
<1>8. Below(t, Visible(t, c))
  BY <1>3, <1>7, WithinFacts
<1>. QED
  BY <1>2, <1>8, ShownFields


\* A type that is given other qualifiers is of the same kind, and points to the same.
LEMMA Qualified ==
  ASSUME NEW t \in Types, NEW q
  PROVE  /\ Qualify(t, q).basic = t.basic /\ Qualify(t, q).q = q
         /\ PointsTo(t) => Qualify(t, q).to = t.to
<1>1. TypeDepth \in 0..TypeDepth /\ t \in TypesUpTo[TypeDepth]
  BY TypesAssumption DEF Types
<1>2. CASE t.basic \in {"INT", "FLOAT", "VOID", "STRUCT", "UNION", "ENUM"}
  <2>1. t \in BasicTypes
    BY <1>1, <1>2, Kinds DEF BasicTypes
  <2>. QED
    BY <1>2, <2>1 DEF BasicTypes, Qualify, PointsTo
<1>3. CASE t.basic \in {"POINTER", "ARRAY", "FUNCTION"}
  <2>1. t \in TypesMadeOf(TypesUpTo[TypeDepth - 1])
    BY <1>1, <1>3, Kinds DEF TypesMadeOf
  <2>. QED
    BY <2>1 DEF TypesMadeOf, Qualify, PointsTo
<1>. QED
  BY <1>1, <1>2, <1>3, Kinds

\* A member that is no array shows that the struct is const, and what it points to.
LEMMA MemberShown ==
  ASSUME KeepsConst, NEW s \in Types, NEW f, NEW lvalue \in BOOLEAN, NEW isConst \in BOOLEAN,
         NEW t, t = MemberType(s, f), Accepted(t),
         lvalue /\ isConst => "const" \in s.q
  PROVE  Operand(t, lvalue, MemberConsts(s, isConst, f)) \in ShownOperands
<1> DEFINE m == Members(s.id)[f]
           q == MemberQualifiers(m, s.q)
           c == MemberConsts(s, isConst, f)
<1>1. /\ s.id \in TagIds /\ f \in DOMAIN Members(s.id)
      /\ m \in TypesUpTo[TypeDepth - 1] /\ t = Qualify(m, q) /\ t \in TypesUpTo[TypeDepth - 1]
  BY MemberTypes
<1>2. m \in Types /\ t \in Types /\ m.basic # "ARRAY"
  BY <1>1, InTypes DEF KeepsConst
<1>3. /\ c \in Seq(BOOLEAN) /\ DOMAIN c = DOMAIN ConstsOf(m)
      /\ \A i \in DOMAIN c : c[i] => ConstsOf(m)[i] \/ (isConst /\ i = 1)
  BY <1>2, MembersKnown
<1>4. t.basic = m.basic /\ t.q = q /\ (PointsTo(m) => t.to = m.to)
  BY <1>1, <1>2, Qualified
<1>5. "const" \in m.q \/ "const" \in s.q => "const" \in t.q
  BY <1>4 DEF MemberQualifiers
<1>6. Operand(t, lvalue, c) \in CheckedOperands
  BY MemberOperands
<1>7. ConstsOf(m)[1] = ("const" \in m.q)
  BY <1>2, ConstsFacts
<1> HIDE DEF m, q, c
<1>8. Below(t, c)
  <2>1. Below(m, c)
    BY <1>3 DEF Below
  <2>2. (PointsTo(m) <=> PointsTo(t)) /\ (PointsTo(m) => ConstsOf(m.to) = ConstsOf(t.to))
    BY <1>4 DEF PointsTo
  <2>. QED
    BY <1>2, <2>1, <2>2, ShowsAlike
<1>9. lvalue => Top(t, c)
  BY <1>3, <1>5, <1>7 DEF Top
<1>. QED
  BY <1>6, <1>8, <1>9, ShownFields DEF c

\* An element shows what the array or the pointer it is indexed by points to.
LEMMA IndexShown ==
  ASSUME NEW a, NEW i, Shown(a), Sound(i), NEW t, t = IndexType(a.type, i.type), Accepted(t)
  PROVE  Operand(t, TRUE, PointedTo(a)) \in ShownOperands
<1>1. /\ Sound(a) /\ a.type \in Types /\ a.consts \in Seq(BOOLEAN) /\ Below(a.type, a.consts)
  BY SoundFields DEF Shown
<1>2. /\ Operand(t, TRUE, PointedTo(a)) \in CheckedOperands
      /\ PointsTo(a.type) /\ t = a.type.to
  BY <1>1, IndexOperands
<1>3. Below(t, PointedTo(a)) /\ Top(t, PointedTo(a))
  BY <1>1, <1>2, PointeesShow
<1>. QED
  BY <1>2, <1>3, ShownFields

\* A member shows that the struct pointed to is const.
LEMMA PointerMemberShown ==
  ASSUME KeepsConst, NEW o, Shown(o), NEW f, NEW t, t = PointerMemberType(o.type, f), Accepted(t)
  PROVE  Operand(t, TRUE, MemberConsts(o.type.to, PointsToConst(o), f)) \in ShownOperands
<1>1. /\ o.type \in Types /\ o.consts \in Seq(BOOLEAN) /\ Below(o.type, o.consts)
  BY SoundFields DEF Shown
<1>2. o.type.basic = "POINTER" /\ t = MemberType(o.type.to, f)
  BY AcceptedTypes DEF PointerMemberType
<1>3. PointsTo(o.type) /\ o.type.to \in Types
  BY <1>1, <1>2, InTypes DEF PointsTo
<1>4. Top(o.type.to, PointedTo(o)) /\ PointedTo(o) \in Seq(BOOLEAN)
  BY <1>1, <1>3, PointeesShow, Known
<1>5. PointsToConst(o) \in BOOLEAN /\ TRUE \in BOOLEAN
  BY DEF PointsToConst
<1>6. PointsToConst(o) => "const" \in o.type.to.q
  <2>1. SUFFICES ASSUME PointsToConst(o) PROVE "const" \in o.type.to.q
    OBVIOUS
  <2>2. PointedTo(o) # << >> /\ Head(PointedTo(o))
    BY <2>1 DEF PointsToConst
  <2>3. 1 \in DOMAIN PointedTo(o) /\ Head(PointedTo(o)) = PointedTo(o)[1]
    BY <1>4, <2>2, Heads
  <2>4. PointedTo(o)[1]
    BY <2>2, <2>3
  <2>. QED
    BY <1>4, <2>3, <2>4 DEF Top
<1>. QED
  BY <1>2, <1>3, <1>5, <1>6, MemberShown

\* What a pointer to void points to is not const, so that any type shows it.
LEMMA VoidShows ==
  ASSUME NoConst(VoidQualifiers), NEW u \in Types, PointsTo(u), u.to.basic = "VOID",
         NEW v, NEW c, Below(u, c)
  PROVE  Below(v, c)
<1>1. u.to \in Types /\ ~PointsTo(u.to)
  BY InTypes DEF PointsTo
<1>2. u.to.q \in VoidQualifiers
  <2>1. TypeDepth \in 0..TypeDepth /\ u.to \in TypesUpTo[TypeDepth]
    BY <1>1, TypesAssumption DEF Types
  <2>2. u.to \in [basic : {"VOID"}, q : VoidQualifiers]
    BY <2>1, Kinds
  <2>. QED
    BY <2>2
<1>3. ConstsOf(u.to)[1] = ("const" \in u.to.q) /\ Len(ConstsOf(u.to)) = 1
  BY <1>1, ConstsFacts
<1>4. ~ConstsOf(u.to)[1]
  BY <1>2, <1>3 DEF NoConst
<1>5. ASSUME NEW i \in DOMAIN c, c[i], i # 1 PROVE FALSE
  <2>1. i \in DOMAIN ConstsOf(u) /\ ConstsOf(u)[i]
    BY <1>5 DEF Below
  <2>2. i - 1 \in 1..Len(ConstsOf(u.to)) /\ ConstsOf(u)[i] = ConstsOf(u.to)[i - 1]
    BY <1>5, <2>1, ConstsDomain
  <2>3. i - 1 = 1
    BY <1>3, <2>2
  <2>. QED
    BY <1>4, <2>1, <2>2, <2>3
<1>. QED
  BY <1>5 DEF Below

\* The type of a conditional shows what either of its branches points to.
LEMMA ConditionalShown ==
  ASSUME KeepsConst, NEW c, NEW a, NEW b, Shown(a), Shown(b),
         NEW t, t = ConditionalType(c, a.type, b.type), Accepted(t)
  PROVE  Operand(t, FALSE, EitherConst(AsValue(a), AsValue(b))) \in ShownOperands
<1> DEFINE p == PtrCompatible(a.type)
           r == PtrCompatible(b.type)
<1>1. /\ Sound(a) /\ a.type \in Types /\ a.consts \in Seq(BOOLEAN) /\ Below(a.type, a.consts)
      /\ Sound(b) /\ b.type \in Types /\ b.consts \in Seq(BOOLEAN) /\ Below(b.type, b.consts)
  BY SoundFields DEF Shown
<1>2. Operand(t, FALSE, EitherConst(AsValue(a), AsValue(b))) \in CheckedOperands
  BY <1>1, ConditionalOperands
<1>3. IsType(t)
  BY AcceptedTypes
<1>4. PointsTo(a.type) /\ PointsTo(b.type) /\ Branches(p, r, t)
  BY <1>1, <1>3, ConditionalTypes
<1>5. TypeDepth \in 0..TypeDepth /\ Types = TypesUpTo[TypeDepth]
  BY TypesAssumption DEF Types
<1>6. /\ p \in Types /\ p.basic = "POINTER" /\ p.to = a.type.to
      /\ r \in Types /\ r.basic = "POINTER" /\ r.to = b.type.to
  BY <1>1, <1>4, <1>5, Pointers
<1>7. /\ AsValue(a) \in Seq(BOOLEAN) /\ Below(a.type, AsValue(a))
      /\ AsValue(b) \in Seq(BOOLEAN) /\ Below(b.type, AsValue(b))
  BY <1>1, Known, ValuesShow
<1> HIDE DEF p, r
<1>8. a.type.to \in Types /\ b.type.to \in Types /\ NoConst(VoidQualifiers)
  BY <1>1, <1>4, InTypes DEF KeepsConst
<1>9. \A u : u \in {p, r} =>
         ResetQualifies(u) \in Types /\ PointsTo(ResetQualifies(u)) /\ ResetQualifies(u).to = u.to
  BY <1>5, <1>6, Unqualified DEF PointsTo
<1>10. Below(t, AsValue(a)) /\ Below(t, AsValue(b))
  <2>1. CASE t = ResetQualifies(p) /\ IsType(CompatibleWith(p.to, r.to))
    <3>1. ConstsOf(p.to) = ConstsOf(r.to)
      BY <1>6, <1>8, <2>1, CompatibleFacts
    <3>2. t \in Types /\ PointsTo(t) /\ t.to = p.to
      BY <1>9, <2>1
    <3>. QED
      BY <1>1, <1>4, <1>6, <1>7, <3>1, <3>2, ShowsAlike
  <2>2. CASE t = ResetQualifies(r) /\ p.to.basic = "VOID"
    <3>1. t \in Types /\ PointsTo(t) /\ t.to = b.type.to
      BY <1>6, <1>9, <2>2
    <3>2. Below(t, AsValue(b))
      BY <1>1, <1>4, <1>7, <3>1, ShowsAlike
    <3>3. Below(t, AsValue(a))
      BY <1>1, <1>4, <1>6, <1>7, <1>8, <2>2, VoidShows
    <3>. QED
      BY <3>2, <3>3
  <2>3. CASE t = ResetQualifies(p) /\ r.to.basic = "VOID"
    <3>1. t \in Types /\ PointsTo(t) /\ t.to = a.type.to
      BY <1>6, <1>9, <2>3
    <3>2. Below(t, AsValue(a))
      BY <1>1, <1>4, <1>7, <3>1, ShowsAlike
    <3>3. Below(t, AsValue(b))
      BY <1>1, <1>4, <1>6, <1>7, <1>8, <2>3, VoidShows
    <3>. QED
      BY <3>2, <3>3
  <2>. QED
    BY <1>4, <2>1, <2>2, <2>3 DEF Branches
<1>11. Below(t, EitherConst(AsValue(a), AsValue(b)))
  BY <1>7, <1>10, EitherShows
<1>. QED
  BY <1>2, <1>11, ShownFields

\* A value of which nothing is known is shown by any type.
LEMMA PlainShown ==
  ASSUME NEW t \in Types
  PROVE  Operand(t, FALSE, << FALSE >>) \in ShownOperands
<1>1. Operand(t, FALSE, << FALSE >>) \in CheckedOperands
  BY PlainOperands
<1>2. Below(t, << FALSE >>)
  BY PlainShows
<1>. QED
  BY <1>1, <1>2, ShownFields

\* A leaf is shown by the type it is declared with.
LEMMA LeavesShown ==
  Leaves \subseteq ShownOperands
<1>1. ASSUME NEW o \in Leaves PROVE o \in ShownOperands
  <2>1. o = Operand(o.type, o.lvalue, o.consts) /\ o.type \in Types
        /\ o.consts \in {ConstsOf(o.type), << FALSE >>}
    BY <1>1, LeavesAssumption
  <2>2. o \in CheckedOperands
    BY <1>1, CheckedClosed DEF Closed
  <2>3. Below(o.type, o.consts) /\ Top(o.type, o.consts)
    <3>1. ConstsOf(o.type)[1] = ("const" \in o.type.q)
      BY <2>1, ConstsFacts
    <3>2. Below(o.type, ConstsOf(o.type)) /\ Top(o.type, ConstsOf(o.type))
      BY <3>1 DEF Below, Top
    <3>. QED
      BY <2>1, <3>2, PlainShows
  <2>. QED
    BY <2>2, <2>3 DEF ShownOperands
<1>. QED
  BY <1>1

\* An operand that is, or is not, an lvalue.
WithLvalue(o, x) == [o EXCEPT !.lvalue = x]
\* It is the operand that is built so.
LEMMA OperandLvalue ==
  ASSUME NEW o, NEW t, NEW x, NEW c, o = Operand(t, x, c), NEW y
  PROVE  WithLvalue(o, y) = Operand(t, y, c)
<1>1. PICK e : e = FALSE
  OBVIOUS
<1> DEFINE R(z) == [type |-> t, lvalue |-> z, err |-> e, consts |-> c]
<1>2. Operand(t, x, c) = R(x) /\ Operand(t, y, c) = R(y)
  BY <1>1, Zenon DEF Operand
<1>3. [R(x) EXCEPT !.lvalue = y] = R(y)
  OBVIOUS
<1> HIDE DEF R
<1>. QED
  BY <1>2, <1>3, Zenon DEF WithLvalue

\* No operator over operands that their types show gives one that its type does not.
LEMMA ShownClosed ==
  ASSUME KeepsConst
  PROVE  Closed(ShownOperands)
<1>0. \A o \in ShownOperands : ~o.err => Shown(o) /\ Sound(o)
  BY ShownFields DEF Shown
<1>1. ClosedUnary(ShownOperands)
  BY <1>0, UnaryShown DEF ClosedUnary
<1>2. ClosedBinary(ShownOperands)
  BY <1>0, BinaryShown DEF ClosedBinary
<1>3. ClosedIndex(ShownOperands)
  BY <1>0, IndexShown DEF ClosedIndex
<1>4. ClosedMember(ShownOperands)
  <2>1. ASSUME NEW f \in Fields, NEW o \in ShownOperands, ~o.err, Accepted(MemberType(o.type, f))
        PROVE  Operand(MemberType(o.type, f), o.lvalue, MemberConsts(o.type, Designated(o), f))
                  \in ShownOperands
    <3>1. Designated(o) \in BOOLEAN
      BY DEF Designated
    <3>2. o.type \in Types /\ o.lvalue \in BOOLEAN /\ o.consts \in Seq(BOOLEAN)
          /\ (o.lvalue => Top(o.type, o.consts))
      BY <1>0, <2>1, SoundFields DEF Shown
    <3>3. o.lvalue /\ Designated(o) => "const" \in o.type.q
      <4>1. SUFFICES ASSUME o.lvalue, Designated(o) PROVE "const" \in o.type.q
        OBVIOUS
      <4>2. o.consts # << >> /\ Head(o.consts)
        BY <4>1 DEF Designated
      <4>3. 1 \in DOMAIN o.consts /\ Head(o.consts) = o.consts[1]
        BY <3>2, <4>2, Heads
      <4>4. o.consts[1]
        BY <4>2, <4>3
      <4>. QED
        BY <3>2, <4>1, <4>3, <4>4 DEF Top
    <3>. QED
      BY <2>1, <3>1, <3>2, <3>3, MemberShown
  <2>. QED
    BY <2>1 DEF ClosedMember
<1>5. ClosedPointerMember(ShownOperands)
  BY <1>0, PointerMemberShown DEF ClosedPointerMember
<1>6. ClosedCast(ShownOperands)
  <2>1. ASSUME NEW to \in CastTypes, NEW o \in ShownOperands, ~o.err,
               Accepted(ExplicitCastTo(o.type, to))
        PROVE  ExplicitCastTo(o.type, to) \in Types
    <3>1. o.type \in Types /\ to \in Types
      BY <1>0, <2>1, SoundFields, CastTypesAssumption
    <3>2. ExplicitCastTo(o.type, to) \in {to, NoType}
      BY <3>1, ExplicitCasts
    <3>. QED
      BY <2>1, <3>1, <3>2, AcceptedTypes
  <2>. QED
    BY <2>1, PlainShown DEF ClosedCast
<1>7. ClosedCall(ShownOperands)
  <2>1. ASSUME NEW n \in Nat, NEW f \in ShownOperands, NEW args \in [1..n -> ShownOperands],
               Callable(f, args, n)
        PROVE  CallType(f.type, TypesOf(args, n)) \in Types
    <3>1. ~f.err /\ Accepted(CallType(f.type, TypesOf(args, n)))
      BY <2>1 DEF Callable
    <3>2. f.type \in Types
      BY <1>0, <3>1, SoundFields
    <3>. QED
      BY <3>1, <3>2, CallTypes, AcceptedTypes
  <2>. QED
    BY <2>1, PlainShown DEF ClosedCall
<1>8. ClosedConditional(ShownOperands)
  BY <1>0, ConditionalShown DEF ClosedConditional
<1>9. ClosedList(ShownOperands)
  <2>1. ASSUME NEW o \in ShownOperands, ~o.err, NEW y \in BOOLEAN, ~y
        PROVE  WithLvalue(o, y) \in ShownOperands
    <3>1. Sound(o) /\ Below(o.type, o.consts)
      BY <1>0, <2>1 DEF Shown
    <3>2. /\ o = Operand(o.type, o.lvalue, o.consts)
          /\ o.type \in Types /\ o.consts \in Seq(BOOLEAN)
      BY <3>1, SoundFields
    <3>3. WithLvalue(o, y) = Operand(o.type, y, o.consts)
      BY <3>2, OperandLvalue
    <3>4. Operand(o.type, y, o.consts) \in CheckedOperands
      BY <2>1, <3>2, OperandFields
    <3>. QED
      BY <2>1, <3>1, <3>3, <3>4, ShownFields
  <2>2. \A o \in ShownOperands : ~o.err => WithLvalue(o, FALSE) \in ShownOperands
    BY <2>1
  <2>. QED
    BY <2>2 DEF ClosedList, WithLvalue
<1>10. ShownOperands \subseteq CheckedOperands
       /\ Refused(NoType) \in ShownOperands /\ Refused(VOID) \in ShownOperands
  BY RefusedFields DEF ShownOperands
<1>. QED
  BY <1>1, <1>2, <1>3, <1>4, <1>5, <1>6, <1>7, <1>8, <1>9, <1>10, LeavesShown DEF Closed

\* An object whose type is not const was not declared const.
LEMMA NotDesignated ==
  ASSUME NEW o, Shown(o), o.lvalue, "const" \notin o.type.q
  PROVE  ~WritesConst(o)
<1>1. o.consts \in Seq(BOOLEAN) /\ Top(o.type, o.consts)
  BY SoundFields DEF Shown
<1>2. ASSUME o.consts # << >>, Head(o.consts) PROVE FALSE
  <2>1. 1 \in DOMAIN o.consts /\ Head(o.consts) = o.consts[1]
    BY <1>1, <1>2, Heads
  <2>2. o.consts[1]
    BY <1>2, <2>1
  <2>. QED
    BY <1>1, <2>1, <2>2 DEF Top
<1>. QED
  BY <1>2 DEF WritesConst, Designated

\* No operator over operands that their types show writes to an object declared
\* const, or makes a pointer that allows it.
LEMMA ShownHarmless ==
  ASSUME NoConst(VoidQualifiers), NoXorAssignment
  PROVE  Harmless(ShownOperands)
<1>0. \A o \in ShownOperands : ~o.err => Shown(o)
  BY ShownFields
<1>1. HarmlessUnary(ShownOperands)
  <2>1. ASSUME NEW op \in UnaryOps, NEW o \in ShownOperands, ~o.err, Accepted(UnaryType(op, o)),
               op \in Steps
        PROVE  ~WritesConst(o)
    <3>1. Shown(o) /\ o.type \in Types
      BY <1>0, <2>1, SoundFields DEF Shown
    <3>2. UnaryType(op, o) = StepType(op, o)
      <4>1. op \notin {"REFERENCE", "DEREFERENCE", "LOGICAL_NOT", "BITWISE_NOT", "SIZEOF"}
        BY <2>1 DEF Steps, Decrements
      <4>. QED
        BY <2>1, <4>1 DEF UnaryType
    <3>3. IsType(StepType(op, o))
      BY <2>1, <3>2, AcceptedTypes
    <3>4. TypeDepth \in 0..TypeDepth /\ o.type \in TypesUpTo[TypeDepth]
      BY <3>1, TypesAssumption DEF Types
    <3>5. o.lvalue /\ "const" \notin o.type.q
      BY <3>3, <3>4, StepTypes
    <3>. QED
      BY <3>1, <3>5, NotDesignated
  <2>. QED
    BY <2>1 DEF HarmlessUnary
<1>2. HarmlessBinary(ShownOperands)
  <2>1. ASSUME NEW op \in BinaryOps, NEW l \in ShownOperands, NEW r \in ShownOperands,
               ~l.err, ~r.err, Accepted(BinaryType(op, l, r)), op \in Writes
        PROVE  ~WritesConst(l) /\ ~Launders(r, l.type)
    <3>1. Shown(l) /\ Shown(r)
      BY <1>0, <2>1
    <3>2. l.type \in Types /\ r.type \in Types /\ r.consts \in Seq(BOOLEAN)
      BY <3>1, SoundFields DEF Shown
    <3>3. op \in Assignments
      BY <2>1 DEF Writes, NoXorAssignment
    <3>4. /\ IsType(PlainType(op, l.type, r.type))
          /\ l.lvalue /\ "const" \notin l.type.q
      BY <2>1, <3>2, <3>3, BinaryTypes, AcceptedTypes
    <3>5. Within(l.type, AsValue(r))
      BY <2>1, <3>1, <3>4, WritesWithin
    <3>. QED
      BY <3>1, <3>2, <3>4, <3>5, NotDesignated, WithinLaunders
  <2>. QED
    BY <2>1 DEF HarmlessBinary
<1>3. HarmlessCall(ShownOperands)
  <2>1. ASSUME NEW n \in Nat, NEW f \in ShownOperands, NEW args \in [1..n -> ShownOperands],
               Callable(f, args, n), NEW i \in DOMAIN Callee(f.type).params
        PROVE  ~Launders(args[i], Callee(f.type).params[i])
    <3> DEFINE ps == Callee(f.type).params
    <3>1. ~f.err /\ (\A k \in 1..n : ~args[k].err) /\ Accepted(CallType(f.type, TypesOf(args, n)))
      BY <2>1 DEF Callable
    <3>2. f.type \in Types
      BY <1>0, <3>1, SoundFields DEF Shown
    <3>3. /\ ps \in Seq(Types) /\ Len(ps) <= Len(TypesOf(args, n))
          /\ ImplicitCastTo(TypesOf(args, n)[i], ps[i]) \notin {NoType, AssertFails}
      BY <2>1, <3>1, <3>2, CallTypes
    <3>4. Len(TypesOf(args, n)) = n /\ \A k \in 1..n : TypesOf(args, n)[k] = args[k].type
      BY DEF TypesOf
    <3>5. i \in 1..n /\ ps[i] \in Types
      BY <2>1, <3>3, <3>4
    <3>6. Shown(args[i])
      BY <1>0, <3>1, <3>5
    <3>7. IsType(ImplicitCastTo(args[i].type, ps[i]))
      BY <3>3, <3>4, <3>5 DEF IsType
    <3> HIDE DEF ps
    <3>8. Within(ps[i], AsValue(args[i]))
      BY <3>5, <3>6, <3>7, CastsWithin
    <3>9. args[i].consts \in Seq(BOOLEAN)
      BY <3>6, SoundFields DEF Shown
    <3>. QED
      BY <3>5, <3>8, <3>9, WithinLaunders DEF ps
  <2>. QED
    BY <2>1 DEF HarmlessCall
<1>. QED
  BY <1>1, <1>2, <1>3 DEF Harmless

\* The consts of every operand are shown by its type.
AllShown == operands \in Seq(ShownOperands) /\ failed \in BOOLEAN /\ wrote \in BOOLEAN

\* Operands that are shown show every const of the declarations.
LEMMA ShownVisible ==
  AllShown => ConstVisible
<1>1. SUFFICES ASSUME AllShown, NEW k \in 1..Depth, ~operands[k].err,
                      NEW i \in DOMAIN operands[k].consts,
                      operands[k].consts[i], i > 1 \/ operands[k].lvalue
               PROVE  i \in DOMAIN ConstsOf(operands[k].type) /\ ConstsOf(operands[k].type)[i]
  BY DEF ConstVisible
<1> DEFINE o == operands[k]
<1>2. o \in ShownOperands
  BY <1>1 DEF AllShown, Depth
<1>3. Shown(o)
  BY <1>1, <1>2, ShownFields
<1>4. o.type \in Types /\ Below(o.type, o.consts) /\ (o.lvalue => Top(o.type, o.consts))
      /\ o.consts \in Seq(BOOLEAN)
  BY <1>3, SoundFields DEF Shown
<1> HIDE DEF o
<1>5. CASE i # 1
  BY <1>1, <1>4, <1>5 DEF Below, o
<1>6. CASE i = 1
  <2>1. "const" \in o.type.q
    BY <1>1, <1>4, <1>6 DEF Top, o
  <2>2. /\ ConstsOf(o.type)[1] = ("const" \in o.type.q)
        /\ ConstsOf(o.type) \in Seq(BOOLEAN) /\ Len(ConstsOf(o.type)) \in Nat \ {0}
    BY <1>4, ConstsFacts
  <2>3. ConstsOf(o.type)[1] /\ 1 \in DOMAIN ConstsOf(o.type)
    BY <2>1, <2>2
  <2>. QED
    BY <1>6, <2>3 DEF o
<1>. QED
  BY <1>5, <1>6

\* A step over operands that are shown leaves operands that are, and writes to
\* nothing declared const.
LEMMA ShownKept ==
  ASSUME KeepsConst, AllShown, [Next]_vars
  PROVE  AllShown' /\ (NoXorAssignment /\ ~wrote => ~wrote')
<1>1. operands \in Seq(ShownOperands) /\ failed \in BOOLEAN /\ wrote \in BOOLEAN
  BY DEF AllShown
<1>2. Kept(ShownOperands)
  BY <1>1, ShownClosed, Steps_
<1>3. NoXorAssignment => Harmless(ShownOperands)
  BY ShownHarmless DEF KeepsConst
<1>. QED
  BY <1>1, <1>2, <1>3 DEF Kept, AllShown

\* Nothing is shown at first.
LEMMA ShownInit ==
  Init => AllShown /\ ConstSafe
<1>1. << >> \in Seq(ShownOperands)
  OBVIOUS
<1>. QED
  BY <1>1 DEF Init, AllShown, ConstSafe

\* Every const of the declarations an operand was reached through is still in its
\* type, through members, indices, pointers, + and -, conditionals and whatever else
\* an operator makes of them, for any leaves, types and members where void is not
\* const, structs have no arrays, and - is not used or enums are not const: there
\* the code loses one.
THEOREM ConstsStay ==
  ASSUME KeepsConst
  PROVE  Spec => []ConstVisible
<1>1. Init => AllShown
  BY ShownInit
<1>2. AllShown /\ [Next]_vars => AllShown'
  BY ShownKept
<1>3. AllShown => ConstVisible
  BY ShownVisible
<1>. QED
  BY <1>1, <1>2, <1>3, PTL DEF Spec

\* No accepted expression writes to an object declared const, or makes a pointer
\* that allows it, under the same conditions and without ^=, which the code does not
\* know for an assignment.
THEOREM ConstsKept ==
  ASSUME KeepsConst, NoXorAssignment
  PROVE  Spec => []ConstSafe
<1>1. Init => AllShown /\ ConstSafe
  BY ShownInit
<1>2. AllShown /\ ConstSafe /\ [Next]_vars => AllShown' /\ ConstSafe'
  BY ShownKept DEF ConstSafe
<1>. QED
  BY <1>1, <1>2, PTL DEF Spec

------------------------------------------------------------------------------
(* Balanced operands *)

\* x has the value range of the integer c.
AsInt(x, c) ==
    /\ x.basic \in {"INT", "ENUM"}
    /\ IntCompatible(x).size = c.size /\ IntCompatible(x).unsigned = c.unsigned
AsFloat(x, c) == x.basic = "FLOAT" /\ x.size = c.size

\* The kind of the composite of two types.
KindOf(a, b) ==
    IF a.basic = b.basic THEN a.basic
    ELSE IF a.basic \in {"INT", "ENUM"} /\ b.basic \in {"INT", "ENUM"} THEN "INT"
    ELSE "POINTER"

\* The composite c of two types has their kind, and their size where it has one.
IsComposite(a, b, c) ==
    /\ c.basic = KindOf(a, b)
    /\ c.basic = "INT" => AsInt(a, c) /\ AsInt(b, c)
    /\ c.basic = "FLOAT" => AsFloat(a, c) /\ AsFloat(b, c)

\* An enum is used as the integer EnumInt, an integer as itself.
LEMMA EnumInts ==
  /\ \A q : Qualify(EnumInt, q).basic = "INT" /\ Qualify(EnumInt, q).size = EnumInt.size
            /\ Qualify(EnumInt, q).unsigned = EnumInt.unsigned
  /\ \A t : t.basic = "INT" => IntCompatible(t) = t
  /\ \A t : t.basic = "ENUM" => IntCompatible(t) = Qualify(EnumInt, t.q)
<1>1. \A q : Qualify(EnumInt, q).basic = "INT" /\ Qualify(EnumInt, q).size = EnumInt.size
             /\ Qualify(EnumInt, q).unsigned = EnumInt.unsigned
  BY DEF Qualify, EnumInt, INT
<1>2. \A t : t.basic = "INT" => IntCompatible(t) = t
  BY DEF IntCompatible
<1>3. \A t : t.basic = "ENUM" => IntCompatible(t) = Qualify(EnumInt, t.q)
  BY DEF IntCompatible
<1>. QED
  BY <1>1, <1>2, <1>3

\* An integer or a float without its qualifiers.
LEMMA Numbers ==
  ASSUME NEW n \in 0..TypeDepth, NEW t \in TypesUpTo[n]
  PROVE  /\ t.basic = "INT" => ResetQualifies(t) = INT(t.size, t.unsigned)
         /\ t.basic = "FLOAT" => ResetQualifies(t) = FLOAT(t.size)
<1>1. ASSUME t.basic = "INT" PROVE ResetQualifies(t) = INT(t.size, t.unsigned)
  <2>1. t \in [basic : {"INT"}, size : Nat, unsigned : BOOLEAN, q : SUBSET Qualifiers]
    BY <1>1, Kinds
  <2>. QED
    BY <2>1 DEF ResetQualifies, INT
<1>2. ASSUME t.basic = "FLOAT" PROVE ResetQualifies(t) = FLOAT(t.size)
  <2>1. t \in [basic : {"FLOAT"}, size : Nat, q : SUBSET Qualifiers]
    BY <1>2, Kinds
  <2>. QED
    BY <2>1 DEF ResetQualifies, FLOAT
<1>. QED
  BY <1>1, <1>2

\* What is compatible has a composite of the kind of both.
LEMMA CompositesAre ==
  ASSUME NEW a \in Types, NEW b \in Types, IsType(CompatibleWith(a, b))
  PROVE  IsComposite(a, b, CompatibleWith(a, b))
<1> DEFINE c == CompatibleWith(a, b)
           inner == Inner(TypeDepth)
<1>1. TypeDepth \in 0..TypeDepth /\ a \in TypesUpTo[TypeDepth] /\ b \in TypesUpTo[TypeDepth]
  BY TypesAssumption DEF Types
<1>2. c = CompositeType(a, b, inner)
  BY <1>1, CompatibleAt DEF CompatibleWith
<1>3. IsType(c)
  OBVIOUS
<1>4. ~IsType(NoType) /\ ~IsType(AssertFails)
  BY DEF IsType
<1> HIDE DEF c, inner
<1>5. CASE a.basic \in {"STRUCT", "UNION", "VOID", "FLOAT"}
  <2>1. c = b /\ b.basic = a.basic /\ (a.basic = "FLOAT" => a.size = b.size)
    BY <1>2, <1>3, <1>4, <1>5
    DEF CompositeType, CompatibleStruct, CompatibleUnion, CompatibleVoid, CompatibleFloat, Provided
  <2>. QED
    BY <1>5, <2>1 DEF IsComposite, KindOf, AsFloat, c
<1>6. CASE a.basic = "ENUM"
  <2>1. c = CompatibleEnum(a, b)
    BY <1>2, <1>6 DEF CompositeType
  <2>2. c = b /\ (b.basic = "ENUM" \/ IsEnumInt(b))
    BY <1>3, <1>4, <2>1 DEF CompatibleEnum, Provided
  <2>3. b.basic = "ENUM" \/ (b.basic = "INT" /\ b.size = EnumInt.size /\ b.unsigned = EnumInt.unsigned)
    BY <2>2 DEF IsEnumInt
  <2>. QED
    BY <1>6, <2>2, <2>3, EnumInts DEF IsComposite, KindOf, AsInt, c
<1>7. CASE a.basic = "INT"
  <2>1. c = CompatibleInt(a, b)
    BY <1>2, <1>7 DEF CompositeType
  <2>2. CASE b.basic = "INT"
    <3>1. c = b /\ a.size = b.size /\ a.unsigned = b.unsigned
      BY <1>3, <1>4, <2>1, <2>2 DEF CompatibleInt, Provided
    <3>. QED
      BY <1>7, <2>2, <3>1, EnumInts DEF IsComposite, KindOf, AsInt, c
  <2>3. CASE b.basic # "INT"
    <3>1. c = ResetQualifies(a) /\ b.basic = "ENUM" /\ IsEnumInt(a)
      BY <1>3, <1>4, <2>1, <2>3 DEF CompatibleInt, Provided
    <3>2. c = INT(a.size, a.unsigned)
      BY <1>1, <1>7, <3>1, Numbers
    <3>3. c.basic = "INT" /\ c.size = a.size /\ c.unsigned = a.unsigned
      BY <3>2 DEF INT
    <3>4. a.size = EnumInt.size /\ a.unsigned = EnumInt.unsigned
      BY <3>1 DEF IsEnumInt
    <3>. QED
      BY <1>7, <3>1, <3>3, <3>4, EnumInts DEF IsComposite, KindOf, AsInt, c
  <2>. QED
    BY <2>2, <2>3
<1>8. CASE PointsTo(a)
  <2>1. PointsTo(b)
    BY <1>8, CompositeKinds
  <2> DEFINE x == inner[<< a.to, b.to >>]
  <2>2. ASSUME c = CompatiblePointer(a, b, inner) PROVE c.basic = "POINTER"
    <3>1. IsType(x) /\ c = Qualify(POINTER(x), a.q)
      <4> HIDE DEF x
      <4>1. c = IF ~PointsTo(b) \/ ~SameQualifiers(a, b) THEN NoType
                ELSE IF IsType(x) THEN Qualify(POINTER(x), a.q) ELSE x
        BY <2>2, Zenon DEF CompatiblePointer, x
      <4>. QED
        BY <1>3, <1>4, <4>1
    <3>. QED
      BY <3>1 DEF Qualify, POINTER
  <2>3. CASE a.basic = "POINTER"
    <3>1. c = CompatiblePointer(a, b, inner)
      BY <1>2, <2>3 DEF CompositeType
    <3>. QED
      BY <2>1, <2>2, <2>3, <3>1 DEF IsComposite, KindOf, PointsTo, c
  <2>4. CASE a.basic = "ARRAY" /\ b.basic # "ARRAY"
    <3>1. c = CompatibleArray(a, b, inner)
      BY <1>2, <2>4 DEF CompositeType
    <3>2. c = CompatiblePointer(a, b, inner)
      BY <2>4, <3>1, Zenon DEF CompatibleArray
    <3>. QED
      BY <2>1, <2>2, <2>4, <3>2 DEF IsComposite, KindOf, PointsTo, c
  <2>5. CASE a.basic = "ARRAY" /\ b.basic = "ARRAY"
    <3>1. c = CompatibleArray(a, b, inner)
      BY <1>2, <2>5 DEF CompositeType
    <3>2. a.q = b.q
      <4>1. PointerAnswer(TypeDepth, a, b, inner, c)
        BY <1>1, <1>2, <1>8, PointerAnswers DEF inner
      <4>. QED
        BY <1>3, <1>4, <4>1 DEF PointerAnswer
    <3> DEFINE y == [ARRAY(x, CompositeSize(a, b)) EXCEPT !.static = a.static /\ b.static]
    <3>3. c = Qualify(y, a.q)
      <4> HIDE DEF x
      <4>1. c = IF ~IsType(x) THEN x
                ELSE Provided(Qualify(y, a.q), a.size < 0 \/ b.size < 0 \/ a.size = b.size)
        BY <2>5, <3>1, <3>2, Zenon DEF CompatibleArray, SameQualifiers, x
      <4> HIDE DEF y
      <4>. QED
        BY <1>3, <1>4, <4>1 DEF Provided
    <3>4. c.basic = "ARRAY"
      <4> HIDE DEF x
      <4>1. \A s, n, z, q : Qualify(WithStatic(ARRAY(z, n), s), q).basic = "ARRAY"
        BY DEF Qualify, WithStatic, ARRAY
      <4>2. PICK z, n, s : y = WithStatic(ARRAY(z, n), s)
        BY Zenon DEF WithStatic
      <4> HIDE DEF y
      <4>. QED
        BY <3>3, <4>1, <4>2, Zenon
    <3>. QED
      BY <2>5, <3>4 DEF IsComposite, KindOf, c
  <2>. QED
    BY <1>8, <2>3, <2>4, <2>5 DEF PointsTo
<1>9. CASE a.basic = "FUNCTION"
  <2>1. FunctionAnswer(TypeDepth, a, b, inner, c)
    BY <1>1, <1>2, <1>9, FunctionAnswers DEF inner
  <2> DEFINE r == inner[<< a.ret, b.ret >>]
  <2>2. b.basic = "FUNCTION" /\ IsType(r)
    BY <1>3, <2>1 DEF FunctionAnswer, IsType
  <2>3. \/ c = b
        \/ c = FUNCTION(a.ret, a.params, a.variadic)
        \/ c = NoType
        \/ \E p : c = FUNCTION(r, p, FALSE)
    BY <2>1, <2>2, Zenon DEF FunctionAnswer
  <2> HIDE DEF r
  <2>4. c.basic = "FUNCTION"
    BY <1>3, <2>2, <2>3 DEF FUNCTION, IsType
  <2>. QED
    BY <1>9, <2>2, <2>4 DEF IsComposite, KindOf, c
<1>. QED
  BY <1>1, <1>5, <1>6, <1>7, <1>8, <1>9, Kinds DEF PointsTo

\* Both answers are the same, or types of a kind, and the same type where they are
\* numbers, but for their qualifiers.
Agree(x, y) ==
    \/ x = y
    \/ /\ IsType(x) /\ IsType(y) /\ x.basic = y.basic
       /\ x.basic \in Arithmetic => ResetQualifies(x) = ResetQualifies(y)

\* What the balancing of operands that are not compatible gives.
Promoted(a, b) ==
    LET i1 == IntCompatible(a)
        i2 == IntCompatible(b)
    IN  IF IsType(i1) /\ IsType(i2) THEN LongerInt(i1, i2)
        ELSE IF IsType(i1) /\ b.basic = "FLOAT" THEN b
        ELSE IF a.basic = "FLOAT" /\ IsType(i2) THEN a
        ELSE IF a.basic = "FLOAT" /\ b.basic = "FLOAT"
             THEN IF a.size > b.size THEN a ELSE b
        ELSE NoType

\* Balancing is composing, or else promoting.
LEMMA ComposedIs ==
  ASSUME NEW a, NEW b
  PROVE  Composed(a, b) =
           IF CompatibleWith(a, b) # NoType THEN CompatibleWith(a, b) ELSE Promoted(a, b)
BY Zenon DEF Composed, CompositeOrPromote, Promoted

\* Of two integers the longer one is the same in both orders, and holds both.
LEMMA Longer ==
  ASSUME NEW i \in IntTypes, NEW j \in IntTypes
  PROVE  /\ LongerInt(i, j) \in IntTypes
         /\ LongerInt(i, j).size = LongerInt(j, i).size
         /\ LongerInt(i, j).unsigned = LongerInt(j, i).unsigned
         /\ Holds(LongerInt(i, j), i) /\ Holds(LongerInt(i, j), j)
<1>1. /\ i.size \in Nat /\ i.unsigned \in BOOLEAN
      /\ j.size \in Nat /\ j.unsigned \in BOOLEAN
  BY DEF IntTypes
<1>2. CASE i.size > j.size
  <2>1. LongerInt(i, j) = i /\ LongerInt(j, i) = i
    BY <1>1, <1>2 DEF LongerInt
  <2>. QED
    BY <1>1, <1>2, <2>1 DEF Holds
<1>3. CASE i.size < j.size
  <2>1. LongerInt(i, j) = j /\ LongerInt(j, i) = j
    BY <1>1, <1>3 DEF LongerInt
  <2>. QED
    BY <1>1, <1>3, <2>1 DEF Holds
<1>4. CASE i.size = j.size
  <2>1. /\ LongerInt(i, j) = IF i.unsigned THEN i ELSE j
        /\ LongerInt(j, i) = IF j.unsigned THEN j ELSE i
    BY <1>1, <1>4 DEF LongerInt
  <2>2. CASE i.unsigned
    <3>1. LongerInt(i, j) = i
      BY <2>1, <2>2
    <3>2. LongerInt(j, i).unsigned /\ LongerInt(j, i).size = i.size
      BY <1>4, <2>1, <2>2
    <3>. QED
      BY <1>1, <1>4, <2>1, <2>2, <3>1, <3>2 DEF Holds
  <2>3. CASE ~i.unsigned
    <3>1. LongerInt(i, j) = j
      BY <2>1, <2>3
    <3>2. LongerInt(j, i).unsigned = j.unsigned /\ LongerInt(j, i).size = i.size
      BY <1>1, <1>4, <2>1, <2>3
    <3>. QED
      BY <1>1, <1>4, <2>1, <2>3, <3>1, <3>2 DEF Holds
  <2>. QED
    BY <2>2, <2>3
<1>. QED
  BY <1>1, <1>2, <1>3, <1>4

\* Integers and floats of a size are the same types.
LEMMA SameNumbers ==
  ASSUME NEW s \in Types, NEW t \in Types, s.basic = t.basic,
         s.basic = "INT" => s.size = t.size /\ s.unsigned = t.unsigned,
         s.basic = "FLOAT" => s.size = t.size
  PROVE  Agree(s, t)
<1>1. TypeDepth \in 0..TypeDepth /\ Types = TypesUpTo[TypeDepth]
  BY TypesAssumption DEF Types
<1>2. /\ s.basic = "INT" => ResetQualifies(s) = INT(s.size, s.unsigned)
      /\ s.basic = "FLOAT" => ResetQualifies(s) = FLOAT(s.size)
      /\ t.basic = "INT" => ResetQualifies(t) = INT(t.size, t.unsigned)
      /\ t.basic = "FLOAT" => ResetQualifies(t) = FLOAT(t.size)
  BY <1>1, Numbers
<1>3. IsType(s) /\ IsType(t)
  BY <1>1, NoTypes DEF IsType
<1>4. s.basic \in Arithmetic => ResetQualifies(s) = ResetQualifies(t)
  BY <1>2 DEF Arithmetic
<1>. QED
  BY <1>3, <1>4 DEF Agree

\* What is promoted is so in both orders.
LEMMA PromotedAgree ==
  ASSUME NEW a \in Types, NEW b \in Types
  PROVE  Agree(Promoted(a, b), Promoted(b, a))
<1> DEFINE i == IntCompatible(a)
           j == IntCompatible(b)
<1>1. TypeDepth \in 0..TypeDepth /\ Types = TypesUpTo[TypeDepth]
  BY TypesAssumption DEF Types
<1>2. /\ IntTypes \subseteq Types
      /\ IsType(i) <=> a.basic \in {"INT", "ENUM"}
      /\ IsType(j) <=> b.basic \in {"INT", "ENUM"}
      /\ IsType(i) => i \in IntTypes
      /\ IsType(j) => j \in IntTypes
  BY <1>1, Integers_
<1>3. /\ Promoted(a, b) = IF IsType(i) /\ IsType(j) THEN LongerInt(i, j)
                          ELSE IF IsType(i) /\ b.basic = "FLOAT" THEN b
                          ELSE IF a.basic = "FLOAT" /\ IsType(j) THEN a
                          ELSE IF a.basic = "FLOAT" /\ b.basic = "FLOAT"
                               THEN IF a.size > b.size THEN a ELSE b
                          ELSE NoType
      /\ Promoted(b, a) = IF IsType(j) /\ IsType(i) THEN LongerInt(j, i)
                          ELSE IF IsType(j) /\ a.basic = "FLOAT" THEN a
                          ELSE IF b.basic = "FLOAT" /\ IsType(i) THEN b
                          ELSE IF b.basic = "FLOAT" /\ a.basic = "FLOAT"
                               THEN IF b.size > a.size THEN b ELSE a
                          ELSE NoType
  BY Zenon DEF Promoted
<1> HIDE DEF i, j
<1>4. CASE IsType(i) /\ IsType(j)
  <2>1. i \in IntTypes /\ j \in IntTypes
    BY <1>2, <1>4
  <2>2. /\ LongerInt(i, j) \in IntTypes /\ LongerInt(j, i) \in IntTypes
        /\ LongerInt(i, j).size = LongerInt(j, i).size
        /\ LongerInt(i, j).unsigned = LongerInt(j, i).unsigned
    BY <2>1, Longer
  <2>3. LongerInt(i, j).basic = "INT" /\ LongerInt(j, i).basic = "INT"
    BY <2>2 DEF IntTypes
  <2>4. Promoted(a, b) = LongerInt(i, j) /\ Promoted(b, a) = LongerInt(j, i)
    BY <1>3, <1>4
  <2>. QED
    BY <1>2, <2>2, <2>3, <2>4, SameNumbers
<1>5. CASE a.basic = "FLOAT" /\ b.basic = "FLOAT"
  <2>1. /\ Promoted(a, b) = IF a.size > b.size THEN a ELSE b
        /\ Promoted(b, a) = IF b.size > a.size THEN b ELSE a
    BY <1>2, <1>3, <1>5
  <2>2. a.size \in Nat /\ b.size \in Nat
    BY <1>1, <1>5, Kinds
  <2>3. CASE a.size # b.size
    <3>1. Promoted(a, b) = Promoted(b, a)
      BY <2>1, <2>2, <2>3
    <3>. QED
      BY <3>1 DEF Agree
  <2>4. CASE a.size = b.size
    <3>1. Promoted(a, b) = b /\ Promoted(b, a) = a
      BY <2>1, <2>2, <2>4
    <3>. QED
      BY <1>5, <2>4, <3>1, SameNumbers
  <2>. QED
    BY <2>3, <2>4
<1>6. CASE ~(IsType(i) /\ IsType(j)) /\ ~(a.basic = "FLOAT" /\ b.basic = "FLOAT")
  <2>1. Promoted(a, b) = Promoted(b, a)
    BY <1>2, <1>3, <1>6
  <2>. QED
    BY <2>1 DEF Agree
<1>. QED
  BY <1>4, <1>5, <1>6

\* Two operands are balanced in both orders alike.
LEMMA ComposedAgree ==
  ASSUME NEW a \in Types, NEW b \in Types
  PROVE  Agree(Composed(a, b), Composed(b, a))
<1> DEFINE w == CompatibleWith(a, b)
           v == CompatibleWith(b, a)
<1>1. /\ w \in Types \cup {NoType, AssertFails} /\ v \in Types \cup {NoType, AssertFails}
      /\ Alike(w, v)
  BY CompatibleFacts
<1>2. /\ Composed(a, b) = IF w # NoType THEN w ELSE Promoted(a, b)
      /\ Composed(b, a) = IF v # NoType THEN v ELSE Promoted(b, a)
  BY ComposedIs
<1>3. /\ IsType(w) => IsComposite(a, b, w)
      /\ IsType(v) => IsComposite(b, a, v)
  BY CompositesAre
<1> HIDE DEF w, v
<1>4. CASE IsType(w)
  <2>1. IsType(v)
    BY <1>1, <1>4 DEF Alike
  <2>2. w \in Types /\ v \in Types /\ w # NoType /\ v # NoType
    BY <1>1, <1>4, <2>1 DEF IsType
  <2>3. IsComposite(a, b, w) /\ IsComposite(b, a, v)
    BY <1>3, <1>4, <2>1
  <2>4. w.basic = v.basic
    BY <2>3 DEF IsComposite, KindOf
  <2>5. w.basic = "INT" => w.size = v.size /\ w.unsigned = v.unsigned
    BY <2>3, <2>4 DEF IsComposite, AsInt
  <2>6. w.basic = "FLOAT" => w.size = v.size
    BY <2>3, <2>4 DEF IsComposite, AsFloat
  <2>7. Agree(w, v)
    BY <2>2, <2>4, <2>5, <2>6, SameNumbers
  <2>. QED
    BY <1>2, <2>2, <2>7
<1>5. CASE w = NoType
  <2>1. v = NoType
    BY <1>1, <1>5 DEF Alike, IsType
  <2>. QED
    BY <1>2, <1>5, <2>1, PromotedAgree
<1>6. CASE w = AssertFails
  <2>1. v = AssertFails
    BY <1>1, <1>6 DEF Alike, IsType
  <2>. QED
    BY <1>2, <1>6, <2>1, NoTypes DEF Agree
<1>. QED
  BY <1>1, <1>4, <1>5, <1>6 DEF IsType

\* The integer that two operands are balanced to holds the values of both, as far
\* as one of the two does.
LEMMA ComposedHolds ==
  ASSUME NEW a \in Types, NEW b \in Types, IsType(Composed(a, b)), Composed(a, b).basic = "INT",
         NEW x \in {a, b}, IsType(IntCompatible(x))
  PROVE  Holds(Composed(a, b), IntCompatible(x))
<1> DEFINE w == CompatibleWith(a, b)
           t == Composed(a, b)
<1>0. TypeDepth \in 0..TypeDepth /\ Types = TypesUpTo[TypeDepth] /\ x \in Types
  BY TypesAssumption DEF Types
<1>1. t = IF w # NoType THEN w ELSE Promoted(a, b)
  BY ComposedIs
<1>2. IsType(t) /\ t.basic = "INT" /\ IsType(IntCompatible(x))
  OBVIOUS
<1>3. IsType(w) => IsComposite(a, b, w)
  BY CompositesAre
<1>4. t \in Types
  BY <1>2, Composites DEF IsType
<1>5. IntCompatible(x) \in IntTypes
  BY <1>0, <1>2, Integers_
<1> HIDE DEF t, w
<1>6. t.size \in Nat /\ t.unsigned \in BOOLEAN
  BY <1>0, <1>2, <1>4, Kinds
<1>7. IntCompatible(x).size \in Nat /\ IntCompatible(x).unsigned \in BOOLEAN
  BY <1>5 DEF IntTypes
<1>8. CASE w # NoType
  <2>1. IsComposite(a, b, t)
    BY <1>1, <1>2, <1>3, <1>8
  <2>2. AsInt(x, t)
    BY <1>2, <2>1 DEF IsComposite
  <2>. QED
    BY <1>6, <1>7, <2>2 DEF AsInt, Holds, t
<1>9. CASE w = NoType
  <2> DEFINE i == IntCompatible(a)
             j == IntCompatible(b)
  <2>1. /\ IntTypes \subseteq Types
        /\ IsType(i) <=> a.basic \in {"INT", "ENUM"}
        /\ IsType(j) <=> b.basic \in {"INT", "ENUM"}
        /\ IsType(i) => i \in IntTypes
        /\ IsType(j) => j \in IntTypes
    BY <1>0, Integers_
  <2>2. t = IF IsType(i) /\ IsType(j) THEN LongerInt(i, j)
            ELSE IF IsType(i) /\ b.basic = "FLOAT" THEN b
            ELSE IF a.basic = "FLOAT" /\ IsType(j) THEN a
            ELSE IF a.basic = "FLOAT" /\ b.basic = "FLOAT"
                 THEN IF a.size > b.size THEN a ELSE b
            ELSE NoType
    BY <1>1, <1>9, Zenon DEF Promoted
  <2>3. IntCompatible(x) \in {i, j}
    OBVIOUS
  <2> HIDE DEF i, j
  <2>4. ~IsType(NoType)
    BY DEF IsType
  <2>5. IsType(i) /\ IsType(j)
    BY <1>2, <2>1, <2>2, <2>4
  <2>6. t = LongerInt(i, j)
    BY <2>2, <2>5
  <2>7. Holds(t, i) /\ Holds(t, j)
    BY <2>1, <2>5, <2>6, Longer
  <2>. QED
    BY <2>3, <2>7 DEF t
<1>. QED
  BY <1>8, <1>9

\* What an operator that assigns nothing makes of its type.
Finished(t) ==
    IF ~IsType(t) THEN t
    ELSE IF IsType(CopyOf(t)) THEN ResetQualifies(CopyOf(t)) ELSE CopyOf(t)

\* The operators that are commutative, or answer alike in both orders.
Balancing == {"PLUS", "MULTIPLY", "BITWISE_AND", "LESS_THAN"}

\* The types of those operators.
LEMMA BalancingTypes ==
  ASSUME NEW op \in Balancing, NEW l, NEW r
  PROVE  /\ BinaryType(op, l, r) = Finished(PlainType(op, l.type, r.type))
         /\ op = "PLUS" => PlainType(op, l.type, r.type) = PlusType(Decayed(l.type), Decayed(r.type))
         /\ op = "MULTIPLY" => PlainType(op, l.type, r.type) = FactorType(l.type, r.type)
         /\ op = "BITWISE_AND" => PlainType(op, l.type, r.type) = IntegralType(l.type, r.type)
         /\ op = "LESS_THAN" => PlainType(op, l.type, r.type) = ComparisonType(l.type, r.type)
<1>1. op \notin Assignments
  BY DEF Balancing, Assignments
<1> DEFINE t == PlainType(op, l.type, r.type)
<1>2. BinaryType(op, l, r) =
         IF op \in Assignments /\ CopyOf(l.type) = AssertFails THEN AssertFails
         ELSE IF op \in Assignments /\ (~l.lvalue \/ "const" \in l.type.q) THEN NoType
         ELSE IF ~IsType(t) THEN t
         ELSE IF IsType(CopyOf(IF op \in Assignments THEN l.type ELSE t))
              THEN ResetQualifies(CopyOf(IF op \in Assignments THEN l.type ELSE t))
              ELSE CopyOf(IF op \in Assignments THEN l.type ELSE t)
  BY Zenon DEF BinaryType
<1>3. BinaryType(op, l, r) = Finished(t)
  <2> HIDE DEF t
  <2>. QED
    BY <1>1, <1>2 DEF Finished
<1>4. op = "PLUS" => t = PlusType(Decayed(l.type), Decayed(r.type))
  BY DEF PlainType, Factors, Comparisons, Equalities, Logicals, Accumulates
<1>5. op = "MULTIPLY" => t = FactorType(l.type, r.type)
  BY DEF PlainType, Factors, Comparisons, Equalities, Logicals, Accumulates
<1>6. op = "BITWISE_AND" => t = IntegralType(l.type, r.type)
  BY DEF PlainType, Factors, Comparisons, Equalities, Logicals, Accumulates
<1>7. op = "LESS_THAN" => t = ComparisonType(l.type, r.type)
  BY DEF PlainType, Factors, Comparisons, Equalities, Logicals, Accumulates
<1>. QED
  BY <1>3, <1>4, <1>5, <1>6, <1>7

\* Answers that agree, and are numbers or the same, end as the same type.
LEMMA Finishes ==
  ASSUME NEW x, NEW y, Agree(x, y), x = y \/ x.basic \in Arithmetic
  PROVE  Finished(x) = Finished(y)
<1>1. CASE x = y
  BY <1>1
<1>2. CASE x # y
  <2>1. /\ IsType(x) /\ IsType(y) /\ x.basic = y.basic /\ x.basic \in Arithmetic
        /\ ResetQualifies(x) = ResetQualifies(y)
    BY <1>2 DEF Agree
  <2>2. CopyOf(x) = x /\ CopyOf(y) = y
    BY <2>1 DEF CopyOf, Arithmetic
  <2>. QED
    BY <2>1, <2>2 DEF Finished
<1>. QED
  BY <1>1, <1>2

\* Answers that agree do so when they are restricted to some kinds.
LEMMA RestrictedAgree ==
  ASSUME NEW x, NEW y, NEW kinds, Agree(x, y)
  PROVE  Agree(OfKind(x, kinds), OfKind(y, kinds))
<1>1. CASE x = y
  BY <1>1 DEF Agree
<1>2. CASE x # y
  <2>1. IsType(x) /\ IsType(y) /\ x.basic = y.basic
    BY <1>2 DEF Agree
  <2>2. x # AssertFails /\ y # AssertFails
    BY <2>1 DEF IsType
  <2>3. \/ OfKind(x, kinds) = x /\ OfKind(y, kinds) = y
        \/ OfKind(x, kinds) = NoType /\ OfKind(y, kinds) = NoType
    BY <2>1, <2>2 DEF OfKind
  <2>. QED
    BY <2>3 DEF Agree
<1>. QED
  BY <1>1, <1>2

\* The types of + in both orders.
LEMMA PlusAgree ==
  ASSUME NEW a \in Types, NEW b \in Types
  PROVE  /\ Agree(PlusType(a, b), PlusType(b, a))
         /\ PlusType(a, b) = PlusType(b, a) \/ PlusType(a, b).basic \in Arithmetic
         /\ PlusType(a, b).basic = "INT" => PlusType(a, b) = Composed(a, b)
<1>1. TypeDepth \in 0..TypeDepth /\ Types = TypesUpTo[TypeDepth]
  BY TypesAssumption DEF Types
<1>2. \A t \in Types : Steppable(t) => ~IsType(IntCompatible(t)) /\ t.basic = "POINTER"
  BY <1>1, Integers_ DEF Steppable
<1> DEFINE i == IsType(IntCompatible(a))
           j == IsType(IntCompatible(b))
           x == OfKind(Composed(a, b), Arithmetic)
           y == OfKind(Composed(b, a), Arithmetic)
<1>3. /\ Steppable(a) => PlusType(a, b) = IF j THEN a ELSE NoType
      /\ ~Steppable(a) /\ Steppable(b) => PlusType(a, b) = IF i THEN b ELSE NoType
      /\ ~Steppable(a) /\ ~Steppable(b) => PlusType(a, b) = x
      /\ Steppable(b) => PlusType(b, a) = IF i THEN b ELSE NoType
      /\ ~Steppable(b) /\ Steppable(a) => PlusType(b, a) = IF j THEN a ELSE NoType
      /\ ~Steppable(b) /\ ~Steppable(a) => PlusType(b, a) = y
  BY DEF PlusType
<1>4. Agree(x, y)
  BY ComposedAgree, RestrictedAgree
<1>5. /\ x \in {Composed(a, b), NoType}
      /\ IsType(x) => x = Composed(a, b) /\ x.basic \in Arithmetic
  BY Restricted
<1>6. NoType.basic # "INT"
  BY DEF NoType
<1> HIDE DEF i, j, x, y
<1>7. CASE Steppable(a) \/ Steppable(b)
  <2>1. /\ Steppable(a) => ~i /\ a.basic = "POINTER"
        /\ Steppable(b) => ~j /\ b.basic = "POINTER"
    BY <1>2 DEF i, j
  <2>2. PlusType(a, b) = PlusType(b, a)
    BY <1>3, <1>7, <2>1
  <2>3. PlusType(a, b).basic # "INT"
    BY <1>3, <1>6, <1>7, <2>1
  <2>. QED
    BY <2>2, <2>3 DEF Agree
<1>8. CASE ~Steppable(a) /\ ~Steppable(b)
  <2>1. PlusType(a, b) = x /\ PlusType(b, a) = y
    BY <1>3, <1>8
  <2>2. x = y \/ x.basic \in Arithmetic
    BY <1>4, <1>5 DEF Agree
  <2>3. x.basic = "INT" => x = Composed(a, b)
    BY <1>5, <1>6
  <2>. QED
    BY <1>4, <2>1, <2>2, <2>3
<1>. QED
  BY <1>7, <1>8

\* The type op gives before it is finished, in both orders.
LEMMA PlainAgree ==
  ASSUME NEW op \in Balancing, NEW l, NEW r, l.type \in Types, r.type \in Types
  PROVE  /\ BinaryType(op, r, l) = BinaryType(op, l, r)
         /\ op # "LESS_THAN" /\ PlainType(op, l.type, r.type).basic = "INT" =>
               PlainType(op, l.type, r.type) = Composed(l.type, r.type)
<1> DEFINE a == l.type
           b == r.type
           x == PlainType(op, a, b)
           y == PlainType(op, b, a)
<1>1. a \in Types /\ b \in Types
  OBVIOUS
<1>2. /\ BinaryType(op, l, r) = Finished(x) /\ BinaryType(op, r, l) = Finished(y)
      /\ op = "PLUS" => x = PlusType(Decayed(a), Decayed(b)) /\ y = PlusType(Decayed(b), Decayed(a))
      /\ op = "MULTIPLY" => x = FactorType(a, b) /\ y = FactorType(b, a)
      /\ op = "BITWISE_AND" => x = IntegralType(a, b) /\ y = IntegralType(b, a)
      /\ op = "LESS_THAN" => x = ComparisonType(a, b) /\ y = ComparisonType(b, a)
  BY BalancingTypes
<1> HIDE DEF a, b, x, y
<1>3. Agree(Composed(a, b), Composed(b, a))
  BY <1>1, ComposedAgree
<1>4. /\ Agree(x, y) /\ (x = y \/ x.basic \in Arithmetic)
      /\ op # "LESS_THAN" /\ x.basic = "INT" => x = Composed(a, b)
  <2>1. NoType.basic # "INT"
    BY DEF NoType
  <2>2. \A k : k \subseteq Arithmetic =>
           LET c == OfKind(Composed(a, b), k)
               d == OfKind(Composed(b, a), k)
           IN  Agree(c, d) /\ (c = d \/ c.basic \in Arithmetic)
               /\ (c.basic = "INT" => c = Composed(a, b))
    <3>1. ASSUME NEW k, k \subseteq Arithmetic, NEW c, c = OfKind(Composed(a, b), k),
                 NEW d, d = OfKind(Composed(b, a), k)
          PROVE  /\ Agree(c, d) /\ (c = d \/ c.basic \in Arithmetic)
                 /\ (c.basic = "INT" => c = Composed(a, b))
      <4>1. Agree(c, d)
        BY <1>3, <3>1, RestrictedAgree
      <4>2. c \in {Composed(a, b), NoType} /\ (IsType(c) => c.basic \in Arithmetic)
        BY <3>1, Restricted
      <4>. QED
        BY <2>1, <4>1, <4>2 DEF Agree
    <3>. QED
      BY <3>1
  <2>3. CASE op = "PLUS"
    <3>1. Decayed(a) \in Types /\ Decayed(b) \in Types
      BY <1>1, Decays
    <3>2. /\ Agree(x, y) /\ (x = y \/ x.basic \in Arithmetic)
          /\ x.basic = "INT" => x = Composed(Decayed(a), Decayed(b))
      BY <1>2, <2>3, <3>1, PlusAgree
    <3>3. x.basic = "INT" => Decayed(a) = a /\ Decayed(b) = b
      <4>1. SUFFICES ASSUME x.basic = "INT" PROVE Decayed(a) = a /\ Decayed(b) = b
        OBVIOUS
      <4>2. x = Composed(Decayed(a), Decayed(b)) /\ x.basic \in Arithmetic
        BY <3>2, <4>1 DEF Arithmetic
      <4>3. IsType(x)
        BY <4>1 DEF IsType, NoType, AssertFails
      <4>4. ~PointsTo(Decayed(a)) /\ ~PointsTo(Decayed(b))
        BY <3>1, <4>2, <4>3, Composites
      <4>. QED
        BY <1>1, <4>4, Decays
    <3>. QED
      BY <3>2, <3>3
  <2>4. CASE op \in {"MULTIPLY", "BITWISE_AND"}
    <3>1. PICK k : /\ k \subseteq Arithmetic
                   /\ x = OfKind(Composed(a, b), k) /\ y = OfKind(Composed(b, a), k)
      <4>1. CASE op = "MULTIPLY"
        BY <1>2, <4>1 DEF FactorType
      <4>2. CASE op = "BITWISE_AND"
        <5>1. {"INT"} \subseteq Arithmetic
          BY DEF Arithmetic
        <5>. QED
          BY <1>2, <4>2, <5>1 DEF IntegralType
      <4>. QED
        BY <2>4, <4>1, <4>2
    <3>. QED
      BY <2>2, <3>1
  <2>5. CASE op = "LESS_THAN"
    <3> DEFINE k == {"INT", "POINTER"}
               c == OfKind(Composed(a, b), k)
               d == OfKind(Composed(b, a), k)
    <3>1. /\ x = IF IsType(c) THEN Bool ELSE c
          /\ y = IF IsType(d) THEN Bool ELSE d
      BY <1>2, <2>5, Zenon DEF ComparisonType
    <3>2. Agree(c, d)
      BY <1>3, RestrictedAgree
    <3> HIDE DEF c, d
    <3>3. x = y
      BY <3>1, <3>2 DEF Agree
    <3>. QED
      BY <2>5, <3>3 DEF Agree
  <2>. QED
    BY <2>3, <2>4, <2>5 DEF Balancing
<1>5. Finished(x) = Finished(y)
  BY <1>4, Finishes
<1>. QED
  BY <1>2, <1>4, <1>5 DEF x, a, b

\* The integer an operator gives holds the values of its operands.
LEMMA BalancedHolds ==
  ASSUME NEW op \in Balancing, op # "LESS_THAN", NEW l, NEW r, l.type \in Types, r.type \in Types,
         BinaryType(op, l, r).basic = "INT",
         NEW o \in {l, r}, IsType(IntCompatible(o.type))
  PROVE  Holds(BinaryType(op, l, r), IntCompatible(o.type))
<1> DEFINE t == BinaryType(op, l, r)
           p == PlainType(op, l.type, r.type)
<1>0. TypeDepth \in 0..TypeDepth /\ Types = TypesUpTo[TypeDepth]
  BY TypesAssumption DEF Types
<1>1. op \notin Assignments
  BY DEF Balancing, Assignments
<1>2. IsType(t)
  BY DEF IsType, NoType, AssertFails
<1>3. IsType(p) /\ t = ResetQualifies(p)
  BY <1>1, <1>2, BinaryTypes
<1>4. p \in Types
  BY <1>3, PlainTypes DEF Answers, IsType
<1>5. t.basic = "INT"
  OBVIOUS
<1>6. op # "LESS_THAN" /\ p.basic = "INT" => p = Composed(l.type, r.type)
  BY PlainAgree
<1> HIDE DEF t, p
<1>7. p.basic = "INT"
  BY <1>0, <1>3, <1>4, <1>5, Unqualified
<1>8. t = INT(p.size, p.unsigned)
  BY <1>0, <1>3, <1>4, <1>7, Numbers
<1>9. t.size = p.size /\ t.unsigned = p.unsigned
  BY <1>8 DEF INT
<1>10. Holds(p, IntCompatible(o.type))
  BY <1>3, <1>6, <1>7, ComposedHolds
<1>. QED
  BY <1>9, <1>10 DEF Holds, t

\* Operands with types are balanced.
LEMMA TypedBalanced ==
  TypeOK => Balanced
<1>1. SUFFICES ASSUME TypeOK, Depth = 2, ~Nth(1).err, ~Nth(2).err, NEW op \in Balancing
               PROVE  /\ BinaryType(op, Nth(1), Nth(2)) = BinaryType(op, Nth(2), Nth(1))
                      /\ op # "LESS_THAN" /\ BinaryType(op, Nth(2), Nth(1)).basic = "INT" =>
                            \A o \in {Nth(2), Nth(1)} : IsType(IntCompatible(o.type)) =>
                               Holds(BinaryType(op, Nth(2), Nth(1)), IntCompatible(o.type))
  BY Zenon DEF Balanced, Balancing
<1>2. Nth(1) \in CheckedOperands /\ Nth(2) \in CheckedOperands
  BY <1>1, Nths DEF TypeOK
<1>3. Nth(1).type \in Types /\ Nth(2).type \in Types
  BY <1>1, <1>2, SoundFields DEF Sound
<1>. QED
  BY <1>1, <1>3, PlainAgree, BalancedHolds

\* The operators of arithmetic accept two operands in both orders or in none, give
\* the same type in both, and an integer they give holds the values of both, as far
\* as one of the two does.
THEOREM OperandsBalanced == Spec => []Balanced
BY Typed, TypedBalanced, PTL

==============================================================================
