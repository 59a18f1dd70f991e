----------------------------- MODULE DCLexer_proofs ----------------------------
(****************************************************************************)
(* Proofs about the Lexer, for every set of rules and every text: the tokens *)
(* and the cache are the text, the assertions hold, each token is the        *)
(* longest match of the most urgent class, a call gives up only where there  *)
(* is none, every token shown reaches the caller, and every position the     *)
(* table gives is the one a reader would count.  And about SimpleLexer on    *)
(* top of it: to a parser it is a cursor over one stream of tokens, as long  *)
(* as no call reads more tokens than the window holds.                       *)
(****************************************************************************)
EXTENDS SimpleLexer, FiniteSetTheorems, SequenceTheorems,
        WellFoundedInduction, TLAPS

------------------------------------------------------------------------------
(* Classes and single rules *)

\* Every rule is in one of the classes, and they are numbered from 1.
LEMMA ClassFacts ==
  /\ LastClass \in Nat \ {0}
  /\ Classes = 1 .. LastClass
  /\ \A r \in Rule : ClassOf(r) \in 1 .. LastClass
<1> DEFINE Maj(i) == {j \in DOMAIN Setup : j < i /\ Setup[j] = "major"}
           n == Len(Setup)
<1>1. n \in Nat /\ DOMAIN Setup = 1 .. n
  BY RulesAssumption
<1>2. ASSUME NEW i \in 1 .. n + 1
      PROVE  IsFiniteSet(Maj(i)) /\ Cardinality(Maj(i)) \in Nat
  <2>1. IsFiniteSet(1 .. n)
    BY <1>1, FS_Interval
  <2>2. Maj(i) \in SUBSET (1 .. n)
    BY <1>1
  <2>. QED
    BY <2>1, <2>2, FS_Subset, FS_CardinalityType
<1>3. BreaksBefore("major", n + 1) = Cardinality(Maj(n + 1))
  BY DEF BreaksBefore
<1>4. Cardinality(Maj(n + 1)) \in Nat
  <2>1. n + 1 \in 1 .. n + 1
    BY <1>1
  <2>. HIDE DEF Maj
  <2>. QED
    BY <1>2, <2>1
<1>5. Classes = 1 .. (Cardinality(Maj(n + 1)) + 1)
  BY <1>3 DEF Classes
<1>6. LastClass = Cardinality(Maj(n + 1)) + 1
  BY <1>4, <1>5, FS_Interval DEF LastClass
<1>7. ASSUME NEW r \in Rule PROVE ClassOf(r) \in 1 .. LastClass
  <2>1. PlaceOf(r) \in 1 .. n
    BY <1>1, RulesAssumption DEF PlaceOf
  <2>2. Maj(PlaceOf(r)) \in SUBSET Maj(n + 1)
    BY <1>1, <2>1
  <2>3. Cardinality(Maj(PlaceOf(r))) \in Nat /\ Cardinality(Maj(PlaceOf(r))) <= Cardinality(Maj(n + 1))
    BY <1>1, <1>2, <2>1, <2>2, FS_Subset
  <2>4. ClassOf(r) = Cardinality(Maj(PlaceOf(r))) + 1
    BY DEF ClassOf, BreaksBefore
  <2>. QED
    BY <1>4, <1>6, <2>3, <2>4
<1>. QED
  BY <1>4, <1>5, <1>6, <1>7

\* A rule that has been reset has counted nothing.
LEMMA ResetFacts ==
  ASSUME NEW r \in Rule, NEW k
  PROVE  /\ RuleReset(r, k) \in RuleState(r)
         /\ RuleReset(r, k).match_len = 0 /\ RuleReset(r, k).feed_len = 0
<1>1. Shape[r].start \in Shape[r].states
  BY RulesAssumption DEF ShapeOK
<1>2. (k \notin Shape[r].after) \in BOOLEAN
  OBVIOUS
<1>. QED
  BY <1>1, <1>2 DEF RuleReset, RuleState

\* One more character moves the lengths of a rule by at most one, and the
\* length matched only when the rule was alive and matches now.
LEMMA FedFacts ==
  ASSUME NEW r \in Rule, NEW s \in RuleState(r), NEW c \in Char,
         s.match_len <= s.feed_len
  PROVE  LET f == Fed(r, s, c)
         IN  /\ f \in RuleState(r)
             /\ f.match_len <= f.feed_len
             /\ f.feed_len <= s.feed_len + 1
             /\ ~Dead(r, s) /\ Match(r, f) => f.match_len > 0
             /\ ~(~Dead(r, s) /\ Match(r, f)) => f.match_len = s.match_len
<1> DEFINE g == [s EXCEPT !.feed_len = @ + 1]
           f == Feed(r, g, c)
<1>1. g \in RuleState(r) /\ g.feed_len = s.feed_len + 1 /\ g.match_len = s.match_len
      /\ s.feed_len \in Nat /\ s.match_len \in Nat
  BY DEF RuleState
<1>2. Shape[r].next[g.q, c] \in Shape[r].states
  <2>1. Shape[r].next \in [Shape[r].states \X Char -> Shape[r].states]
    BY RulesAssumption DEF ShapeOK
  <2>2. g.q \in Shape[r].states
    BY <1>1 DEF RuleState
  <2>. HIDE DEF g
  <2>. QED
    BY <2>1, <2>2
<1>3. f \in RuleState(r) /\ f.feed_len = g.feed_len /\ f.match_len = g.match_len
  <2> DEFINE q == Shape[r].next[g.q, c]
             n == IF q \notin Shape[r].dead /\ g.q \notin Shape[r].spare
                  THEN g.stored + 1 ELSE g.stored
  <2>1. f = [g EXCEPT !.off = TRUE] \/ f = [g EXCEPT !.q = q, !.stored = n]
    BY DEF Feed
  <2>2. q \in Shape[r].states
    BY <1>2
  <2>3. g.stored \in Nat
    BY <1>1 DEF RuleState
  <2>4. n \in Nat
    <3>. HIDE DEF g, f, q
    <3>. QED
      BY <2>3
  <2>. HIDE DEF q, n, g, f
  <2>. QED
    BY <2>1, <2>2, <2>4, <1>1 DEF RuleState
<1>4. CASE Dead(r, s)
  BY <1>4, <1>1 DEF Fed
<1>5. CASE ~Dead(r, s) /\ ~Match(r, f)
  <2>1. Fed(r, s, c) = f
    BY <1>5 DEF Fed
  <2>. QED
    BY <2>1, <1>1, <1>3, <1>5
<1>6. CASE ~Dead(r, s) /\ Match(r, f)
  <2> DEFINE h == [f EXCEPT !.match_len = f.feed_len]
  <2>1. Fed(r, s, c) = h
    BY <1>6 DEF Fed
  <2>2. h \in RuleState(r) /\ h.match_len = f.feed_len /\ h.feed_len = f.feed_len
        /\ h.q = f.q /\ h.off = f.off
    BY <1>3 DEF RuleState
  <2>3. Match(r, h)
    BY <2>2, <1>6 DEF Match
  <2>. HIDE DEF f, g, h
  <2>. QED
    BY <2>1, <2>2, <2>3, <1>1, <1>3, <1>6
<1>. QED
  BY <1>4, <1>5, <1>6

------------------------------------------------------------------------------
(* Cutting the text *)

\* Characters taken so far.
Done(ts) == IF ts = << >> THEN 0 ELSE ts[Len(ts)].start + ts[Len(ts)].tok.len

\* What the tokens ts and the cache ca must be to tile the text tx.
Tiles(tx, ca, ts) ==
  /\ \A i \in DOMAIN ts :
        ts[i].start = IF i = 1 THEN 0 ELSE ts[i - 1].start + ts[i - 1].tok.len
  /\ Len(tx) = Len(ca) + Done(ts)
  /\ \A i \in DOMAIN ca : ca[i].char = tx[Done(ts) + i]

Entry == [char : Char, pos : Nat]
Cut   == [tok : Token, start : Nat]

\* What is left of a sequence behind its first n members.
LEMMA Suffix ==
  ASSUME NEW S, NEW t \in Seq(S), NEW n \in Nat, n <= Len(t)
  PROVE  /\ SubSeq(t, n + 1, Len(t)) \in Seq(S)
         /\ Len(SubSeq(t, n + 1, Len(t))) = Len(t) - n
         /\ \A i \in 1 .. Len(t) - n : SubSeq(t, n + 1, Len(t))[i] = t[n + i]
<1> DEFINE m == Len(t)
           u == SubSeq(t, n + 1, m)
<1>1. m \in Nat /\ n + 1 \in Int
  OBVIOUS
<1>2. \A i \in n + 1 .. m : t[i] \in S
  BY <1>1
<1>. HIDE DEF m
<1>3. /\ u \in Seq(S)
      /\ Len(u) = IF n + 1 <= m THEN m - (n + 1) + 1 ELSE 0
      /\ \A i \in 1 .. m - (n + 1) + 1 : u[i] = t[n + 1 + i - 1]
  BY <1>1, <1>2, SubSeqProperties
<1>. HIDE DEF u
<1>4. n <= m /\ m - (n + 1) + 1 = m - n
  BY <1>1 DEF m
<1>5. \A i \in 1 .. m - n : n + 1 + i - 1 = n + i
  BY <1>1
<1>6. u \in Seq(S) /\ Len(u) = m - n /\ \A i \in 1 .. m - n : u[i] = t[n + i]
  BY <1>1, <1>3, <1>4, <1>5
<1>. QED
  BY <1>6 DEF u, m

\* Done is a number.
LEMMA DoneNat == ASSUME NEW ts \in Seq(Cut) PROVE Done(ts) \in Nat
<1>1. CASE ts = << >>
  BY <1>1 DEF Done
<1>2. CASE ts # << >>
  <2>1. ts[Len(ts)] \in Cut
    BY <1>2
  <2>. QED
    BY <1>2, <2>1 DEF Done, Cut, Token
<1>. QED
  BY <1>1, <1>2

\* CutsTile says that the tokens and the cache tile the text.
LEMMA CutsTileIsTiles ==
  ASSUME text \in Seq(Char), cache \in Seq(Entry), taken \in Seq(Cut)
  PROVE  CutsTile <=> Tiles(text, cache, taken)
<1>1. Done(taken) \in Nat
  BY DoneNat
<1>2. ASSUME Len(text) = Len(cache) + Done(taken), NEW i \in DOMAIN cache
      PROVE  Rest(Len(text) - Len(cache))[i] = text[Done(taken) + i]
  <2>1. Len(text) - Len(cache) = Done(taken) /\ i \in 1 .. Len(text) - Done(taken)
        /\ Done(taken) <= Len(text)
    BY <1>1, <1>2
  <2>. QED
    BY <1>1, <2>1, Suffix DEF Rest
<1>3. Len(text) = Len(cache) + (IF taken = << >> THEN 0
                 ELSE taken[Len(taken)].start + taken[Len(taken)].tok.len)
      <=> Len(text) = Len(cache) + Done(taken)
  BY DEF Done
<1>. QED
  BY <1>2, <1>3 DEF CutsTile, Tiles

\* One more character at the end of the text and of the cache.
LEMMA TilesFeed ==
  ASSUME NEW tx \in Seq(Char), NEW ca \in Seq(Entry), NEW ts \in Seq(Cut),
         Tiles(tx, ca, ts), NEW e \in Entry
  PROVE  Tiles(Append(tx, e.char), Append(ca, e), ts)
<1>1. Done(ts) \in Nat
  BY DoneNat
<1>2. Len(tx) = Len(ca) + Done(ts) /\ Len(tx) \in Nat /\ Len(ca) \in Nat
  BY DEF Tiles
<1>3. ASSUME NEW i \in 1 .. Len(ca) + 1
      PROVE  Append(ca, e)[i].char = Append(tx, e.char)[Done(ts) + i]
  <2>1. CASE i = Len(ca) + 1
    BY <2>1, <1>1, <1>2 DEF Entry
  <2>2. CASE i \in 1 .. Len(ca)
    <3>1. Append(ca, e)[i] = ca[i] /\ Done(ts) + i \in 1 .. Len(tx)
      BY <2>2, <1>1, <1>2
    <3>2. ca[i].char = tx[Done(ts) + i]
      BY <2>2 DEF Tiles
    <3>. QED
      BY <3>1, <3>2
  <2>3. i = Len(ca) + 1 \/ i \in 1 .. Len(ca)
    BY <1>2
  <2>. QED
    BY <2>1, <2>2, <2>3
<1>. QED
  BY <1>1, <1>2, <1>3 DEF Tiles

\* A token cut off the front of the cache.
LEMMA TilesTake ==
  ASSUME NEW tx \in Seq(Char), NEW ca \in Seq(Entry), NEW ts \in Seq(Cut),
         Tiles(tx, ca, ts), NEW cut \in Cut,
         cut.start = Len(tx) - Len(ca), cut.tok.len <= Len(ca)
  PROVE  /\ SubSeq(ca, cut.tok.len + 1, Len(ca)) \in Seq(Entry)
         /\ Tiles(tx, SubSeq(ca, cut.tok.len + 1, Len(ca)), Append(ts, cut))
<1> DEFINE n == cut.tok.len
           rest == SubSeq(ca, n + 1, Len(ca))
           all == Append(ts, cut)
<1>1. n \in Nat
  BY DEF Cut, Token
<1>2. Done(ts) \in Nat /\ Len(ca) \in Nat /\ Len(tx) \in Nat /\ Len(ts) \in Nat
  BY DoneNat
<1>3. Len(tx) = Len(ca) + Done(ts) /\ cut.start = Done(ts)
  BY <1>2 DEF Tiles
<1>4. /\ rest \in Seq(Entry) /\ Len(rest) = Len(ca) - n
      /\ \A i \in 1 .. Len(ca) - n : rest[i] = ca[n + i]
  BY <1>1, <1>2, Suffix
<1>5. Len(all) = Len(ts) + 1 /\ all[Len(ts) + 1] = cut
      /\ \A i \in 1 .. Len(ts) : all[i] = ts[i]
  BY <1>2
<1>6. Done(all) = Done(ts) + n
  <2>1. Done(all) = all[Len(all)].start + all[Len(all)].tok.len
    BY <1>2, <1>5 DEF Done
  <2>. HIDE DEF all
  <2>. QED
    BY <2>1, <1>3, <1>5
<1>7. ASSUME NEW i \in 1 .. Len(ts) + 1
      PROVE  all[i].start = IF i = 1 THEN 0 ELSE all[i - 1].start + all[i - 1].tok.len
  <2>1. CASE i \in 1 .. Len(ts)
    <3>1. i \in DOMAIN ts
      BY <2>1
    <3>2. ts[i].start = IF i = 1 THEN 0 ELSE ts[i - 1].start + ts[i - 1].tok.len
      BY <3>1 DEF Tiles
    <3>. HIDE DEF all
    <3>3. all[i] = ts[i]
      BY <2>1, <1>5, Zenon
    <3>4. i # 1 => i - 1 \in 1 .. Len(ts)
      BY <2>1, <1>2
    <3>5. i # 1 => all[i - 1] = ts[i - 1]
      BY <1>5, <3>4, Zenon
    <3>. QED
      BY <3>2, <3>3, <3>5, Zenon
  <2>2. CASE i = Len(ts) + 1 /\ i = 1
    <3>1. ts = << >>
      BY <2>2, <1>2
    <3>. QED
      BY <2>2, <3>1, <1>3, <1>5 DEF Done
  <2>3. CASE i = Len(ts) + 1 /\ i # 1
    <3>1. ts # << >> /\ i - 1 = Len(ts) /\ all[i - 1] = ts[Len(ts)]
      BY <2>3, <1>2, <1>5
    <3>. QED
      BY <2>3, <3>1, <1>3, <1>5 DEF Done
  <2>. QED
    BY <1>2, <2>1, <2>2, <2>3
<1>8. ASSUME NEW i \in 1 .. Len(rest)
      PROVE  rest[i].char = tx[Done(all) + i]
  <2>1. n + i \in 1 .. Len(ca) /\ rest[i] = ca[n + i]
    <3>. HIDE DEF rest, n
    <3>. QED
      BY <1>1, <1>2, <1>4
  <2>2. ca[n + i].char = tx[Done(ts) + (n + i)]
    BY <2>1 DEF Tiles
  <2>3. Done(ts) + (n + i) = Done(all) + i
    <3>. HIDE DEF all, n, rest
    <3>. QED
      BY <1>1, <1>2, <1>4, <1>6
  <2>. QED
    BY <2>1, <2>2, <2>3
<1>9. Len(tx) = Len(rest) + Done(all)
  BY <1>1, <1>2, <1>3, <1>4, <1>6
<1>10. DOMAIN all = 1 .. Len(ts) + 1 /\ DOMAIN rest = 1 .. Len(rest)
  BY <1>2, <1>4, <1>5
<1>. HIDE DEF all, rest
<1>11. Tiles(tx, rest, all)
  BY <1>7, <1>8, <1>9, <1>10 DEF Tiles
<1>. QED
  BY <1>4, <1>11 DEF all, rest

------------------------------------------------------------------------------
(* Taking a token *)

\* The token the rule of a match makes.
LEMMA TokenFacts ==
  ASSUME TypeOK, NEW r \in Rule, cache # << >>
  PROVE  TokenOf(r) \in Token
<1>1. Shape[r].kind \in Kind \cup {Skip}
  BY RulesAssumption DEF ShapeOK
<1>2. rule[r].match_len \in Nat /\ rule[r].stored \in Nat
  BY DEF TypeOK, RuleState
<1>3. cache \in Seq(Entry) /\ m_pos \in Nat /\ Len(cache) \in Nat
  BY DEF TypeOK, Entry
<1>4. ASSUME NEW i \in 1 .. Len(cache) PROVE cache[i].pos \in Nat
  <2>1. cache[i] \in Entry
    BY <1>3
  <2>. QED
    BY <2>1 DEF Entry
<1>5. cache[1].pos \in Nat
  <2>1. 1 \in 1 .. Len(cache)
    BY <1>3
  <2>. QED
    BY <1>4, <2>1
<1>6. CachePos(rule[r].stored) \in Nat
  <2>1. CASE rule[r].stored < Len(cache)
    <3>1. rule[r].stored + 1 \in 1 .. Len(cache)
      BY <2>1, <1>2, <1>3
    <3>2. cache[rule[r].stored + 1].pos \in Nat
      BY <1>4, <3>1
    <3>. QED
      BY <2>1, <3>2 DEF CachePos
  <2>2. CASE ~(rule[r].stored < Len(cache))
    BY <2>2, <1>3 DEF CachePos
  <2>. QED
    BY <2>1, <2>2
<1>. QED
  BY <1>1, <1>2, <1>5, <1>6 DEF TokenOf, Token

\* A token no longer than the cache: what is left is again cut into tokens and
\* cache, and every rule begins anew.
LEMMA TakeFacts ==
  ASSUME TypeOK, CutsTile, NEW r \in Rule,
         rule[r].match_len > 0, rule[r].match_len <= Len(cache),
         Take(r), UNCHANGED text
  PROVE  /\ rule' = [s \in Rule |-> rule'[s]]
         /\ \A s \in Rule : /\ rule'[s] \in RuleState(s)
                            /\ rule'[s].match_len = 0 /\ rule'[s].feed_len = 0
         /\ major' = 0 /\ last' \in Kind \cup {NoToken}
         /\ cache' \in Seq(Entry) /\ batch' \in Seq(Token) /\ taken' \in Seq(Cut)
         /\ CutsTile'
<1> DEFINE tok == TokenOf(r)
           cut == [tok |-> tok, start |-> Len(text) - Len(cache)]
<1>1. text \in Seq(Char) /\ cache \in Seq(Entry) /\ taken \in Seq(Cut)
      /\ batch \in Seq(Token) /\ Len(cache) \in Nat /\ Len(text) \in Nat
  BY DEF TypeOK, Entry, Cut
<1>2. tok \in Token /\ tok.len = rule[r].match_len /\ tok.len \in Nat
      /\ tok.kind \in Kind \cup {Skip}
  <2>1. rule[r].match_len \in Nat
    BY DEF TypeOK, RuleState
  <2>2. cache # << >>
    BY <1>1, <2>1
  <2>. QED
    BY <2>1, <2>2, TokenFacts DEF TokenOf, Token
<1>3. Tiles(text, cache, taken)
  BY <1>1, CutsTileIsTiles
<1>4. Len(text) - Len(cache) \in Nat
  <2>1. Done(taken) \in Nat
    BY <1>1, DoneNat
  <2>2. Len(text) = Len(cache) + Done(taken)
    BY <1>3 DEF Tiles
  <2>. QED
    BY <1>1, <2>1, <2>2
<1>5. cut \in Cut /\ cut.tok.len = rule[r].match_len
      /\ cut.start = Len(text) - Len(cache)
  BY <1>2, <1>4 DEF Cut
<1>6. /\ ResetRules(IF tok.kind # Skip THEN tok.kind ELSE last)
      /\ cache' = SubSeq(cache, tok.len + 1, Len(cache))
      /\ batch' = IF tok.kind # Skip THEN Append(batch, tok) ELSE batch
      /\ taken' = Append(taken, cut)
  BY DEF Take
<1>7. cut.tok.len <= Len(cache) /\ cut.tok.len = tok.len
  BY <1>2, <1>5
<1>. HIDE DEF cut, tok
<1>8. cache' \in Seq(Entry) /\ Tiles(text, cache', taken')
  BY <1>1, <1>3, <1>5, <1>6, <1>7, TilesTake
<1>9. taken' \in Seq(Cut) /\ batch' \in Seq(Token)
  BY <1>1, <1>2, <1>5, <1>6
<1>10. CutsTile'
  <2>1. text' \in Seq(Char) /\ Tiles(text', cache', taken')
    BY <1>1, <1>8
  <2>2. (text \in Seq(Char) /\ cache \in Seq(Entry) /\ taken \in Seq(Cut)
           => (CutsTile <=> Tiles(text, cache, taken)))'
    BY CutsTileIsTiles, PTL
  <2>. QED
    BY <2>1, <2>2, <1>8, <1>9
<1>11. /\ rule' = [s \in Rule |-> rule'[s]]
       /\ \A s \in Rule : /\ rule'[s] \in RuleState(s)
                          /\ rule'[s].match_len = 0 /\ rule'[s].feed_len = 0
  BY <1>6, ResetFacts DEF ResetRules
<1>12. major' = 0 /\ last' \in Kind \cup {NoToken}
  BY <1>2, <1>6 DEF ResetRules, TypeOK
<1>. QED
  BY <1>8, <1>9, <1>10, <1>11, <1>12

------------------------------------------------------------------------------
(* Choosing the winner *)

\* Every set of numbers has a least one.
LEMMA LeastNat ==
  ASSUME NEW S \in SUBSET Nat, S # {}
  PROVE  \E n \in S : \A m \in S : n <= m
<1> DEFINE R == OpToRel(<, Nat)
<1>1. IsWellFoundedOn(R, Nat)
  BY NatLessThanWellFounded
<1>2. \A x, y \in Nat : x < y => <<x, y>> \in R
  BY DEF OpToRel
<1>. HIDE DEF R
<1>3. PICK n \in S : \A m \in S : <<m, n>> \notin R
  BY <1>1, WFMin
<1>4. ASSUME NEW m \in S PROVE n <= m
  <2>1. m \in Nat /\ n \in Nat /\ ~(m < n)
    BY <1>2, <1>3
  <2>. QED
    BY <2>1
<1>. QED
  BY <1>4

\* And every nonempty set has a member of least weight, in numbers.
LEMMA LeastWeight ==
  ASSUME NEW S, S # {}, NEW w, \A x \in S : w[x] \in Nat
  PROVE  \E x \in S : \A y \in S : w[x] <= w[y]
<1> DEFINE W == {w[x] : x \in S}
<1>1. W \in SUBSET Nat /\ W # {}
  OBVIOUS
<1>2. PICK n \in W : \A m \in W : n <= m
  <2>. HIDE DEF W
  <2>. QED
    BY <1>1, LeastNat
<1>3. PICK x \in S : n = w[x]
  BY <1>2
<1>. QED
  BY <1>2, <1>3

\* get_token_by_candidates() finds a winner whenever there is a candidate.
LEMMA WinnerExists ==
  ASSUME TypeOK, NEW i, Candidates(i) # {},
         NEW bound \in Nat, \A r \in Candidates(i) : rule[r].match_len <= bound
  PROVE  Winner(i) \in Candidates(i) /\ \A s \in Candidates(i) : Beats(Winner(i), s)
<1> DEFINE C  == Candidates(i)
           l  == [r \in C |-> bound - rule[r].match_len]
           m  == [r \in C |-> MinorOf(r)]
           p  == [r \in C |-> Len(Setup) - PlaceOf(r)]
<1>1. C \subseteq Rule
  BY DEF Candidates, InClass
<1>2. ASSUME NEW r \in C
      PROVE  /\ rule[r].match_len \in Nat /\ rule[r].match_len <= bound
             /\ MinorOf(r) \in Nat
             /\ PlaceOf(r) \in Nat /\ PlaceOf(r) <= Len(Setup)
  <2>1. Len(Setup) \in Nat /\ DOMAIN Setup = 1 .. Len(Setup)
    BY RulesAssumption
  <2>2. PlaceOf(r) \in DOMAIN Setup
    BY <1>1, RulesAssumption DEF PlaceOf
  <2> DEFINE before == {j \in DOMAIN Setup : j < PlaceOf(r) /\ Setup[j] = "minor"}
  <2>3. Cardinality(before) \in Nat
    <3>1. IsFiniteSet(1 .. Len(Setup)) /\ before \in SUBSET (1 .. Len(Setup))
      BY <2>1, FS_Interval
    <3>. QED
      BY <3>1, FS_Subset, FS_CardinalityType
  <2>4. MinorOf(r) = Cardinality(before)
    BY DEF MinorOf, BreaksBefore
  <2>5. r \in Rule /\ rule[r].match_len <= bound
    BY <1>1
  <2>6. rule[r].match_len \in Nat
    BY <2>5 DEF TypeOK, RuleState
  <2>. HIDE DEF C, before
  <2>. QED
    BY <2>1, <2>2, <2>3, <2>4, <2>5, <2>6
<1>3. Len(Setup) \in Nat
  BY RulesAssumption
<1>4. /\ \A r \in C : l[r] \in Nat /\ l[r] = bound - rule[r].match_len
      /\ \A r \in C : m[r] \in Nat /\ m[r] = MinorOf(r)
      /\ \A r \in C : p[r] \in Nat /\ p[r] = Len(Setup) - PlaceOf(r)
  <2>. HIDE DEF C
  <2>. QED
    BY <1>2, <1>3
<1> DEFINE Longest == {r \in C : \A s \in C : l[r] <= l[s]}
           Least   == {r \in Longest : \A s \in Longest : m[r] <= m[s]}
<1>. HIDE DEF C, l, m, p
<1>5. Longest # {}
  <2>1. C # {}
    BY DEF C
  <2>. QED
    BY <1>4, <2>1, LeastWeight
<1>. HIDE DEF Longest
<1>6. Longest \subseteq C
  BY DEF Longest
<1>7. Least # {} /\ Least \subseteq Longest
  <2>1. \A r \in Longest : m[r] \in Nat
    BY <1>4, <1>6
  <2>2. \E r \in Longest : \A s \in Longest : m[r] <= m[s]
    BY <1>5, <2>1, LeastWeight
  <2>. QED
    BY <2>2
<1>. HIDE DEF Least
<1>8. PICK w \in Least : \A s \in Least : p[w] <= p[s]
  <2>1. \A r \in Least : p[r] \in Nat
    BY <1>4, <1>6, <1>7
  <2>. QED
    BY <1>7, <2>1, LeastWeight
<1>9. w \in C /\ w \in Longest
  BY <1>6, <1>7, <1>8
<1>10. ASSUME NEW s \in C PROVE Beats(w, s)
  <2>1. rule[w].match_len >= rule[s].match_len
    <3>1. l[w] <= l[s]
      BY <1>9 DEF Longest
    <3>2. bound - rule[w].match_len <= bound - rule[s].match_len
      BY <3>1, <1>4, <1>9
    <3>3. rule[w].match_len \in Nat /\ rule[s].match_len \in Nat
      BY <1>2, <1>9
    <3>. QED
      BY <3>2, <3>3
  <2>2. CASE rule[w].match_len > rule[s].match_len
    BY <2>2 DEF Beats
  <2>3. CASE rule[w].match_len = rule[s].match_len
    <3>1. s \in Longest
      <4>1. l[s] = l[w]
        BY <2>3, <1>4, <1>9
      <4>. QED
        BY <4>1, <1>9 DEF Longest
    <3>2. MinorOf(w) <= MinorOf(s)
      BY <3>1, <1>4, <1>8, <1>9 DEF Least
    <3>3. CASE MinorOf(w) < MinorOf(s)
      BY <2>3, <3>3 DEF Beats
    <3>4. CASE MinorOf(w) = MinorOf(s)
      <4>1. s \in Least
        <5>1. m[s] = m[w]
          BY <3>4, <1>4, <1>9
        <5>. QED
          BY <3>1, <5>1, <1>8 DEF Least
      <4>2. p[w] <= p[s]
        BY <4>1, <1>8
      <4>3. PlaceOf(w) >= PlaceOf(s)
        BY <4>2, <1>2, <1>3, <1>4, <1>9
      <4>. QED
        BY <2>3, <3>4, <4>3 DEF Beats
    <3>. QED
      BY <3>2, <3>3, <3>4, <1>2, <1>9
  <2>. QED
    BY <2>1, <2>2, <2>3, <1>2, <1>9
<1>. QED
  BY <1>9, <1>10 DEF Winner, C

\* feed_end_internal() finds the first of the classes it may use.
LEMMA SmallestIn ==
  ASSUME NEW S \in SUBSET Nat, S # {}
  PROVE  Smallest(S) \in S
BY LeastNat DEF Smallest

------------------------------------------------------------------------------
(* The inductive invariant *)

\* What Measured says of one rule, whatever the state counts for it.
Counts(s, n) == s.match_len <= s.feed_len /\ s.feed_len <= n

\* The invariant, its parts as the proofs use them.
LEMMA Parts ==
  ASSUME IInv
  PROVE  /\ \A r \in Rule : /\ rule[r] \in RuleState(r)
                            /\ rule[r].match_len \in Nat /\ rule[r].feed_len \in Nat
                            /\ rule[r].match_len <= rule[r].feed_len
                            /\ ClassOf(r) \in 1 .. LastClass
         /\ Len(cache) \in Nat /\ cache_pos \in Nat \ {0}
         /\ cls \in 1 .. LastClass + 1 /\ LastClass \in Nat \ {0}
         /\ major \in 0 .. LastClass
         /\ pc \in {"idle", "end"} =>
              \A r \in Rule : rule[r].feed_len <= Len(cache)
         /\ pc = "scan" => /\ cache_pos <= Len(cache) + 1
                           /\ \A r \in Rule : rule[r].feed_len <= cache_pos - 1
         /\ pc = "class" =>
              /\ cache_pos <= Len(cache)
              /\ \A r \in Rule :
                   rule[r].feed_len <= IF ClassOf(r) < cls THEN cache_pos ELSE cache_pos - 1
         /\ pc = "judge" =>
              /\ cache_pos <= Len(cache) /\ cls \in 1 .. LastClass
              /\ \A r \in Rule :
                   rule[r].feed_len <= IF ClassOf(r) <= cls THEN cache_pos ELSE cache_pos - 1
<1>1. TypeOK /\ Measured
  BY DEF IInv
<1>2. \A r \in Rule : rule[r] \in RuleState(r) /\ rule[r].match_len \in Nat
                      /\ rule[r].feed_len \in Nat
  BY <1>1 DEF TypeOK, RuleState
<1>3. /\ Len(cache) \in Nat /\ cache_pos \in Nat \ {0} /\ cls \in 1 .. LastClass + 1
      /\ major \in Classes \cup {0}
  BY <1>1 DEF TypeOK
<1>4. major \in 0 .. LastClass
  BY <1>3, ClassFacts
<1>. QED
  BY <1>1, <1>2, <1>3, <1>4, ClassFacts DEF Measured, FedSoFar

\* The initial state.
LEMMA InitIInv == Init => IInv
<1>. SUFFICES ASSUME Init PROVE IInv
  OBVIOUS
<1>1. \A r \in Rule : rule[r] \in RuleState(r) /\ rule[r].match_len = 0
                      /\ rule[r].feed_len = 0
  BY ResetFacts DEF Init
<1>2. TypeOK
  <2>1. rule = [r \in Rule |-> rule[r]]
    BY DEF Init
  <2>2. cls \in 1 .. LastClass + 1
    BY ClassFacts DEF Init
  <2>3. /\ cache \in Seq([char : Char, pos : Nat]) /\ linfo \in Seq(Nat)
        /\ batch \in Seq(Token) /\ out \in Seq(Token) /\ text \in Seq(Char)
        /\ taken \in Seq([tok : Token, start : Nat])
    BY DEF Init
  <2>4. /\ major \in Classes \cup {0}
        /\ last \in Kind \cup {NoToken} /\ first \in Kind \cup {NoToken}
    BY DEF Init
  <2>5. m_pos \in Nat /\ cache_pos \in Nat \ {0} /\ resets \in Nat
    BY DEF Init
  <2>6. /\ prevs_is_dead \in BOOLEAN /\ ending \in BOOLEAN
        /\ pc \in {"idle", "scan", "class", "judge", "end"}
        /\ outcome \in {"reset", "running", "fed", "ended"} \cup Errors
    BY DEF Init
  <2>. QED
    BY <1>1, <2>1, <2>2, <2>3, <2>4, <2>5, <2>6 DEF TypeOK
<1>3. CutsTile
  BY DEF Init, CutsTile
<1>4. Measured
  BY <1>1 DEF Init, Measured, FedSoFar
<1>5. LimitKnown /\ PrevsKnown
  BY <1>1 DEF Init, LimitKnown, PrevsKnown
<1>. QED
  BY <1>2, <1>3, <1>4, <1>5 DEF IInv

\* A step that moves neither rules nor cache nor tokens leaves the text tiled
\* and the limit known.
LEMMA Quiet ==
  ASSUME IInv, UNCHANGED <<rule, major, cache, text, taken>>
  PROVE  CutsTile' /\ LimitKnown'
<1>1. CutsTile'
  BY DEF IInv, CutsTile, Rest
<1>2. LimitKnown'
  BY DEF IInv, LimitKnown
<1>. QED
  BY <1>1, <1>2

\* A call of feed_char().
LEMMA FeedCharStep ==
  ASSUME IInv, NEW c \in Char, FeedChar(c)
  PROVE  IInv'
<1> DEFINE e == [char |-> c, pos |-> m_pos]
<1>1. TypeOK /\ CutsTile /\ LimitKnown
  BY DEF IInv
<1>2. pc = "idle" /\ m_pos \in Nat /\ e \in Entry /\ Width[c] \in Nat
  BY <1>1, LexerAssumption DEF TypeOK, FeedChar, CallAllowed, Entry
<1>3. /\ cache' = Append(cache, e) /\ text' = Append(text, c) /\ taken' = taken
      /\ cache' \in Seq(Entry) /\ Len(cache') = Len(cache) + 1
      /\ cache_pos' = Len(cache) + 1 /\ cache_pos' \in Nat \ {0}
  <2>1. cache \in Seq(Entry) /\ Len(cache) \in Nat
    BY <1>1 DEF TypeOK, Entry
  <2>2. cache' = Append(cache, e) /\ text' = Append(text, c) /\ taken' = taken
        /\ cache_pos' = Len(cache')
    BY DEF FeedChar
  <2>. HIDE DEF e
  <2>. QED
    BY <1>2, <2>1, <2>2
<1>4. \A r \in Rule :
         /\ rule'[r] \in RuleState(r)
         /\ rule'[r].match_len <= rule'[r].feed_len
         /\ rule'[r].feed_len <= Len(cache)
         /\ rule'[r].match_len > 0 => rule'[r] = rule[r] /\ major' = major
  <2>1. CASE m_pos = 0
    <3>1. rule' = [r \in Rule |-> RuleReset(r, last)]
      BY <2>1 DEF FeedChar, ResetRules
    <3>2. Len(cache) \in Nat
      BY Parts
    <3>3. ASSUME NEW r \in Rule
          PROVE  rule'[r] \in RuleState(r) /\ rule'[r].match_len = 0 /\ rule'[r].feed_len = 0
      BY <3>1, ResetFacts
    <3>. QED
      BY <3>2, <3>3
  <2>2. CASE m_pos # 0
    BY <1>2, <2>2, Parts DEF FeedChar
  <2>. QED
    BY <2>1, <2>2
<1>5. /\ rule' = [r \in Rule |-> rule'[r]]
      /\ major' \in Classes \cup {0} /\ last' \in Kind \cup {NoToken}
      /\ major' = major \/ (major' = 0 /\ \A r \in Rule : rule'[r].match_len = 0)
      /\ major' = major => (rule' = rule \/ major' = 0)
  <2>1. CASE m_pos = 0
    <3>1. rule' = [r \in Rule |-> RuleReset(r, last)] /\ major' = 0 /\ last' = last
      BY <2>1 DEF FeedChar, ResetRules
    <3>. QED
      BY <1>1, <3>1, ResetFacts DEF TypeOK
  <2>2. CASE m_pos # 0
    <3>1. rule' = rule /\ major' = major /\ last' = last
      BY <2>2 DEF FeedChar
    <3>. QED
      BY <1>1, <3>1 DEF TypeOK
  <2>. QED
    BY <2>1, <2>2
<1>6. TypeOK'
  <2>1. /\ m_pos' \in Nat /\ linfo' \in Seq(Nat) /\ text' \in Seq(Char)
        /\ batch' \in Seq(Token)
    <3>1. m_pos' \in Nat
      BY <1>2 DEF FeedChar
    <3>. QED
      BY <1>1, <1>3, <3>1 DEF FeedChar, TypeOK
  <2>2. /\ pc' = "scan" /\ ending' = FALSE /\ outcome' = "running"
        /\ UNCHANGED <<cls, prevs_is_dead, taken, out, first, resets>>
    BY DEF FeedChar
  <2>3. cache' \in Seq([char : Char, pos : Nat])
    BY <1>3 DEF Entry
  <2>. QED
    BY <1>1, <1>3, <1>4, <1>5, <2>1, <2>2, <2>3 DEF TypeOK
<1>7. CutsTile'
  <2>1. text \in Seq(Char) /\ cache \in Seq(Entry) /\ taken \in Seq(Cut)
    BY <1>1 DEF TypeOK, Entry, Cut
  <2>2. Tiles(text, cache, taken)
    BY <1>1, <2>1, CutsTileIsTiles
  <2>3. Tiles(text', cache', taken')
    BY <1>2, <1>3, <2>1, <2>2, TilesFeed
  <2>4. text' \in Seq(Char) /\ cache' \in Seq(Entry) /\ taken' \in Seq(Cut)
    BY <1>3, <2>1
  <2>5. (text \in Seq(Char) /\ cache \in Seq(Entry) /\ taken \in Seq(Cut)
           => (CutsTile <=> Tiles(text, cache, taken)))'
    BY CutsTileIsTiles, PTL
  <2>. QED
    BY <2>3, <2>4, <2>5
<1>8. Measured'
  <2>1. pc' = "scan" /\ Len(cache) \in Nat
    BY Parts DEF FeedChar
  <2>2. cache_pos' - 1 = Len(cache) /\ cache_pos' <= Len(cache') + 1
    BY <1>3, <2>1
  <2>. QED
    BY <1>4, <2>1, <2>2 DEF Measured, FedSoFar
<1>9. LimitKnown'
  BY <1>1, <1>4, <1>5 DEF LimitKnown
<1>10. PrevsKnown'
  BY DEF FeedChar, PrevsKnown
<1>. QED
  BY <1>6, <1>7, <1>8, <1>9, <1>10 DEF IInv

\* Moving on in the cache.
LEMMA ScanStep ==
  ASSUME IInv, ScanNext \/ ScanDone
  PROVE  IInv'
<1>1. TypeOK /\ pc = "scan" /\ UNCHANGED <<rule, major, cache, text, taken>>
  BY DEF IInv, ScanNext, ScanDone, Return, Fixed
<1>2. CutsTile' /\ LimitKnown'
  BY <1>1, Quiet
<1>3. CASE ScanNext
  <2>1. TypeOK'
    <3>1. 1 \in 1 .. LastClass + 1
      BY ClassFacts
    <3>. QED
      BY <1>1, <1>3, <3>1 DEF TypeOK, ScanNext, Fixed
  <2>2. Measured'
    BY <1>1, <1>3, Parts DEF ScanNext, Measured, FedSoFar
  <2>3. PrevsKnown'
    BY <1>1, <1>3, Parts DEF ScanNext, PrevsKnown
  <2>. QED
    BY <1>2, <2>1, <2>2, <2>3 DEF IInv
<1>4. CASE ScanDone
  <2>1. TypeOK'
    <3>1. pc' \in {"idle", "end"} /\ outcome' \in {outcome, "fed"}
          /\ (out' = out \/ out' = out \o batch)
          /\ UNCHANGED <<rule, major, last, cache, m_pos, linfo, cache_pos, cls,
                         prevs_is_dead, batch, ending, text, taken, first, resets>>
      BY <1>4 DEF ScanDone, Return, Fixed
    <3>2. out' \in Seq(Token)
      <4>1. out \in Seq(Token) /\ batch \in Seq(Token)
        BY <1>1 DEF TypeOK
      <4>2. out \o batch \in Seq(Token)
        BY <4>1, ConcatProperties
      <4>. QED
        BY <3>1, <4>1, <4>2
    <3>. QED
      BY <1>1, <3>1, <3>2 DEF TypeOK
  <2>2. Measured'
    <3>1. pc' \in {"idle", "end"} /\ cache_pos > Len(cache)
      BY <1>4 DEF ScanDone, Return
    <3>. QED
      BY <1>1, <3>1, Parts DEF Measured, FedSoFar
  <2>3. PrevsKnown'
    BY <1>4 DEF ScanDone, Return, PrevsKnown
  <2>. QED
    BY <1>2, <2>1, <2>2, <2>3 DEF IInv
<1>. QED
  BY <1>3, <1>4

\* A class the limit excludes.
LEMMA SkipClassStep ==
  ASSUME IInv, SkipClass
  PROVE  IInv'
<1>1. TypeOK /\ PrevsKnown
      /\ pc = "class" /\ pc' = "class" /\ cls <= LastClass /\ cls' = cls + 1
      /\ major # 0 /\ major < cls
      /\ UNCHANGED <<rule, major, last, cache, m_pos, linfo, cache_pos, batch,
                     prevs_is_dead, ending, outcome, taken, out, text, first, resets>>
  BY DEF IInv, SkipClass, Fixed
<1>2. CutsTile' /\ LimitKnown'
  BY <1>1, Quiet
<1>3. TypeOK'
  <2>1. cls' \in 1 .. LastClass + 1
    BY <1>1, Parts
  <2>. QED
    BY <1>1, <2>1 DEF TypeOK
<1>4. Measured'
  BY <1>1, Parts DEF Measured, FedSoFar
<1>5. PrevsKnown'
  BY <1>1, Parts DEF PrevsKnown
<1>. QED
  BY <1>2, <1>3, <1>4, <1>5 DEF IInv

\* A class is fed.
LEMMA FeedClassStep ==
  ASSUME IInv, FeedClass
  PROVE  IInv'
<1> DEFINE matched == \E r \in InClass(cls) : ~Dead(r, rule[r]) /\ Match(r, rule'[r])
<1>1. /\ TypeOK /\ LimitKnown /\ PrevsKnown
      /\ pc = "class" /\ pc' = "judge" /\ cls <= LastClass
      /\ major = 0 \/ cls <= major
      /\ rule' = [r \in Rule |-> IF ClassOf(r) = cls
                              THEN Fed(r, rule[r], cache[cache_pos].char)
                              ELSE rule[r]]
      /\ major' = IF matched THEN cls ELSE major
      /\ UNCHANGED <<last, cache, m_pos, linfo, cache_pos, batch, cls,
                     prevs_is_dead, ending, outcome, taken, out, text, first, resets>>
  BY DEF IInv, FeedClass, Fixed
<1>2. cache[cache_pos].char \in Char
  <2>1. cache_pos \in 1 .. Len(cache)
    BY <1>1, Parts
  <2>2. cache \in Seq(Entry)
    BY <1>1 DEF TypeOK, Entry
  <2>3. cache[cache_pos] \in Entry
    BY <2>1, <2>2
  <2>. QED
    BY <2>3 DEF Entry
<1>3. ASSUME NEW r \in Rule, ClassOf(r) = cls
      PROVE  /\ rule'[r] \in RuleState(r)
             /\ rule'[r].match_len <= rule'[r].feed_len
             /\ rule'[r].feed_len <= rule[r].feed_len + 1
             /\ ~Dead(r, rule[r]) /\ Match(r, rule'[r]) => rule'[r].match_len > 0
             /\ ~(~Dead(r, rule[r]) /\ Match(r, rule'[r]))
                  => rule'[r].match_len = rule[r].match_len
  BY <1>1, <1>2, <1>3, Parts, FedFacts
<1>4. \A r \in Rule : ClassOf(r) # cls => rule'[r] = rule[r]
  BY <1>1
<1>5. \A r \in Rule : /\ rule'[r] \in RuleState(r)
                      /\ rule'[r].match_len \in Nat /\ rule'[r].feed_len \in Nat
                      /\ rule'[r].match_len <= rule'[r].feed_len
  <2>1. \A r \in Rule : rule'[r] \in RuleState(r)
                        /\ rule'[r].match_len <= rule'[r].feed_len
    BY <1>3, <1>4, Parts
  <2>. QED
    BY <2>1 DEF RuleState
<1>6. TypeOK'
  <2>1. cls \in Classes
    BY <1>1, Parts, ClassFacts
  <2>2. major' \in Classes \cup {0}
    BY <1>1, <2>1 DEF TypeOK
  <2>3. rule' = [r \in Rule |-> rule'[r]]
    BY <1>1
  <2>. QED
    BY <1>1, <1>5, <2>2, <2>3 DEF TypeOK
<1>7. CutsTile'
  BY <1>1 DEF IInv, CutsTile, Rest
<1>8. Measured'
  <2>1. cache_pos' <= Len(cache') /\ cls' <= LastClass /\ cache_pos' = cache_pos
    BY <1>1, Parts
  <2>2. ASSUME NEW r \in Rule
        PROVE  rule'[r].feed_len <= IF ClassOf(r) <= cls THEN cache_pos ELSE cache_pos - 1
    BY <1>1, <1>3, <1>4, <1>5, Parts
  <2>. QED
    BY <1>1, <1>5, <2>1, <2>2 DEF Measured, FedSoFar
<1>9. ASSUME NEW r \in Rule, rule'[r].match_len > 0
      PROVE  rule[r].match_len > 0 \/ (ClassOf(r) = cls /\ matched)
  BY <1>3, <1>4, <1>5, <1>9, Parts DEF InClass
<1>10. LimitKnown'
  <2>1. ASSUME NEW r \in Rule, rule'[r].match_len > 0
        PROVE  major' # 0 /\ major' <= ClassOf(r)
    <3>1. CASE matched
      BY <1>1, <1>9, <2>1, <3>1, Parts DEF LimitKnown
    <3>2. CASE ~matched
      BY <1>1, <1>9, <2>1, <3>2 DEF LimitKnown
    <3>. QED
      BY <3>1, <3>2
  <2>2. ASSUME major' # 0 PROVE \E r \in InClass(major') : rule'[r].match_len > 0
    <3>1. CASE matched
      BY <1>1, <1>3, <3>1 DEF InClass
    <3>2. CASE ~matched
      <4>1. PICK r \in InClass(major) : rule[r].match_len > 0
        BY <1>1, <2>2, <3>2 DEF LimitKnown
      <4>2. r \in Rule /\ rule'[r].match_len > 0
        BY <1>3, <1>4, <3>2, <4>1 DEF InClass
      <4>. QED
        BY <1>1, <3>2, <4>1, <4>2
    <3>. QED
      BY <3>1, <3>2
  <2>. QED
    BY <2>1, <2>2 DEF LimitKnown
<1>11. PrevsKnown'
  <2>1. ASSUME NEW r \in Rule, prevs_is_dead, ClassOf(r) < cls,
               major' = 0 \/ ClassOf(r) <= major'
        PROVE  rule'[r].match_len = 0
    <3>1. major = 0 \/ ClassOf(r) <= major
      BY <1>1, <2>1, Parts
    <3>2. rule[r].match_len = 0
      BY <1>1, <2>1, <3>1 DEF PrevsKnown
    <3>3. ClassOf(r) # cls
      BY <2>1, Parts
    <3>. QED
      BY <1>4, <3>2, <3>3
  <2>. QED
    BY <1>1, <2>1 DEF PrevsKnown
<1>. QED
  BY <1>6, <1>7, <1>8, <1>10, <1>11 DEF IInv

\* A class is done with: its rules were alive, or none of them has matched.
LEMMA PassClassStep ==
  ASSUME IInv, PassClass
  PROVE  IInv'
<1>1. /\ TypeOK /\ PrevsKnown
      /\ pc = "judge" /\ pc' = "class" /\ cls' = cls + 1
      /\ prevs_is_dead' \in BOOLEAN
      /\ prevs_is_dead' => prevs_is_dead /\ Candidates(cls) = {}
      /\ UNCHANGED <<rule, major, last, cache, m_pos, linfo, cache_pos, batch,
                     ending, outcome, taken, out, text, first, resets>>
  BY DEF IInv, PassClass, Fixed
<1>2. CutsTile' /\ LimitKnown'
  BY <1>1, Quiet
<1>3. TypeOK'
  <2>1. cls' \in 1 .. LastClass + 1
    BY <1>1, Parts
  <2>. QED
    BY <1>1, <2>1 DEF TypeOK
<1>4. Measured'
  BY <1>1, Parts DEF Measured, FedSoFar
<1>5. PrevsKnown'
  <2>1. ASSUME NEW r \in Rule, prevs_is_dead', ClassOf(r) < cls + 1,
               major = 0 \/ ClassOf(r) <= major
        PROVE  rule[r].match_len = 0
    <3>1. CASE ClassOf(r) < cls
      BY <1>1, <2>1, <3>1 DEF PrevsKnown
    <3>2. CASE ClassOf(r) = cls
      <4>1. ~(rule[r].match_len > 0)
        BY <1>1, <2>1, <3>2 DEF Candidates, InClass
      <4>. QED
        BY <4>1, Parts
    <3>. QED
      BY <2>1, <3>1, <3>2, Parts
  <2>. QED
    BY <1>1, <2>1 DEF PrevsKnown
<1>. QED
  BY <1>2, <1>3, <1>4, <1>5 DEF IInv

\* All classes have been visited.
LEMMA VisitedStep ==
  ASSUME IInv, StayAlive \/ NoRuleMatch
  PROVE  IInv'
<1>1. /\ TypeOK /\ pc = "class" /\ cls > LastClass
      /\ UNCHANGED <<rule, major, last, cache, m_pos, linfo, cls, prevs_is_dead,
                     ending, taken, out, text, first, resets>>
  BY DEF IInv, StayAlive, NoRuleMatch, Throw, Fixed
<1>2. CutsTile' /\ LimitKnown'
  BY <1>1, Quiet
<1>3. \A r \in Rule : rule[r].feed_len <= cache_pos
  BY <1>1, Parts
<1>4. CASE StayAlive
  <2>1. pc' = "scan" /\ cache_pos' = cache_pos + 1 /\ UNCHANGED <<batch, outcome>>
    BY <1>4 DEF StayAlive
  <2>2. cache_pos' \in Nat \ {0}
    BY <2>1, Parts
  <2>3. TypeOK'
    BY <1>1, <2>1, <2>2 DEF TypeOK
  <2>4. Measured'
    BY <1>1, <1>3, <2>1, Parts DEF Measured, FedSoFar
  <2>5. PrevsKnown'
    BY <2>1 DEF PrevsKnown
  <2>. QED
    BY <1>2, <2>3, <2>4, <2>5 DEF IInv
<1>5. CASE NoRuleMatch
  <2>1. pc' = "idle" /\ outcome' \in Errors /\ batch' = << >> /\ cache_pos' = cache_pos
    BY <1>5 DEF NoRuleMatch, Throw, Errors
  <2>2. TypeOK'
    BY <1>1, <2>1 DEF TypeOK
  <2>3. Measured'
    BY <1>1, <1>3, <2>1, Parts DEF Measured, FedSoFar
  <2>4. PrevsKnown'
    BY <2>1 DEF PrevsKnown
  <2>. QED
    BY <1>2, <2>2, <2>3, <2>4 DEF IInv
<1>. QED
  BY <1>4, <1>5

\* The beginning and the end of feed_end().
LEMMA EndStep ==
  ASSUME IInv, FeedEnd \/ EndFail \/ EndDone
  PROVE  IInv'
<1>1. /\ TypeOK /\ pc \in {"idle", "end"} /\ pc' \in {"idle", "end"}
      /\ outcome' \in {"running", "ended"} \cup Errors
      /\ batch' = batch \/ batch' = << >>
      /\ out' = out \/ out' = out \o batch
      /\ UNCHANGED <<rule, major, last, cache, m_pos, linfo, cache_pos, cls,
                     prevs_is_dead, ending, taken, text, first, resets>>
  BY DEF IInv, FeedEnd, EndFail, EndDone, CallAllowed, Throw, Return, Fixed, Errors
<1>2. CutsTile' /\ LimitKnown'
  BY <1>1, Quiet
<1>3. TypeOK'
  <2>1. out \in Seq(Token) /\ batch \in Seq(Token)
    BY <1>1 DEF TypeOK
  <2>2. out \o batch \in Seq(Token) /\ << >> \in Seq(Token)
    BY <2>1, ConcatProperties
  <2>3. out' \in Seq(Token) /\ batch' \in Seq(Token)
    BY <1>1, <2>1, <2>2
  <2>. QED
    BY <1>1, <2>3 DEF TypeOK
<1>4. Measured'
  BY <1>1, Parts DEF Measured, FedSoFar
<1>5. PrevsKnown'
  BY <1>1 DEF PrevsKnown
<1>. QED
  BY <1>2, <1>3, <1>4, <1>5 DEF IInv

\* What follows a token in either loop: no rule has counted anything.
LEMMA Afresh ==
  ASSUME TypeOK, NEW r \in Rule, Take(r),
         rule[r].match_len > 0, rule[r].match_len <= Len(cache), CutsTile,
         UNCHANGED text, pc' \in {"scan", "end"}, cache_pos' \in Nat \ {0},
         pc' = "scan" => cache_pos' = 1,
         UNCHANGED <<m_pos, linfo, first, resets, cls, prevs_is_dead, outcome, out>>,
         ending' \in BOOLEAN
  PROVE  IInv'
<1>1. /\ rule' = [s \in Rule |-> rule'[s]]
      /\ \A s \in Rule : /\ rule'[s] \in RuleState(s)
                         /\ rule'[s].match_len = 0 /\ rule'[s].feed_len = 0
      /\ major' = 0 /\ last' \in Kind \cup {NoToken}
      /\ cache' \in Seq(Entry) /\ batch' \in Seq(Token) /\ taken' \in Seq(Cut)
      /\ CutsTile'
  BY TakeFacts
<1>2. TypeOK'
  BY <1>1 DEF TypeOK, Entry, Cut
<1>3. Measured'
  <2>1. Len(cache') \in Nat
    BY <1>1
  <2>. QED
    BY <1>1, <2>1 DEF Measured, FedSoFar
<1>4. LimitKnown' /\ PrevsKnown'
  BY <1>1 DEF LimitKnown, PrevsKnown
<1>. QED
  BY <1>1, <1>2, <1>3, <1>4 DEF IInv

\* A token taken while characters are fed.
LEMMA TakeScannedStep ==
  ASSUME IInv, TakeScanned
  PROVE  IInv'
<1> DEFINE r == Winner(cls)
<1>1. TypeOK /\ CutsTile /\ pc = "judge" /\ Candidates(cls) # {} /\ ending \in BOOLEAN
      /\ UNCHANGED <<m_pos, linfo, text, first, resets, cls, prevs_is_dead, ending,
                     outcome, out>>
      /\ pc' = "scan" /\ cache_pos' = 1 /\ Take(r)
  BY DEF IInv, TypeOK, TakeScanned, Fixed
<1>2. \A s \in Candidates(cls) : s \in Rule /\ rule[s].match_len <= cache_pos
                                 /\ rule[s].match_len > 0
  BY <1>1, Parts DEF Candidates, InClass
<1>3. cache_pos \in Nat /\ cache_pos <= Len(cache) /\ Len(cache) \in Nat
  BY <1>1, Parts
<1>4. r \in Candidates(cls)
  BY <1>1, <1>2, <1>3, WinnerExists
<1>. HIDE DEF r
<1>5. r \in Rule /\ rule[r].match_len > 0 /\ rule[r].match_len <= Len(cache)
  <2>1. r \in Rule /\ rule[r].match_len > 0 /\ rule[r].match_len <= cache_pos
    BY <1>2, <1>4
  <2>2. rule[r].match_len \in Nat
    BY <2>1, Parts
  <2>. QED
    BY <1>3, <2>1, <2>2
<1>. QED
  BY <1>1, <1>5, Afresh

\* A token taken at the end of the text.
LEMMA EndTakeStep ==
  ASSUME IInv, EndTake
  PROVE  IInv'
<1> DEFINE i == Smallest(Endable)
           r == Winner(i)
<1>1. /\ TypeOK /\ CutsTile /\ pc = "end" /\ Endable # {}
      /\ ending \in BOOLEAN /\ cache_pos \in Nat \ {0}
      /\ UNCHANGED <<m_pos, linfo, text, first, resets, cls, prevs_is_dead,
                     outcome, out>>
      /\ \/ pc' = "end" /\ cache_pos' = cache_pos /\ ending' = ending
         \/ pc' = "scan" /\ cache_pos' = 1 /\ ending' = TRUE
      /\ Take(r)
  BY DEF IInv, TypeOK, EndTake, Fixed
<1>2. Endable \in SUBSET Nat
  BY ClassFacts DEF Endable
<1>3. i \in Endable
  BY <1>1, <1>2, SmallestIn
<1>. HIDE DEF i
<1>4. Candidates(i) # {}
  BY <1>3 DEF Endable
<1>5. \A s \in Candidates(i) : s \in Rule /\ rule[s].match_len <= Len(cache)
                               /\ rule[s].match_len > 0
  BY <1>1, Parts DEF Candidates, InClass
<1>6. r \in Candidates(i)
  <2>1. Len(cache) \in Nat
    BY Parts
  <2>. QED
    BY <1>1, <1>4, <1>5, <2>1, WinnerExists
<1>. HIDE DEF r
<1>7. r \in Rule /\ rule[r].match_len > 0 /\ rule[r].match_len <= Len(cache)
  BY <1>5, <1>6
<1>8. /\ pc' \in {"scan", "end"} /\ cache_pos' \in Nat \ {0} /\ ending' \in BOOLEAN
      /\ pc' = "scan" => cache_pos' = 1
  <2>1. CASE pc' = "end" /\ cache_pos' = cache_pos /\ ending' = ending
    BY <1>1, <2>1
  <2>2. CASE pc' = "scan" /\ cache_pos' = 1 /\ ending' = TRUE
    BY <2>2
  <2>. QED
    BY <1>1, <2>1, <2>2
<1>. QED
  BY <1>1, <1>7, <1>8, Afresh

\* reset().
LEMMA ResetStep ==
  ASSUME IInv, Reset
  PROVE  IInv'
<1>1. /\ TypeOK /\ pc = "idle" /\ pc' = "idle"
      /\ cache' = << >> /\ text' = << >> /\ taken' = << >> /\ out' = << >>
      /\ batch' = << >> /\ outcome' = "reset" /\ first' = last /\ last' = last
      /\ m_pos' = 0 /\ linfo' = <<0>> /\ resets' = resets + 1 /\ major' = 0
      /\ rule' = [r \in Rule |-> RuleReset(r, last)]
      /\ UNCHANGED <<cache_pos, cls, prevs_is_dead, ending>>
  BY DEF IInv, Reset, ResetRules
<1>2. \A r \in Rule : /\ rule'[r] \in RuleState(r)
                      /\ rule'[r].match_len = 0 /\ rule'[r].feed_len = 0
  BY <1>1, ResetFacts
<1>3. TypeOK'
  <2>1. rule' = [r \in Rule |-> rule'[r]]
    BY <1>1
  <2>2. /\ cache' \in Seq([char : Char, pos : Nat]) /\ linfo' \in Seq(Nat)
        /\ batch' \in Seq(Token) /\ out' \in Seq(Token) /\ text' \in Seq(Char)
        /\ taken' \in Seq([tok : Token, start : Nat])
    BY <1>1
  <2>3. resets' \in Nat /\ m_pos' \in Nat
    BY <1>1 DEF TypeOK
  <2>. QED
    BY <1>1, <1>2, <2>1, <2>2, <2>3 DEF TypeOK
<1>4. CutsTile'
  BY <1>1 DEF CutsTile
<1>5. Measured'
  BY <1>1, <1>2 DEF Measured, FedSoFar
<1>6. LimitKnown' /\ PrevsKnown'
  BY <1>1, <1>2 DEF LimitKnown, PrevsKnown
<1>. QED
  BY <1>3, <1>4, <1>5, <1>6 DEF IInv

------------------------------------------------------------------------------
(* The theorems *)

\* IInv is inductive: every turn of every loop keeps it.
LEMMA NextIInv == IInv /\ [Next]_vars => IInv'
<1>. SUFFICES ASSUME IInv, [Next]_vars PROVE IInv'
  OBVIOUS
<1>1. ASSUME NEW c \in Char, FeedChar(c) PROVE IInv'
  BY <1>1, FeedCharStep
<1>2. CASE FeedEnd \/ EndFail \/ EndDone
  BY <1>2, EndStep
<1>3. CASE Reset
  BY <1>3, ResetStep
<1>4. CASE ScanNext \/ ScanDone
  BY <1>4, ScanStep
<1>5. CASE SkipClass
  BY <1>5, SkipClassStep
<1>6. CASE FeedClass
  BY <1>6, FeedClassStep
<1>7. CASE TakeScanned
  BY <1>7, TakeScannedStep
<1>8. CASE PassClass
  BY <1>8, PassClassStep
<1>9. CASE StayAlive \/ NoRuleMatch
  BY <1>9, VisitedStep
<1>10. CASE EndTake
  BY <1>10, EndTakeStep
<1>11. CASE UNCHANGED vars
  <2>1. CutsTile' /\ LimitKnown'
    BY <1>11, Quiet DEF vars, machine, ghost
  <2>2. TypeOK'
    BY <1>11 DEF IInv, TypeOK, vars, machine, ghost
  <2>3. Measured' /\ PrevsKnown'
    BY <1>11 DEF IInv, Measured, FedSoFar, PrevsKnown, vars, machine, ghost
  <2>. QED
    BY <2>1, <2>2, <2>3 DEF IInv
<1>. QED
  BY <1>1, <1>2, <1>3, <1>4, <1>5, <1>6, <1>7, <1>8, <1>9, <1>10, <1>11
     DEF Next, Step

\* The lexer's variables, the lengths its rules have counted and the limit
\* m_match_major_priority are related as IInv says, for every set of rules.
THEOREM LexerInvariant == Spec => []IInv
<1>. QED
  BY InitIInv, NextIInv, PTL DEF Spec

\* No character of the text is lost, read twice or moved by cutting tokens off
\* the cache in push_cache_to_end() and feed_end(), whatever the rules.
THEOREM TextIsTiled == Spec => []CutsTile
<1>1. IInv => CutsTile
  BY DEF IInv
<1>. QED
  BY <1>1, LexerInvariant, PTL

\* None of the assertions in feed_char_internal(), push_cache_to_end() and
\* feed_end() can fail, whatever the rules and the text.
THEOREM LexerAssertions == Spec => []AssertionsHold
<1>1. ASSUME IInv PROVE AssertionsHold
  <2>1. ASSUME pc = "class", cls > LastClass, prevs_is_dead
        PROVE  major = 0
    <3>1. SUFFICES ASSUME major # 0 PROVE FALSE
      OBVIOUS
    <3>2. PICK r \in InClass(major) : rule[r].match_len > 0
      BY <1>1, <3>1 DEF IInv, LimitKnown
    <3>3. r \in Rule /\ ClassOf(r) = major /\ ClassOf(r) < cls
      BY <1>1, <2>1, <3>2, Parts DEF InClass
    <3>4. ClassOf(r) <= major
      BY <1>1, <3>3, Parts
    <3>5. rule[r].match_len = 0
      BY <1>1, <2>1, <3>3, <3>4 DEF IInv, PrevsKnown
    <3>. QED
      BY <3>2, <3>5
  <2>2. ASSUME pc = "judge", NEW r \in Candidates(cls)
        PROVE  rule[r].match_len <= cache_pos
    BY <1>1, <2>2, Parts DEF Candidates, InClass
  <2>3. ASSUME pc = "end", NEW i \in Endable, NEW r \in Candidates(i)
        PROVE  rule[r].match_len <= Len(cache)
    BY <1>1, <2>3, Parts DEF Candidates, InClass
  <2>. QED
    BY <2>1, <2>2, <2>3 DEF AssertionsHold
<1>. QED
  BY <1>1, LexerInvariant, PTL

------------------------------------------------------------------------------
(****************************************************************************)
(* The text, as the rules and the tokens know it.  A rule whose class is not *)
(* beyond the limit has seen what has been fed: it knows the longest word so *)
(* far and, once it is dead, that there is none after it.                    *)
(****************************************************************************)
Unread == Rest(Len(text) - Len(cache))

\* Whatever follows the first n characters of w, no longer word ends there.
Stopped(r, before, w, n) ==
    \/ before \notin Shape[r].after
    \/ Reaches(r, w, n) \in Shape[r].dead
    \/ Shape[r].first /\ \E k \in 0 .. n - 1 : Reaches(r, w, k) \in Shape[r].final

Knows(r, s, before, w, n) ==
    /\ s.match_len <= n
    /\ s.match_len > 0 => before \in Shape[r].after
    /\ (s.match_len > 0 /\ Shape[r].spare = {}) => IsWord(r, w, s.match_len)
    /\ before \in Shape[r].after =>
          \A m \in 1 .. n : IsWord(r, w, m) => m <= s.match_len
    /\ Dead(r, s) => Stopped(r, before, w, n)
    /\ ~Dead(r, s) => /\ before \in Shape[r].after
                      /\ s.q = Reaches(r, w, n) /\ s.feed_len = n
                      /\ Shape[r].first =>
                            \A k \in 0 .. n - 1 : Reaches(r, w, k) \notin Shape[r].final

Visible(r) == major = 0 \/ ClassOf(r) <= major

RulesKnow == \A r \in Rule : Visible(r) => Knows(r, rule[r], last, Unread, FedSoFar(r))

LastKnown == last = LastBefore(Len(taken) + 1, first)

DeadSoFar ==
    /\ pc = "judge" => major = 0 \/ cls <= major
    /\ (pc \in {"class", "judge"} /\ prevs_is_dead) =>
          \A r \in Rule : ClassOf(r) < cls /\ Visible(r) => Dead(r, rule[r])

\* What a call that throws leaves, and what tells a call from the time between.
GivenUp ==
    /\ outcome \in Errors => major = 0 /\ \A r \in Rule : rule[r].match_len = 0
    /\ outcome = "running" <=> pc # "idle"
    /\ cache # << >> => m_pos > 0

Words == RulesKnow /\ LastKnown /\ DeadSoFar /\ GivenUp

\* A character that no rule matches stays in the cache, and every rule stays
\* dead: the calls that follow throw as well, up to a reset.
Stuck ==
    /\ cache # << >> /\ major = 0
    /\ \A r \in Rule : Dead(r, rule[r]) /\ rule[r].match_len = 0
    /\ pc = "scan" => cache_pos <= Len(cache)
    /\ pc \in {"class", "judge"} => prevs_is_dead

\* The tokens of s that are shown, without the places they were taken from.
Toks(s) == [i \in DOMAIN Shown(s) |-> Shown(s)[i].tok]

\* What the caller has, with what the running call has collected for it.
Delivered ==
    /\ outcome \in {"reset", "fed", "ended"} => out = Toks(taken)
    /\ outcome = "running" => out \o batch = Toks(taken) \/ Stuck
    /\ outcome = "no rule match" => Stuck
    /\ outcome = "ended" => cache = << >>

\* The texts this one may yet become before the lexer is reset.
Growing ==
    \/ outcome \in {"reset", "fed"}
    \/ ~ending /\ \/ outcome = "no rule match"
                  \/ outcome = "running" /\ pc # "end"

Begins(w, v) == Len(w) <= Len(v) /\ \A k \in 1 .. Len(w) : v[k] = w[k]

MayBecome(v) == v \in Seq(Char) /\ Begins(text, v) /\ (Growing \/ v = text)

\* BestTaken, said of the text v.
Best(o, w, before) ==
    o \in Options(w, before) /\ \A p \in Options(w, before) : Preferred(o, p)

BestIn(v, since) ==
    \A i \in DOMAIN taken :
        Best(<<taken[i].tok.rule, taken[i].tok.len>>,
             SubSeq(v, taken[i].start + 1, Len(v)), LastBefore(i, since))

BestForever == \A v : MayBecome(v) => BestIn(v, first)

------------------------------------------------------------------------------
(* Recursion over a text *)

\* A set that has 0, and n + 1 with every n below the bound, has them all.
LEMMA Induction ==
  ASSUME NEW b \in Nat, NEW S, 0 \in S, \A n \in S : n \in 0 .. b /\ n + 1 <= b => n + 1 \in S
  PROVE  0 .. b \subseteq S
<1>1. SUFFICES ASSUME (0 .. b) \ S # {} PROVE FALSE
  OBVIOUS
<1>2. PICK n \in (0 .. b) \ S : \A m \in (0 .. b) \ S : n <= m
  <2> DEFINE T == (0 .. b) \ S
  <2>1. T \in SUBSET Nat /\ T # {}
    BY <1>1
  <2> HIDE DEF T
  <2>2. \E n \in T : \A m \in T : n <= m
    BY <2>1, LeastNat
  <2>. QED
    BY <2>2 DEF T
<1>3. n \in 0 .. b /\ n \notin S /\ n # 0
  BY <1>2
<1>4. n - 1 \in 0 .. b /\ n - 1 < n /\ (n - 1) + 1 = n
  BY <1>3
<1>5. n - 1 \in S
  BY <1>2, <1>4
<1>6. (n - 1) + 1 <= b
  BY <1>3, <1>4
<1>7. (n - 1) + 1 \in S
  BY <1>4, <1>5, <1>6
<1>. QED
  BY <1>3, <1>4, <1>7

\* The states of the automaton of a rule.
LEMMA ShapeFacts ==
  ASSUME NEW r \in Rule
  PROVE  /\ Shape[r].start \in Shape[r].states
         /\ Shape[r].final \subseteq Shape[r].states
         /\ Shape[r].dead \subseteq Shape[r].states
         /\ Shape[r].final \cap Shape[r].dead = {}
         /\ Shape[r].first \in BOOLEAN
         /\ Shape[r].kind \in Kind \cup {Skip}
<1>1. ShapeOK(Shape[r])
  BY RulesAssumption, Zenon
<1>. QED
  BY <1>1, Zenon DEF ShapeOK

\* One move of the automaton of a rule.
Move(r, q, c) == Shape[r].next[q, c]

\* A move stays within the states, and a dead state moves to dead states.
LEMMA MoveFacts ==
  ASSUME NEW r \in Rule, NEW q \in Shape[r].states, NEW c \in Char
  PROVE  /\ Move(r, q, c) \in Shape[r].states
         /\ q \in Shape[r].dead => Move(r, q, c) \in Shape[r].dead
<1>1. ShapeOK(Shape[r])
  BY RulesAssumption
<1>2. Move(r, q, c) \in Shape[r].states
  <2>1. Shape[r].next \in [Shape[r].states \X Char -> Shape[r].states]
    BY <1>1 DEF ShapeOK
  <2>. QED
    BY <2>1, Zenon DEF Move
<1>3. ASSUME q \in Shape[r].dead PROVE Move(r, q, c) \in Shape[r].dead
  BY <1>1, <1>3, Zenon DEF ShapeOK, Move
<1>. QED
  BY <1>2, <1>3

\* The states of rule r on the first n characters of w.
Runs(r, w, n, run) ==
  run = [k \in 0 .. n |-> IF k = 0 THEN Shape[r].start
                          ELSE Move(r, run[k - 1], w[k])]

\* There is a run over every prefix of a text.
LEMMA RunsExist ==
  ASSUME NEW r, NEW w, NEW b \in Nat
  PROVE  \E run : Runs(r, w, b, run)
<1> DEFINE S == {n \in Nat : \E run : Runs(r, w, n, run)}
<1>1. 0 \in S
  <2>1. Runs(r, w, 0, [k \in 0 .. 0 |-> Shape[r].start])
    BY DEF Runs
  <2>. QED
    BY <2>1
<1>2. ASSUME NEW n \in S PROVE n + 1 \in S
  <2>1. PICK f : Runs(r, w, n, f)
    BY <1>2
  <2> DEFINE g == [k \in 0 .. n + 1 |-> IF k = n + 1 THEN Move(r, f[n], w[n + 1])
                                        ELSE f[k]]
  <2>2. n \in Nat /\ n + 1 \in Nat
    OBVIOUS
  <2>3. ASSUME NEW k \in 0 .. n + 1
        PROVE  g[k] = IF k = 0 THEN Shape[r].start ELSE Move(r, g[k - 1], w[k])
    <3>1. CASE k = n + 1
      <4>1. k # 0 /\ k - 1 = n /\ n \in 0 .. n + 1 /\ n # n + 1
        BY <2>2, <3>1
      <4>2. g[k - 1] = f[n]
        BY <4>1
      <4>. QED
        BY <3>1, <4>1, <4>2
    <3>2. CASE k # n + 1
      <4>1. k \in 0 .. n /\ (k # 0 => k - 1 \in 0 .. n + 1 /\ k - 1 # n + 1)
        BY <2>2, <3>2
      <4>2. g[k] = f[k] /\ (k # 0 => g[k - 1] = f[k - 1])
        BY <4>1, <3>2
      <4>3. f[k] = IF k = 0 THEN Shape[r].start ELSE Move(r, f[k - 1], w[k])
        BY <4>1, <2>1 DEF Runs
      <4>. QED
        BY <4>2, <4>3
    <3>. QED
      BY <3>1, <3>2
  <2>4. Runs(r, w, n + 1, g)
    <3>1. g = [k \in 0 .. n + 1 |-> g[k]]
      OBVIOUS
    <3> HIDE DEF g
    <3>. QED
      BY <2>3, <3>1 DEF Runs
  <2>. QED
    BY <2>2, <2>4
<1>3. 0 .. b \subseteq S
  <2> HIDE DEF S
  <2>. QED
    BY <1>1, <1>2, Induction
<1>. QED
  BY <1>3

\* Two runs on texts that begin alike.
LEMMA RunsAgree ==
  ASSUME NEW r, NEW w, NEW v, NEW n \in Nat, NEW m \in Nat, NEW f, NEW g,
         Runs(r, w, n, f), Runs(r, v, m, g),
         NEW b \in Nat, b <= n, b <= m, \A k \in 1 .. b : w[k] = v[k]
  PROVE  f[b] = g[b]
<1> DEFINE S == {k \in 0 .. b : f[k] = g[k]}
<1>1. \A k \in 0 .. n : f[k] = IF k = 0 THEN Shape[r].start
                               ELSE Move(r, f[k - 1], w[k])
  BY DEF Runs
<1>2. \A k \in 0 .. m : g[k] = IF k = 0 THEN Shape[r].start
                               ELSE Move(r, g[k - 1], v[k])
  BY DEF Runs
<1>3. 0 \in S
  <2>1. 0 \in 0 .. n /\ 0 \in 0 .. m /\ 0 \in 0 .. b
    OBVIOUS
  <2>2. f[0] = Shape[r].start /\ g[0] = Shape[r].start
    BY <1>1, <1>2, <2>1
  <2>. QED
    BY <2>1, <2>2
<1>4. ASSUME NEW k \in S, k + 1 <= b PROVE k + 1 \in S
  <2>1. k \in Nat /\ k + 1 \in 0 .. n /\ k + 1 \in 0 .. m /\ k + 1 \in 1 .. b /\ k + 1 \in 0 .. b
        /\ k + 1 # 0 /\ (k + 1) - 1 = k /\ f[k] = g[k]
    BY <1>4
  <2>2. w[k + 1] = v[k + 1]
    BY <2>1
  <2>3. f[k + 1] = Move(r, f[k], w[k + 1]) /\ g[k + 1] = Move(r, g[k], v[k + 1])
    BY <1>1, <1>2, <2>1
  <2>. QED
    BY <2>1, <2>2, <2>3
<1>5. 0 .. b \subseteq S
  <2> HIDE DEF S
  <2>. QED
    BY <1>3, <1>4, Induction
<1>. QED
  BY <1>5

\* What Reaches is.
LEMMA ReachesRun ==
  ASSUME NEW r, NEW w, NEW n \in Nat
  PROVE  \E run : Runs(r, w, n, run) /\ Reaches(r, w, n) = run[n]
<1>1. Reaches(r, w, n) = (CHOOSE run : Runs(r, w, n, run))[n]
  BY Zenon DEF Reaches, Runs, Move
<1>. QED
  BY <1>1, RunsExist

\* The state reached, character by character.
LEMMA ReachesNext ==
  ASSUME NEW r, NEW w, NEW n \in Nat
  PROVE  /\ Reaches(r, w, 0) = Shape[r].start
         /\ Reaches(r, w, n + 1) = Move(r, Reaches(r, w, n), w[n + 1])
<1>1. PICK f : Runs(r, w, 0, f) /\ Reaches(r, w, 0) = f[0]
  BY ReachesRun
<1>2. PICK g : Runs(r, w, n, g) /\ Reaches(r, w, n) = g[n]
  BY ReachesRun
<1>3. n + 1 \in Nat /\ n <= n + 1 /\ n + 1 \in 0 .. n + 1 /\ n + 1 # 0 /\ (n + 1) - 1 = n
      /\ n <= n /\ 0 \in Nat
  OBVIOUS
<1>4. PICK h : Runs(r, w, n + 1, h) /\ Reaches(r, w, n + 1) = h[n + 1]
  BY <1>3, ReachesRun
<1>5. f[0] = Shape[r].start
  BY <1>1 DEF Runs
<1>6. h[n + 1] = Move(r, h[n], w[n + 1])
  BY <1>3, <1>4 DEF Runs
<1>7. h[n] = g[n]
  <2>1. \A k \in 1 .. n : w[k] = w[k]
    OBVIOUS
  <2> DEFINE m == n + 1
  <2>2. m \in Nat /\ n <= m /\ n <= n /\ Runs(r, w, m, h) /\ Runs(r, w, n, g)
    BY <1>2, <1>3, <1>4
  <2> HIDE DEF m
  <2>. QED
    BY <2>1, <2>2, RunsAgree
<1>. QED
  BY <1>1, <1>2, <1>4, <1>5, <1>6, <1>7

\* Texts that begin alike reach the same state.
LEMMA ReachesAgree ==
  ASSUME NEW r, NEW w, NEW v, NEW n \in Nat, \A k \in 1 .. n : w[k] = v[k]
  PROVE  Reaches(r, w, n) = Reaches(r, v, n)
<1>1. PICK f : Runs(r, w, n, f) /\ Reaches(r, w, n) = f[n]
  BY ReachesRun
<1>2. PICK g : Runs(r, v, n, g) /\ Reaches(r, v, n) = g[n]
  BY ReachesRun
<1>. QED
  BY <1>1, <1>2, RunsAgree

\* A rule is in one of its states, and a dead one stays dead.
LEMMA ReachesStates ==
  ASSUME NEW r \in Rule, NEW w, NEW n \in Nat, \A k \in 1 .. n : w[k] \in Char
  PROVE  /\ Reaches(r, w, n) \in Shape[r].states
         /\ \A k \in 0 .. n : Reaches(r, w, k) \in Shape[r].dead
                                => Reaches(r, w, n) \in Shape[r].dead
<1> DEFINE Q(k) == Reaches(r, w, k)
           S == {k \in 0 .. n : Q(k) \in Shape[r].states}
<1>1. Shape[r].start \in Shape[r].states /\ Shape[r].dead \subseteq Shape[r].states
  BY ShapeFacts
<1>2. 0 \in S
  <2>1. Q(0) = Shape[r].start /\ 0 \in 0 .. n
    BY ReachesNext
  <2> HIDE DEF Q
  <2>. QED
    BY <1>1, <2>1
<1>3. ASSUME NEW k \in S, k + 1 <= n PROVE k + 1 \in S
  <2>1. k \in Nat /\ k + 1 \in 0 .. n /\ k + 1 \in 1 .. n /\ Q(k) \in Shape[r].states
    BY <1>3
  <2>2. Q(k + 1) = Move(r, Q(k), w[k + 1]) /\ w[k + 1] \in Char
    BY <2>1, ReachesNext
  <2> HIDE DEF Q
  <2>4. Q(k + 1) \in Shape[r].states
    BY <2>1, <2>2, MoveFacts
  <2>. QED
    BY <2>1, <2>4
<1>4. 0 .. n \subseteq S
  <2> HIDE DEF S
  <2>. QED
    BY <1>2, <1>3, Induction
<1>5. ASSUME NEW k \in 0 .. n, Q(k) \in Shape[r].dead PROVE Q(n) \in Shape[r].dead
  <2> DEFINE T == {j \in 0 .. n - k : Q(k + j) \in Shape[r].dead}
             b == n - k
  <2>1. b \in Nat /\ k + b = n /\ k + 0 = k /\ k \in Nat /\ 0 \in 0 .. b
    BY <1>5
  <2>2. 0 \in T
    BY <1>5, <2>1
  <2>3. ASSUME NEW j \in T, j + 1 <= b PROVE j + 1 \in T
    <3>1. j \in Nat /\ k + j \in Nat /\ k + (j + 1) = (k + j) + 1 /\ (k + j) + 1 \in 1 .. n
          /\ j + 1 \in 0 .. b /\ Q(k + j) \in Shape[r].dead
      BY <2>1, <2>3
    <3>2. Q((k + j) + 1) = Move(r, Q(k + j), w[(k + j) + 1]) /\ w[(k + j) + 1] \in Char
      BY <3>1, ReachesNext
    <3> HIDE DEF Q
    <3>3. Q(k + j) \in Shape[r].states
      BY <1>1, <3>1
    <3>4. Q((k + j) + 1) \in Shape[r].dead
      BY <3>1, <3>2, <3>3, MoveFacts
    <3>. QED
      BY <3>1, <3>4
  <2>4. 0 .. b \subseteq T
    <3> HIDE DEF T, b
    <3>. QED
      BY <2>1, <2>2, <2>3, Induction
  <2> HIDE DEF Q
  <2>5. b \in T
    BY <2>1, <2>4
  <2>. QED
    BY <2>1, <2>5
<1>6. n \in S
  <2> HIDE DEF S
  <2>. QED
    BY <1>4
<1>. QED
  BY <1>5, <1>6

------------------------------------------------------------------------------
(* What a rule knows *)

\* Texts that begin alike have the same words as far as that.
LEMMA WordAgree ==
  ASSUME NEW r, NEW w, NEW v, NEW n \in Nat, \A k \in 1 .. n : w[k] = v[k]
  PROVE  /\ \A k \in 0 .. n : Reaches(r, w, k) = Reaches(r, v, k)
         /\ \A m \in 0 .. n : IsWord(r, w, m) <=> IsWord(r, v, m)
<1>1. ASSUME NEW k \in 0 .. n PROVE Reaches(r, w, k) = Reaches(r, v, k)
  <2>1. k \in Nat /\ \A j \in 1 .. k : w[j] = v[j]
    BY <1>1
  <2>. QED
    BY <2>1, ReachesAgree
<1>2. ASSUME NEW m \in 0 .. n PROVE IsWord(r, w, m) <=> IsWord(r, v, m)
  <2>1. \A k \in 0 .. m - 1 : k \in 0 .. n
    BY <1>2
  <2>. QED
    BY <1>1, <2>1 DEF IsWord
<1>. QED
  BY <1>1, <1>2

\* Whether a rule stopped depends on the characters it was fed.
LEMMA StoppedAgree ==
  ASSUME NEW r, NEW before, NEW w, NEW v, NEW n \in Nat, \A k \in 1 .. n : w[k] = v[k]
  PROVE  Stopped(r, before, w, n) <=> Stopped(r, before, v, n)
<1>1. \A k \in 0 .. n : Reaches(r, w, k) = Reaches(r, v, k)
  BY WordAgree
<1>2. \A k \in 0 .. n - 1 : k \in 0 .. n
  OBVIOUS
<1>3. n \in 0 .. n
  OBVIOUS
<1>. QED
  BY <1>1, <1>2, <1>3 DEF Stopped

\* What a rule knows depends on the characters it was fed.
LEMMA KnowsAgree ==
  ASSUME NEW r, NEW s, NEW before, NEW w, NEW v, NEW n \in Nat, s.match_len \in Nat,
         \A k \in 1 .. n : w[k] = v[k], Knows(r, s, before, w, n)
  PROVE  Knows(r, s, before, v, n)
<1>1. /\ \A k \in 0 .. n : Reaches(r, w, k) = Reaches(r, v, k)
      /\ \A m \in 0 .. n : IsWord(r, w, m) <=> IsWord(r, v, m)
  BY WordAgree
<1>2. Stopped(r, before, w, n) <=> Stopped(r, before, v, n)
  BY StoppedAgree
<1>3. /\ \A k \in 0 .. n - 1 : k \in 0 .. n
      /\ \A k \in 1 .. n : k \in 0 .. n
      /\ n \in 0 .. n
  OBVIOUS
<1>4. s.match_len \in 0 .. n
  BY DEF Knows
<1>. QED
  BY <1>1, <1>2, <1>3, <1>4 DEF Knows

\* Where a rule has stopped, no word ends later on.
LEMMA StoppedMore ==
  ASSUME NEW r \in Rule, NEW before, NEW w, NEW n \in Nat, NEW m \in Nat, n <= m,
         \A k \in 1 .. m : w[k] \in Char, Stopped(r, before, w, n)
  PROVE  /\ Stopped(r, before, w, m)
         /\ n < m /\ before \in Shape[r].after => ~IsWord(r, w, m)
<1>1. CASE before \notin Shape[r].after
  BY <1>1 DEF Stopped
<1>2. CASE Reaches(r, w, n) \in Shape[r].dead
  <2>1. n \in 0 .. m
    OBVIOUS
  <2>2. Reaches(r, w, m) \in Shape[r].dead
    BY <1>2, <2>1, ReachesStates
  <2>3. Reaches(r, w, m) \notin Shape[r].final
    BY <2>2, ShapeFacts
  <2>. QED
    BY <2>2, <2>3 DEF Stopped, IsWord
<1>3. CASE Shape[r].first /\ \E k \in 0 .. n - 1 : Reaches(r, w, k) \in Shape[r].final
  <2>1. PICK k \in 0 .. n - 1 : Reaches(r, w, k) \in Shape[r].final
    BY <1>3
  <2>2. k \in 0 .. m - 1
    BY <2>1
  <2>. QED
    BY <1>3, <2>1, <2>2 DEF Stopped, IsWord
<1>. QED
  BY <1>1, <1>2, <1>3 DEF Stopped

\* A dead rule knows the whole text, whatever is still to come.
LEMMA DeadKnows ==
  ASSUME NEW r \in Rule, NEW s, NEW before, NEW w, NEW n \in Nat, NEW m \in Nat, n <= m,
         s.match_len \in Nat,
         \A k \in 1 .. m : w[k] \in Char, Dead(r, s), Knows(r, s, before, w, n)
  PROVE  Knows(r, s, before, w, m)
<1>1. Stopped(r, before, w, n)
  BY DEF Knows
<1>2. Stopped(r, before, w, m)
  BY <1>1, StoppedMore
<1>3. ASSUME before \in Shape[r].after, NEW j \in 1 .. m, IsWord(r, w, j)
      PROVE  j <= s.match_len
  <2>1. CASE j <= n
    <3>1. j \in 1 .. n
      BY <2>1
    <3>. QED
      BY <1>3, <3>1 DEF Knows
  <2>2. CASE n < j
    <3>1. j \in Nat /\ n <= j /\ \A k \in 1 .. j : w[k] \in Char
      BY <2>2
    <3>. QED
      BY <1>1, <1>3, <2>2, <3>1, StoppedMore
  <2>. QED
    BY <2>1, <2>2
<1>4. s.match_len <= m
  <2>1. s.match_len <= n
    BY DEF Knows
  <2>. QED
    BY <2>1
<1>. QED
  BY <1>2, <1>3, <1>4 DEF Knows

\* A rule that begins anew.
LEMMA ResetKnows ==
  ASSUME NEW r \in Rule, NEW before, NEW w
  PROVE  Knows(r, RuleReset(r, before), before, w, 0)
<1> DEFINE s == RuleReset(r, before)
<1>1. s.match_len = 0 /\ s.feed_len = 0 /\ s.q = Shape[r].start
      /\ (s.off <=> before \notin Shape[r].after)
  BY DEF RuleReset
<1>2. Reaches(r, w, 0) = Shape[r].start
  BY ReachesNext
<1> HIDE DEF s
<1>3. Dead(r, s) => Stopped(r, before, w, 0)
  BY <1>1, <1>2 DEF Dead, Stopped
<1>4. ~Dead(r, s) => before \in Shape[r].after
  BY <1>1 DEF Dead
<1>5. Knows(r, s, before, w, 0)
  BY <1>1, <1>2, <1>3, <1>4 DEF Knows
<1>. QED
  BY <1>5 DEF s

\* feed() and match(), field by field.
LEMMA FedFields ==
  ASSUME NEW r \in Rule, NEW s \in RuleState(r), NEW c, ~Dead(r, s)
  PROVE  LET f    == Fed(r, s, c)
             stop == Shape[r].first /\ s.q \in Shape[r].final
         IN  /\ stop => /\ f.off /\ f.match_len = s.match_len
             /\ ~stop => /\ ~f.off /\ f.q = Move(r, s.q, c)
                         /\ f.feed_len = s.feed_len + 1
                         /\ f.match_len = IF Move(r, s.q, c) \in Shape[r].final
                                          THEN s.feed_len + 1 ELSE s.match_len
<1> DEFINE g == [s EXCEPT !.feed_len = @ + 1]
           f == Feed(r, g, c)
           stop == Shape[r].first /\ s.q \in Shape[r].final
<1>1. /\ g \in RuleState(r) /\ g.feed_len = s.feed_len + 1 /\ g.match_len = s.match_len
      /\ g.q = s.q /\ g.off = s.off /\ ~s.off
      /\ s.feed_len \in Nat /\ s.match_len \in Nat
  BY DEF RuleState, Dead
<1>2. Match(r, g) <=> s.q \in Shape[r].final
  BY <1>1 DEF Match
<1> HIDE DEF g
<1>3. CASE stop
  <2>1. f = [g EXCEPT !.off = TRUE]
    BY <1>2, <1>3, Zenon DEF Feed
  <2>2. f.off /\ f.match_len = s.match_len
    BY <1>1, <2>1 DEF RuleState
  <2> HIDE DEF f
  <2>3. ~Match(r, f)
    BY <2>2 DEF Match
  <2>4. Fed(r, s, c) = f
    BY <2>3, Zenon DEF Fed, f, g
  <2>. QED
    BY <1>3, <2>2, <2>4
<1>4. CASE ~stop
  <2> DEFINE q == Move(r, s.q, c)
             n == IF q \notin Shape[r].dead /\ g.q \notin Shape[r].spare
                  THEN g.stored + 1 ELSE g.stored
  <2>1. f = [g EXCEPT !.q = q, !.stored = n]
    <3>1. ~(Shape[r].first /\ Match(r, g))
      BY <1>2, <1>4
    <3>2. Move(r, g.q, c) = q
      BY <1>1
    <3>. QED
      BY <3>1, <3>2, Zenon DEF Feed, Move
  <2>2. f.q = q /\ ~f.off /\ f.feed_len = s.feed_len + 1 /\ f.match_len = s.match_len
    <3> HIDE DEF f, q, n
    <3>. QED
      BY <1>1, <2>1 DEF RuleState
  <2> HIDE DEF f, n
  <2>3. Match(r, f) <=> q \in Shape[r].final
    BY <2>2 DEF Match
  <2>4. Fed(r, s, c) = IF Match(r, f) THEN [f EXCEPT !.match_len = f.feed_len] ELSE f
    BY Zenon DEF Fed, f, g
  <2>5. CASE Match(r, f)
    <3>1. Fed(r, s, c) = [f EXCEPT !.match_len = f.feed_len]
      BY <2>4, <2>5
    <3>2. f = [g EXCEPT !.q = q, !.stored = n]
      BY <2>1
    <3>3. DOMAIN f = {"q", "off", "feed_len", "match_len", "stored"}
      BY <1>1, <3>2 DEF RuleState
    <3> HIDE DEF q
    <3>. QED
      BY <1>4, <2>2, <2>3, <2>5, <3>1, <3>3 DEF q
  <2>6. CASE ~Match(r, f)
    BY <1>4, <2>2, <2>3, <2>4, <2>6
  <2>. QED
    BY <2>5, <2>6
<1>. QED
  BY <1>3, <1>4

\* One more character.
LEMMA FedKnows ==
  ASSUME NEW r \in Rule, NEW s \in RuleState(r), NEW before, NEW w, NEW n \in Nat,
         \A k \in 1 .. n + 1 : w[k] \in Char, Knows(r, s, before, w, n)
  PROVE  Knows(r, Fed(r, s, w[n + 1]), before, w, n + 1)
<1> DEFINE c == w[n + 1]
           f == Fed(r, s, c)
           Q(k) == Reaches(r, w, k)
<1>1. CASE Dead(r, s)
  <2>1. f = s
    BY <1>1, Zenon DEF Fed
  <2>2. s.match_len \in Nat
    BY DEF RuleState
  <2>3. n <= n + 1 /\ n + 1 \in Nat
    OBVIOUS
  <2> HIDE DEF f
  <2>4. Knows(r, s, before, w, n + 1)
    BY <1>1, <2>2, <2>3, DeadKnows
  <2>. QED
    BY <2>1, <2>4 DEF f
<1>2. CASE ~Dead(r, s)
  <2>1. /\ before \in Shape[r].after /\ s.q = Q(n) /\ s.feed_len = n
        /\ Shape[r].first => \A k \in 0 .. n - 1 : Q(k) \notin Shape[r].final
        /\ s.match_len <= n /\ s.match_len \in Nat
        /\ (s.match_len > 0 /\ Shape[r].spare = {}) => IsWord(r, w, s.match_len)
        /\ \A m \in 1 .. n : IsWord(r, w, m) => m <= s.match_len
    BY <1>2 DEF Knows, RuleState
  <2> DEFINE stop == Shape[r].first /\ Q(n) \in Shape[r].final
  <2>2. Q(n + 1) = Move(r, Q(n), c)
    BY ReachesNext
  <2>3. /\ stop => f.off /\ f.match_len = s.match_len
        /\ ~stop => /\ ~f.off /\ f.q = Q(n + 1) /\ f.feed_len = n + 1
                    /\ f.match_len = IF Q(n + 1) \in Shape[r].final
                                     THEN n + 1 ELSE s.match_len
    BY <1>2, <2>1, <2>2, FedFields
  <2>4. n \in 0 .. (n + 1) - 1
    OBVIOUS
  <2>5. Shape[r].final \cap Shape[r].dead = {}
    BY ShapeFacts
  <2> HIDE DEF f, c, Q
  <2>6. CASE stop
    <3>1. ~IsWord(r, w, n + 1)
      BY <2>4, <2>6 DEF IsWord, Q
    <3>2. Stopped(r, before, w, n + 1)
      BY <2>4, <2>6 DEF Stopped, Q
    <3>3. Dead(r, f)
      BY <2>3, <2>6 DEF Dead
    <3>4. \A m \in 1 .. n + 1 : IsWord(r, w, m) => m <= f.match_len
      BY <2>1, <2>3, <2>6, <3>1
    <3>5. Knows(r, f, before, w, n + 1)
      BY <2>1, <2>3, <2>6, <3>2, <3>3, <3>4 DEF Knows
    <3>. QED
      BY <3>5 DEF f, c
  <2>7. CASE ~stop
    <3>1. Shape[r].first => \A k \in 0 .. (n + 1) - 1 : Q(k) \notin Shape[r].final
      BY <2>1, <2>7
    <3>2. Dead(r, f) <=> Q(n + 1) \in Shape[r].dead
      BY <2>3, <2>7 DEF Dead
    <3>3. Dead(r, f) => Stopped(r, before, w, n + 1)
      BY <3>2 DEF Stopped, Q
    <3>4. CASE Q(n + 1) \in Shape[r].final
      <4>1. f.match_len = n + 1 /\ ~Dead(r, f)
        BY <2>3, <2>5, <2>7, <3>2, <3>4
      <4>2. Shape[r].spare = {} => IsWord(r, w, n + 1)
        BY <3>1, <3>4 DEF IsWord, Q
      <4>3. Knows(r, f, before, w, n + 1)
        BY <2>1, <2>3, <2>7, <3>1, <4>1, <4>2 DEF Knows, Q
      <4>. QED
        BY <4>3 DEF f, c
    <3>5. CASE Q(n + 1) \notin Shape[r].final
      <4>1. f.match_len = s.match_len
        BY <2>3, <2>7, <3>5
      <4>2. ~IsWord(r, w, n + 1)
        BY <3>5 DEF IsWord, Q
      <4>3. \A m \in 1 .. n + 1 : IsWord(r, w, m) => m <= f.match_len
        BY <2>1, <4>1, <4>2
      <4>4. Knows(r, f, before, w, n + 1)
        BY <2>1, <2>3, <2>7, <3>1, <3>3, <4>1, <4>3 DEF Knows, Q
      <4>. QED
        BY <4>4 DEF f, c
    <3>. QED
      BY <3>4, <3>5
  <2>. QED
    BY <2>6, <2>7
<1>. QED
  BY <1>1, <1>2

------------------------------------------------------------------------------
(* What is shown to the caller *)

Showing(s, k, x) == IF s[k].tok.kind = Skip THEN x ELSE Append(x, s[k])

Shows(s, n, f) ==
  f = [k \in 0 .. n |-> IF k = 0 THEN << >> ELSE Showing(s, k, f[k - 1])]

\* There is a history of what is shown of every sequence of cuts.
LEMMA ShowsExist ==
  ASSUME NEW s, NEW b \in Nat
  PROVE  \E f : Shows(s, b, f)
<1> DEFINE S == {n \in Nat : \E f : Shows(s, n, f)}
<1>1. 0 \in S
  <2>1. Shows(s, 0, [k \in 0 .. 0 |-> << >>])
    BY DEF Shows
  <2>. QED
    BY <2>1
<1>2. ASSUME NEW n \in S PROVE n + 1 \in S
  <2>1. PICK f : Shows(s, n, f)
    BY <1>2
  <2> DEFINE g == [k \in 0 .. n + 1 |-> IF k = n + 1 THEN Showing(s, n + 1, f[n])
                                        ELSE f[k]]
  <2>2. n \in Nat /\ n + 1 \in Nat
    OBVIOUS
  <2>3. ASSUME NEW k \in 0 .. n + 1
        PROVE  g[k] = IF k = 0 THEN << >> ELSE Showing(s, k, g[k - 1])
    <3>1. CASE k = n + 1
      <4>1. k # 0 /\ k - 1 = n /\ n \in 0 .. n + 1 /\ n # n + 1
        BY <2>2, <3>1
      <4>2. g[k - 1] = f[n]
        BY <4>1
      <4>. QED
        BY <3>1, <4>1, <4>2
    <3>2. CASE k # n + 1
      <4>1. k \in 0 .. n /\ (k # 0 => k - 1 \in 0 .. n + 1 /\ k - 1 # n + 1)
        BY <2>2, <3>2
      <4>2. g[k] = f[k] /\ (k # 0 => g[k - 1] = f[k - 1])
        BY <4>1, <3>2
      <4>3. f[k] = IF k = 0 THEN << >> ELSE Showing(s, k, f[k - 1])
        BY <4>1, <2>1 DEF Shows
      <4>. QED
        BY <4>2, <4>3
    <3>. QED
      BY <3>1, <3>2
  <2>4. Shows(s, n + 1, g)
    <3>1. g = [k \in 0 .. n + 1 |-> g[k]]
      OBVIOUS
    <3> HIDE DEF g
    <3>. QED
      BY <2>3, <3>1 DEF Shows
  <2>. QED
    BY <2>2, <2>4
<1>3. 0 .. b \subseteq S
  <2> HIDE DEF S
  <2>. QED
    BY <1>1, <1>2, Induction
<1>. QED
  BY <1>3

\* Two histories of cuts that begin alike.
LEMMA ShowsAgree ==
  ASSUME NEW s, NEW v, NEW n \in Nat, NEW m \in Nat, NEW f, NEW g,
         Shows(s, n, f), Shows(v, m, g),
         NEW b \in Nat, b <= n, b <= m, \A k \in 1 .. b : s[k] = v[k]
  PROVE  f[b] = g[b]
<1> DEFINE S == {k \in 0 .. b : f[k] = g[k]}
<1>1. /\ \A k \in 0 .. n : f[k] = IF k = 0 THEN << >> ELSE Showing(s, k, f[k - 1])
      /\ \A k \in 0 .. m : g[k] = IF k = 0 THEN << >> ELSE Showing(v, k, g[k - 1])
  BY DEF Shows
<1>2. 0 \in S
  <2>1. 0 \in 0 .. n /\ 0 \in 0 .. m /\ 0 \in 0 .. b
    OBVIOUS
  <2>. QED
    BY <1>1, <2>1
<1>3. ASSUME NEW k \in S, k + 1 <= b PROVE k + 1 \in S
  <2>1. k \in Nat /\ k + 1 \in 0 .. n /\ k + 1 \in 0 .. m /\ k + 1 \in 1 .. b /\ k + 1 \in 0 .. b
        /\ k + 1 # 0 /\ (k + 1) - 1 = k /\ f[k] = g[k]
    BY <1>3
  <2>2. Showing(s, k + 1, f[k]) = Showing(v, k + 1, g[k])
    BY <2>1 DEF Showing
  <2>3. f[k + 1] = Showing(s, k + 1, f[k]) /\ g[k + 1] = Showing(v, k + 1, g[k])
    BY <1>1, <2>1
  <2>. QED
    BY <2>1, <2>2, <2>3
<1>4. 0 .. b \subseteq S
  <2> HIDE DEF S
  <2>. QED
    BY <1>2, <1>3, Induction
<1>. QED
  BY <1>4

\* Shown is the end of such a history.
LEMMA ShownShows ==
  ASSUME NEW s, Len(s) \in Nat
  PROVE  \E f : Shows(s, Len(s), f) /\ Shown(s) = f[Len(s)]
<1>1. Shown(s) = (CHOOSE f : Shows(s, Len(s), f))[Len(s)]
  BY Zenon DEF Shown, Shows, Showing
<1>. QED
  BY <1>1, ShowsExist

\* Of no cuts nothing is shown.
LEMMA ShownNone == Shown(<< >>) = << >>
<1>1. Len(<< >>) = 0 /\ 0 \in Nat
  OBVIOUS
<1>2. PICK f : Shows(<< >>, 0, f) /\ Shown(<< >>) = f[0]
  BY <1>1, ShownShows
<1>3. f[0] = << >>
  BY <1>2 DEF Shows
<1>. QED
  BY <1>2, <1>3

\* What is shown of one more token.
LEMMA ShownAppend ==
  ASSUME NEW S, NEW s \in Seq(S), NEW t \in S
  PROVE  Shown(Append(s, t)) =
           IF t.tok.kind = Skip THEN Shown(s) ELSE Append(Shown(s), t)
<1> DEFINE n == Len(s)
           u == Append(s, t)
           m == Len(u)
<1>1. n \in Nat /\ m \in Nat /\ m = n + 1 /\ u[m] = t /\ (\A k \in 1 .. n : s[k] = u[k])
      /\ n <= n /\ n <= m /\ m \in 0 .. m /\ m # 0 /\ m - 1 = n
  OBVIOUS
<1> HIDE DEF u
<1>2. PICK f : Shows(s, n, f) /\ Shown(s) = f[n]
  BY <1>1, ShownShows
<1>3. PICK g : Shows(u, m, g) /\ Shown(u) = g[m]
  BY <1>1, ShownShows
<1> HIDE DEF n, m
<1>4. f[n] = g[n]
  BY <1>1, <1>2, <1>3, ShowsAgree
<1>5. g[m] = Showing(u, m, g[n])
  BY <1>1, <1>3 DEF Shows
<1>6. Shown(u) = IF t.tok.kind = Skip THEN Shown(s) ELSE Append(Shown(s), t)
  BY <1>1, <1>2, <1>3, <1>4, <1>5 DEF Showing
<1>. QED
  BY <1>6 DEF u

\* What is shown is made of the cuts.
LEMMA ShownSeq ==
  ASSUME NEW S, NEW s \in Seq(S)
  PROVE  Shown(s) \in Seq(S)
<1> DEFINE n == Len(s)
<1>1. n \in Nat /\ \A k \in 1 .. n : s[k] \in S
  OBVIOUS
<1>2. PICK f : Shows(s, n, f) /\ Shown(s) = f[n]
  BY <1>1, ShownShows
<1> HIDE DEF n
<1> DEFINE D == {k \in 0 .. n : f[k] \in Seq(S)}
<1>3. \A k \in 0 .. n : f[k] = IF k = 0 THEN << >> ELSE Showing(s, k, f[k - 1])
  BY <1>2 DEF Shows
<1>4. 0 \in D
  <2>1. 0 \in 0 .. n
    BY <1>1
  <2>2. f[0] = << >>
    BY <1>3, <2>1
  <2>3. f[0] \in Seq(S)
    BY <2>2, EmptySeq
  <2>. QED
    BY <2>1, <2>3
<1>5. ASSUME NEW k \in D, k + 1 <= n PROVE k + 1 \in D
  <2>1. k + 1 \in 0 .. n /\ k + 1 \in 1 .. n /\ k + 1 # 0 /\ (k + 1) - 1 = k /\ f[k] \in Seq(S)
    BY <1>1, <1>5
  <2>2. f[k + 1] = Showing(s, k + 1, f[k]) /\ s[k + 1] \in S
    BY <1>1, <1>3, <2>1
  <2>3. CASE s[k + 1].tok.kind = Skip
    BY <2>1, <2>2, <2>3 DEF Showing
  <2>4. CASE s[k + 1].tok.kind # Skip
    <3>1. f[k + 1] = Append(f[k], s[k + 1])
      BY <2>2, <2>4 DEF Showing
    <3>2. Append(f[k], s[k + 1]) \in Seq(S)
      BY <2>1, <2>2, AppendProperties
    <3>3. f[k + 1] \in Seq(S)
      BY <3>1, <3>2, Zenon
    <3>. QED
      BY <2>1, <3>3
  <2>. QED
    BY <2>3, <2>4
<1>6. 0 .. n \subseteq D
  <2> HIDE DEF D
  <2>. QED
    BY <1>1, <1>4, <1>5, Induction
<1>. QED
  BY <1>1, <1>2, <1>6

\* The tokens shown, when one more is cut.
LEMMA ToksAppend ==
  ASSUME NEW s \in Seq(Cut), NEW t \in Cut
  PROVE  /\ Toks(s) \in Seq(Token)
         /\ Toks(Append(s, t)) = IF t.tok.kind = Skip THEN Toks(s)
                                 ELSE Append(Toks(s), t.tok)
<1> DEFINE h == Shown(s)
<1>1. h \in Seq(Cut)
  BY ShownSeq
<1>2. Shown(Append(s, t)) = IF t.tok.kind = Skip THEN h ELSE Append(h, t)
  BY ShownAppend
<1> HIDE DEF h
<1>3. [i \in DOMAIN h |-> h[i].tok] \in Seq(Token)
  <2>1. Len(h) \in Nat /\ DOMAIN h = 1 .. Len(h) /\ \A i \in 1 .. Len(h) : h[i] \in Cut
    BY <1>1
  <2>2. \A i \in 1 .. Len(h) : h[i].tok \in Token
    BY <2>1 DEF Cut
  <2>. QED
    BY <2>1, <2>2
<1>4. CASE t.tok.kind = Skip
  BY <1>2, <1>3, <1>4 DEF Toks, h
<1>5. CASE t.tok.kind # Skip
  <2> DEFINE a == Append(h, t)
             b == [i \in DOMAIN h |-> h[i].tok]
             e == [i \in DOMAIN a |-> a[i].tok]
  <2>1. /\ Len(h) \in Nat /\ DOMAIN h = 1 .. Len(h)
        /\ DOMAIN a = 1 .. Len(h) + 1 /\ a[Len(h) + 1] = t
        /\ \A i \in 1 .. Len(h) : a[i] = h[i]
    BY <1>1
  <2>2. Append(b, t.tok) = [i \in 1 .. Len(h) + 1 |-> IF i <= Len(h) THEN b[i] ELSE t.tok]
    <3>1. b \in Seq(Token) /\ Len(b) = Len(h)
      BY <1>3, <2>1
    <3> HIDE DEF b
    <3>. QED
      BY <3>1, <2>1
  <2> HIDE DEF a
  <2>3. e = Append(b, t.tok)
    BY <2>1, <2>2
  <2>. QED
    BY <1>2, <1>3, <1>5, <2>3 DEF Toks, h, a
<1>. QED
  BY <1>4, <1>5

\* The kind of the last token shown.
LastOf(s, since) ==
  LET shown == Shown(s) IN IF shown = << >> THEN since ELSE shown[Len(shown)].tok.kind

\* The last token shown, when one more is cut.
LEMMA LastOfAppend ==
  ASSUME NEW s \in Seq(Cut), NEW t \in Cut, NEW since
  PROVE  /\ LastOf(<< >>, since) = since
         /\ LastOf(Append(s, t), since) = IF t.tok.kind = Skip THEN LastOf(s, since)
                                          ELSE t.tok.kind
<1> DEFINE h == Shown(s)
<1>1. h \in Seq(Cut)
  BY ShownSeq
<1>2. Shown(Append(s, t)) = IF t.tok.kind = Skip THEN h ELSE Append(h, t)
  BY ShownAppend
<1> HIDE DEF h
<1>3. Append(h, t) # << >> /\ Append(h, t)[Len(Append(h, t))] = t
  BY <1>1
<1>. QED
  BY <1>2, <1>3, ShownNone DEF LastOf, h

\* What is before the i-th token is so when there is one more behind it.
LEMMA Prefixes ==
  ASSUME NEW S, NEW s \in Seq(S), NEW t \in S
  PROVE  /\ SubSeq(s, 1, (Len(s) + 1) - 1) = s
         /\ \A i \in 1 .. Len(s) : SubSeq(Append(s, t), 1, i - 1) = SubSeq(s, 1, i - 1)
         /\ SubSeq(Append(s, t), 1, (Len(s) + 1) - 1) = s
<1> DEFINE n == Len(s)
           a == Append(s, t)
<1>1. n \in Nat /\ (n + 1) - 1 = n /\ a \in Seq(S) /\ Len(a) = n + 1
      /\ \A i \in 1 .. n : a[i] = s[i]
  BY AppendProperties
<1>2. SubSeq(s, 1, n) = s
  OBVIOUS
<1> HIDE DEF n, a
<1>3. ASSUME NEW i \in 0 .. n PROVE SubSeq(a, 1, i) = SubSeq(s, 1, i)
  <2>1. \A j \in 1 .. i : a[j] = s[j]
    BY <1>1
  <2>2. SubSeq(a, 1, i) = [j \in 1 .. i |-> a[j]] /\ SubSeq(s, 1, i) = [j \in 1 .. i |-> s[j]]
    BY <1>1 DEF n
  <2>. QED
    BY <2>1, <2>2
<1>. QED
  BY <1>1, <1>2, <1>3 DEF n, a

------------------------------------------------------------------------------
(* The turns of the loops *)

\* The text not yet taken is that of the cache.
LEMMA UnreadFacts ==
  ASSUME IInv
  PROVE  /\ Unread \in Seq(Char) /\ Len(Unread) = Len(cache)
         /\ Len(text) - Len(cache) \in Nat
         /\ \A i \in 1 .. Len(cache) :
               /\ Unread[i] = cache[i].char /\ Unread[i] \in Char
               /\ Unread[i] = text[(Len(text) - Len(cache)) + i]
<1>1. text \in Seq(Char) /\ cache \in Seq(Entry) /\ taken \in Seq(Cut) /\ CutsTile
  BY DEF IInv, TypeOK, Entry, Cut
<1>2. Tiles(text, cache, taken) /\ Done(taken) \in Nat
  BY <1>1, CutsTileIsTiles, DoneNat
<1> DEFINE d == Len(text) - Len(cache)
<1>3. /\ d \in Nat /\ d = Done(taken) /\ d <= Len(text) /\ Len(text) - d = Len(cache)
      /\ Len(cache) \in Nat
      /\ \A i \in 1 .. Len(cache) : cache[i].char = text[d + i]
  <2>1. Len(text) \in Nat /\ Len(cache) \in Nat /\ DOMAIN cache = 1 .. Len(cache)
    BY <1>1
  <2>2. Len(text) = Len(cache) + Done(taken)
    BY <1>2 DEF Tiles
  <2>3. d = Done(taken)
    BY <1>2, <2>1, <2>2
  <2>4. \A i \in 1 .. Len(cache) : cache[i].char = text[d + i]
    BY <1>2, <2>1, <2>3 DEF Tiles
  <2> HIDE DEF d
  <2>. QED
    BY <1>2, <2>1, <2>2, <2>3, <2>4
<1>4. /\ Unread \in Seq(Char) /\ Len(Unread) = Len(text) - d
      /\ \A i \in 1 .. Len(text) - d : Unread[i] = text[d + i]
  BY <1>1, <1>3, Suffix DEF Unread, Rest
<1>5. ASSUME NEW i \in 1 .. Len(cache) PROVE Unread[i] = cache[i].char /\ Unread[i] \in Char
  <2> HIDE DEF d
  <2>1. Unread[i] = text[d + i] /\ Len(Unread) = Len(cache)
    BY <1>3, <1>4
  <2>2. Unread[i] \in Char
    BY <1>4, <2>1
  <2>. QED
    BY <1>3, <2>1, <2>2
<1>. QED
  BY <1>3, <1>4, <1>5

\* The characters in the cache are the last of the text.
LEMMA UnreadPlaces ==
  IInv => \A i \in 1 .. Len(cache) : Unread[i] = text[(Len(text) - Len(cache)) + i]
BY UnreadFacts

\* A step in which no rule learns anything.
LEMMA QuietKnow ==
  ASSUME RulesKnow, LastKnown, UNCHANGED <<rule, major, last, cache, text, taken, first>>,
         \A r \in Rule : Visible(r) => FedSoFar(r)' = FedSoFar(r)
  PROVE  RulesKnow' /\ LastKnown'
<1>1. LastKnown'
  BY DEF LastKnown, LastBefore
<1>2. Unread' = Unread
  BY DEF Unread, Rest
<1>3. ASSUME NEW r \in Rule, Visible(r)'
      PROVE  Knows(r, rule[r], last, Unread, FedSoFar(r))'
  <2>1. Visible(r)
    BY <1>3 DEF Visible
  <2>2. Knows(r, rule[r], last, Unread, FedSoFar(r))
    BY <2>1 DEF RulesKnow
  <2>. QED
    BY <1>2, <2>1, <2>2
<1>4. RulesKnow'
  BY <1>3 DEF RulesKnow
<1>. QED
  BY <1>1, <1>4

\* The loop over the cache.
LEMMA ScanWords ==
  ASSUME IInv, Words, ScanNext \/ ScanDone
  PROVE  Words'
<1>1. /\ pc = "scan" /\ UNCHANGED <<rule, major, last, cache, m_pos, text, taken, first>>
      /\ pc' \in {"class", "end", "idle"}
      /\ pc' = "class" => cls' = 1 /\ cache_pos' = cache_pos /\ outcome' = outcome
      /\ pc' = "end" => outcome' = outcome /\ cache_pos > Len(cache)
      /\ pc' = "idle" => outcome' = "fed" /\ cache_pos > Len(cache)
  BY DEF ScanNext, ScanDone, Return, Fixed
<1>2. \A r \in Rule : FedSoFar(r)' = FedSoFar(r)
  BY <1>1, Parts DEF FedSoFar
<1>3. RulesKnow' /\ LastKnown'
  BY <1>1, <1>2, QuietKnow DEF Words
<1>4. DeadSoFar'
  BY <1>1, Parts DEF DeadSoFar
<1>5. GivenUp'
  BY <1>1 DEF Words, GivenUp, Errors
<1>. QED
  BY <1>3, <1>4, <1>5 DEF Words

\* A class beyond the limit, or one that is done with.
LEMMA NextClassWords ==
  ASSUME IInv, Words, SkipClass \/ PassClass
  PROVE  Words'
<1>1. /\ pc' = "class" /\ cls' = cls + 1
      /\ UNCHANGED <<rule, major, last, cache, m_pos, text, taken, first, cache_pos, outcome>>
      /\ SkipClass => /\ pc = "class" /\ major # 0 /\ major < cls
                      /\ prevs_is_dead' = prevs_is_dead
      /\ PassClass => /\ pc = "judge"
                      /\ prevs_is_dead' = (prevs_is_dead /\ CurrentIsDead(cls))
  BY DEF SkipClass, PassClass, Fixed
<1>2. \A r \in Rule : Visible(r) => FedSoFar(r)' = FedSoFar(r)
  <2>1. SUFFICES ASSUME NEW r \in Rule, Visible(r) PROVE FedSoFar(r)' = FedSoFar(r)
    OBVIOUS
  <2>2. ClassOf(r) \in Nat /\ cls \in Nat /\ major \in Nat
    BY Parts
  <2>3. CASE SkipClass
    <3>1. ClassOf(r) < cls /\ ClassOf(r) < cls + 1
      BY <1>1, <2>1, <2>2, <2>3 DEF Visible
    <3>. QED
      BY <1>1, <2>3, <3>1 DEF FedSoFar
  <2>4. CASE PassClass
    <3>1. ClassOf(r) <= cls <=> ClassOf(r) < cls + 1
      BY <2>2
    <3>. QED
      BY <1>1, <2>4, <3>1 DEF FedSoFar
  <2>. QED
    BY <2>3, <2>4
<1>3. RulesKnow' /\ LastKnown'
  BY <1>1, <1>2, QuietKnow DEF Words
<1>4. DeadSoFar'
  <2>1. SUFFICES ASSUME prevs_is_dead', NEW r \in Rule, ClassOf(r) < cls + 1, Visible(r)
                 PROVE  Dead(r, rule[r])
    BY <1>1 DEF DeadSoFar, Visible
  <2>2. ClassOf(r) \in Nat /\ cls \in Nat /\ major \in Nat /\ cls \in 1 .. LastClass + 1
    BY Parts
  <2>3. prevs_is_dead /\ pc \in {"class", "judge"}
    BY <1>1, <2>1
  <2>4. CASE ClassOf(r) < cls
    BY <2>1, <2>3, <2>4 DEF Words, DeadSoFar
  <2>5. CASE ClassOf(r) = cls /\ SkipClass
    BY <1>1, <2>1, <2>2, <2>5 DEF Visible
  <2>6. CASE ClassOf(r) = cls /\ PassClass
    <3>1. CurrentIsDead(cls)
      BY <1>1, <2>1, <2>6
    <3>2. r \in InClass(cls)
      BY <2>6 DEF InClass
    <3>. QED
      BY <3>1, <3>2 DEF CurrentIsDead
  <2>. QED
    BY <2>1, <2>2, <2>4, <2>5, <2>6
<1>5. GivenUp'
  BY <1>1 DEF Words, GivenUp, Errors
<1>. QED
  BY <1>3, <1>4, <1>5 DEF Words

\* A class is fed the character at cache_pos.
LEMMA FeedClassWords ==
  ASSUME IInv, Words, FeedClass
  PROVE  Words'
<1> DEFINE c == cache[cache_pos].char
<1>1. /\ pc = "class" /\ pc' = "judge" /\ cls <= LastClass /\ cls' = cls
      /\ major = 0 \/ cls <= major
      /\ rule' = [r \in Rule |-> IF ClassOf(r) = cls THEN Fed(r, rule[r], c) ELSE rule[r]]
      /\ major' = major \/ major' = cls
      /\ UNCHANGED <<last, cache, m_pos, text, taken, first, cache_pos, outcome,
                     prevs_is_dead>>
  BY DEF FeedClass, Fixed
<1>2. /\ cls \in Nat \ {0} /\ major \in Nat /\ cache_pos \in Nat \ {0}
      /\ cache_pos <= Len(cache) /\ Len(cache) \in Nat
      /\ \A r \in Rule : ClassOf(r) \in Nat /\ rule[r] \in RuleState(r)
  BY <1>1, Parts
<1>3. /\ \A i \in 1 .. cache_pos : Unread[i] \in Char
      /\ Unread[cache_pos] = c
  BY <1>2, UnreadFacts
<1>4. \A r \in Rule : Visible(r)' => Visible(r)
  BY <1>1, <1>2 DEF Visible
<1>5. Unread' = Unread
  BY <1>1 DEF Unread, Rest
<1>6. RulesKnow'
  <2>1. SUFFICES ASSUME NEW r \in Rule, Visible(r)'
                 PROVE  Knows(r, rule'[r], last, Unread, FedSoFar(r)')
    BY <1>1, <1>5 DEF RulesKnow
  <2>2. Knows(r, rule[r], last, Unread, FedSoFar(r))
    BY <1>4, <2>1 DEF Words, RulesKnow
  <2>3. CASE ClassOf(r) = cls
    <3> DEFINE n == cache_pos - 1
    <3>1. FedSoFar(r) = n /\ n \in Nat /\ n + 1 = cache_pos
      BY <1>1, <1>2, <2>3 DEF FedSoFar
    <3>2. FedSoFar(r)' = cache_pos
      BY <1>1, <1>2, <2>3 DEF FedSoFar
    <3> HIDE DEF n, c
    <3>3. Knows(r, Fed(r, rule[r], Unread[n + 1]), last, Unread, n + 1)
      BY <1>2, <1>3, <2>2, <3>1, FedKnows
    <3>4. rule'[r] = Fed(r, rule[r], c)
      BY <1>1, <2>3
    <3>. QED
      BY <1>3, <3>1, <3>2, <3>3, <3>4
  <2>4. CASE ClassOf(r) # cls
    <3>1. FedSoFar(r)' = FedSoFar(r)
      BY <1>1, <1>2, <2>4 DEF FedSoFar
    <3>2. rule'[r] = rule[r]
      BY <1>1, <2>4
    <3>. QED
      BY <2>2, <3>1, <3>2
  <2>. QED
    BY <2>3, <2>4
<1>7. LastKnown'
  BY <1>1 DEF Words, LastKnown, LastBefore
<1>8. DeadSoFar'
  <2>1. major' = 0 \/ cls <= major'
    BY <1>1, <1>2
  <2>2. ASSUME prevs_is_dead, NEW r \in Rule, ClassOf(r) < cls, Visible(r)'
        PROVE  Dead(r, rule'[r])
    <3>1. Dead(r, rule[r])
      BY <1>1, <1>4, <2>2 DEF Words, DeadSoFar
    <3>2. rule'[r] = rule[r]
      BY <1>1, <1>2, <2>2
    <3>. QED
      BY <3>1, <3>2
  <2>. QED
    BY <1>1, <2>1, <2>2 DEF DeadSoFar
<1>9. GivenUp'
  BY <1>1 DEF Words, GivenUp, Errors
<1>. QED
  BY <1>6, <1>7, <1>8, <1>9 DEF Words

\* Every class has been visited, and some rule is alive.
LEMMA StayAliveWords ==
  ASSUME IInv, Words, StayAlive
  PROVE  Words'
<1>1. /\ pc = "class" /\ pc' = "scan" /\ cls > LastClass /\ cache_pos' = cache_pos + 1
      /\ UNCHANGED <<rule, major, last, cache, m_pos, text, taken, first, outcome>>
  BY DEF StayAlive, Fixed
<1>2. /\ LastClass \in Nat /\ cls \in Nat /\ cache_pos \in Nat
      /\ \A r \in Rule : ClassOf(r) \in Nat /\ ClassOf(r) <= LastClass
  BY Parts
<1>3. \A r \in Rule : FedSoFar(r)' = FedSoFar(r)
  BY <1>1, <1>2 DEF FedSoFar
<1>4. RulesKnow' /\ LastKnown'
  BY <1>1, <1>3, QuietKnow DEF Words
<1>5. DeadSoFar' /\ GivenUp'
  BY <1>1 DEF Words, DeadSoFar, GivenUp, Errors
<1>. QED
  BY <1>4, <1>5 DEF Words

\* Every class has been visited and is dead: none has matched.
LEMMA NoneAlive ==
  ASSUME IInv, Words, pc = "class", cls > LastClass, prevs_is_dead
  PROVE  /\ major = 0 /\ cache # << >>
         /\ \A r \in Rule : Dead(r, rule[r]) /\ rule[r].match_len = 0
<1>1. /\ LastClass \in Nat /\ cls \in Nat /\ major \in Nat
      /\ cache_pos \in Nat \ {0} /\ cache_pos <= Len(cache)
      /\ \A r \in Rule : ClassOf(r) \in Nat /\ ClassOf(r) <= LastClass /\ ClassOf(r) < cls
                         /\ rule[r].match_len \in Nat
  BY Parts
<1>2. major = 0
  <2>1. SUFFICES ASSUME major # 0 PROVE FALSE
    OBVIOUS
  <2>2. PICK r \in InClass(major) : rule[r].match_len > 0
    BY <2>1 DEF IInv, LimitKnown
  <2>3. r \in Rule /\ ClassOf(r) = major
    BY <2>2 DEF InClass
  <2>4. rule[r].match_len = 0
    BY <1>1, <2>3 DEF IInv, PrevsKnown
  <2>. QED
    BY <2>2, <2>4
<1>3. \A r \in Rule : Dead(r, rule[r])
  BY <1>1, <1>2 DEF Words, DeadSoFar, Visible
<1>4. \A r \in Rule : rule[r].match_len = 0
  BY <1>1, <1>2 DEF IInv, LimitKnown
<1>. QED
  BY <1>1, <1>2, <1>3, <1>4

\* Giving up keeps what the rules know.
LEMMA NoRuleMatchWords ==
  ASSUME IInv, Words, NoRuleMatch
  PROVE  Words'
<1>1. /\ pc = "class" /\ pc' = "idle" /\ cls > LastClass /\ prevs_is_dead
      /\ outcome' = "no rule match"
      /\ UNCHANGED <<rule, major, last, cache, m_pos, text, taken, first>>
  BY DEF NoRuleMatch, Throw, Fixed
<1>2. major = 0 /\ \A r \in Rule : Dead(r, rule[r]) /\ rule[r].match_len = 0
  BY <1>1, NoneAlive
<1>3. Unread' = Unread
  BY <1>1 DEF Unread, Rest
<1>4. RulesKnow'
  <2>1. SUFFICES ASSUME NEW r \in Rule
                 PROVE  Knows(r, rule[r], last, Unread, Len(cache))
    BY <1>1, <1>3 DEF RulesKnow, FedSoFar
  <2>2. /\ cache_pos \in Nat /\ cache_pos <= Len(cache) /\ Len(cache) \in Nat
        /\ ClassOf(r) \in Nat /\ ClassOf(r) < cls /\ rule[r].match_len \in Nat
    <3>1. /\ cls \in Nat /\ LastClass \in Nat /\ ClassOf(r) \in 1 .. LastClass
          /\ rule[r].match_len \in Nat /\ cache_pos \in Nat /\ Len(cache) \in Nat
      BY Parts
    <3>2. cache_pos <= Len(cache)
      BY <1>1, Parts
    <3>3. cls > LastClass
      BY <1>1
    <3>4. ClassOf(r) \in Nat /\ ClassOf(r) < cls
      BY <3>1, <3>3
    <3>. QED
      BY <3>1, <3>2, <3>4
  <2>3. FedSoFar(r) = cache_pos
    BY <1>1, <2>2 DEF FedSoFar
  <2>4. Knows(r, rule[r], last, Unread, cache_pos)
    BY <1>2, <2>3 DEF Words, RulesKnow, Visible
  <2>5. \A k \in 1 .. Len(cache) : Unread[k] \in Char
    BY UnreadFacts
  <2>. QED
    BY <1>2, <2>2, <2>4, <2>5, DeadKnows
<1>5. LastKnown'
  BY <1>1 DEF Words, LastKnown, LastBefore
<1>6. DeadSoFar' /\ GivenUp'
  BY <1>1, <1>2 DEF Words, DeadSoFar, GivenUp, Errors
<1>. QED
  BY <1>4, <1>5, <1>6 DEF Words

\* One more character: what has been fed before it is as it was.
LEMMA FeedCharWords ==
  ASSUME IInv, Words, NEW c \in Char, FeedChar(c)
  PROVE  Words'
<1>1. /\ pc = "idle" /\ pc' = "scan" /\ outcome' = "running"
      /\ cache' = Append(cache, [char |-> c, pos |-> m_pos]) /\ cache_pos' = Len(cache')
      /\ text' = Append(text, c) /\ m_pos' = m_pos + Width[c]
      /\ m_pos = 0 => /\ rule' = [r \in Rule |-> RuleReset(r, last)] /\ major' = 0
                      /\ last' = last
      /\ m_pos # 0 => UNCHANGED <<rule, major, last>>
      /\ UNCHANGED <<taken, first>>
  BY DEF FeedChar, CallAllowed, ResetRules
<1>2. /\ text \in Seq(Char) /\ cache \in Seq(Entry) /\ m_pos \in Nat
      /\ Width[c] \in Nat \ {0}
  BY LexerAssumption DEF IInv, TypeOK, Entry
<1> DEFINE n == Len(cache)
           d == Len(text) - Len(cache)
<1>3. n \in Nat /\ Len(text) \in Nat /\ Len(cache') = n + 1 /\ Len(text') = Len(text) + 1
  BY <1>1, <1>2
<1>4. \A k \in 1 .. n : Unread'[k] = Unread[k]
  <2>1. (\A i \in 1 .. Len(cache) : Unread[i] = text[(Len(text) - Len(cache)) + i])'
    <3>1. IInv'
      BY FeedCharStep
    <3>. QED
      BY <3>1, UnreadPlaces, PTL
  <2>2. d \in Nat /\ Len(text') - Len(cache') = d /\ d + n = Len(text)
    BY <1>3, UnreadFacts
  <2>3. ASSUME NEW k \in 1 .. n PROVE Unread'[k] = Unread[k]
    <3>1. k \in 1 .. n + 1 /\ d + k \in 1 .. Len(text)
      BY <1>3, <2>2
    <3>2. Unread'[k] = text'[d + k] /\ Unread[k] = text[d + k]
      BY <1>3, <2>1, <2>2, <3>1, UnreadFacts
    <3>3. text'[d + k] = text[d + k]
      BY <1>1, <1>2, <3>1
    <3>. QED
      BY <3>2, <3>3
  <2>. QED
    BY <2>3
<1>5. RulesKnow'
  <2>1. SUFFICES ASSUME NEW r \in Rule, Visible(r)'
                 PROVE  Knows(r, rule'[r], last, Unread', n)
    <3>2. last' = last
      BY <1>1, <1>2
    <3>3. \A s \in Rule : FedSoFar(s)' = n
      BY <1>1, <1>3 DEF FedSoFar
    <3>. QED
      BY <3>2, <3>3 DEF RulesKnow
  <2>2. CASE m_pos = 0
    <3>1. n = 0
      BY <2>2 DEF Words, GivenUp
    <3>2. rule'[r] = RuleReset(r, last)
      BY <1>1, <2>2
    <3>. QED
      BY <3>1, <3>2, ResetKnows
  <2>3. CASE m_pos # 0
    <3>1. rule'[r] = rule[r] /\ Visible(r)
      BY <1>1, <2>1, <2>3 DEF Visible
    <3>2. FedSoFar(r) = n
      BY <1>1 DEF FedSoFar
    <3>3. Knows(r, rule[r], last, Unread, n)
      BY <3>1, <3>2 DEF Words, RulesKnow
    <3>4. rule[r].match_len \in Nat
      BY Parts
    <3>5. \A k \in 1 .. n : Unread[k] = Unread'[k]
      BY <1>4
    <3> HIDE DEF n
    <3>. QED
      BY <1>3, <3>1, <3>3, <3>4, <3>5, KnowsAgree
  <2>. QED
    BY <2>2, <2>3
<1>6. LastKnown'
  BY <1>1 DEF Words, LastKnown, LastBefore
<1>7. DeadSoFar' /\ GivenUp'
  BY <1>1, <1>2 DEF DeadSoFar, GivenUp, Errors
<1>. QED
  BY <1>5, <1>6, <1>7 DEF Words

\* The beginning and the end of feed_end().
LEMMA EndWords ==
  ASSUME IInv, Words, FeedEnd \/ EndFail \/ EndDone
  PROVE  Words'
<1>1. /\ pc \in {"idle", "end"} /\ pc' \in {"idle", "end"}
      /\ FeedEnd => pc' = "end" /\ outcome' = "running"
      /\ EndFail => pc' = "idle" /\ Endable = {}
      /\ EndDone => pc' = "idle" /\ outcome' = "ended"
      /\ (FeedEnd \/ EndDone) \/ (EndFail /\ outcome' = "unexpected end of file")
      /\ UNCHANGED <<rule, major, last, cache, m_pos, text, taken, first>>
  BY DEF FeedEnd, EndFail, EndDone, CallAllowed, Throw, Return, Fixed
<1>2. \A r \in Rule : FedSoFar(r)' = FedSoFar(r)
  BY <1>1 DEF FedSoFar
<1>3. RulesKnow' /\ LastKnown'
  BY <1>1, <1>2, QuietKnow DEF Words
<1>4. DeadSoFar'
  BY <1>1 DEF DeadSoFar
<1>5. ASSUME Endable = {} PROVE major = 0 /\ \A r \in Rule : rule[r].match_len = 0
  <2>1. Classes = 1 .. LastClass /\ major \in 0 .. LastClass
    BY ClassFacts, Parts
  <2>2. major = 0
    <3>1. SUFFICES ASSUME major # 0 PROVE FALSE
      OBVIOUS
    <3>2. Candidates(major) # {}
      BY <3>1 DEF IInv, LimitKnown, Candidates
    <3>3. major \in Classes /\ major >= major
      BY <2>1, <3>1
    <3>. QED
      BY <1>5, <3>2, <3>3 DEF Endable
  <2>3. \A r \in Rule : rule[r].match_len \in Nat
    BY Parts
  <2>. QED
    BY <2>2, <2>3 DEF IInv, LimitKnown
<1>6. GivenUp'
  BY <1>1, <1>5 DEF Words, GivenUp, Errors
<1>. QED
  BY <1>3, <1>4, <1>6 DEF Words

\* The token taken, and what taking it does.
LEMMA TakeCut ==
  ASSUME IInv, NEW r \in Rule, Take(r), rule[r].match_len > 0
  PROVE  /\ Len(cache) \in Nat
         /\ rule[r].match_len <= Len(cache) => \E cut \in Cut :
               /\ taken' = Append(taken, cut)
               /\ cut.start = Len(text) - Len(cache)
               /\ cut.tok.rule = r /\ cut.tok.len = rule[r].match_len
               /\ last' = IF cut.tok.kind # Skip THEN cut.tok.kind ELSE last
               /\ batch' = IF cut.tok.kind # Skip THEN Append(batch, cut.tok) ELSE batch
               /\ rule' = [s \in Rule |-> RuleReset(s, last')]
               /\ major' = 0 /\ cache # << >>
<1> DEFINE tok == TokenOf(r)
           cut == [tok |-> tok, start |-> Len(text) - Len(cache)]
<1>1. TypeOK /\ rule[r].match_len \in Nat /\ Len(cache) \in Nat
      /\ cache \in Seq(Entry) /\ Len(text) - Len(cache) \in Nat
  BY Parts, UnreadFacts DEF IInv, TypeOK, Entry
<1>2. ASSUME rule[r].match_len <= Len(cache) PROVE cache # << >>
  BY <1>1, <1>2
<1>3. ASSUME cache # << >>
      PROVE  tok \in Token /\ tok.rule = r /\ tok.len = rule[r].match_len
  <2>1. tok \in Token
    BY <1>1, <1>3, TokenFacts
  <2>. QED
    BY <2>1 DEF TokenOf
<1>4. /\ ResetRules(IF tok.kind # Skip THEN tok.kind ELSE last)
      /\ batch' = IF tok.kind # Skip THEN Append(batch, tok) ELSE batch
      /\ taken' = Append(taken, cut)
  BY DEF Take
<1> HIDE DEF tok
<1>5. cut.tok = tok /\ cut.start = Len(text) - Len(cache)
      /\ (cache # << >> => cut \in Cut)
  BY <1>1, <1>3 DEF Cut
<1> HIDE DEF cut
<1>6. /\ last' = IF tok.kind # Skip THEN tok.kind ELSE last
      /\ major' = 0 /\ rule' = [s \in Rule |-> RuleReset(s, last')]
  BY <1>4 DEF ResetRules
<1>. QED
  BY <1>1, <1>2, <1>3, <1>4, <1>5, <1>6

\* After a token is taken the rules know nothing, rightly.
LEMMA AfreshWords ==
  ASSUME IInv, Words, NEW r \in Rule, Take(r),
         rule[r].match_len > 0, rule[r].match_len <= Len(cache),
         UNCHANGED <<text, first, m_pos, outcome>>, outcome = "running",
         \/ pc' = "scan" /\ cache_pos' = 1
         \/ pc' = "end" /\ cache' = << >>
  PROVE  Words'
<1>1. PICK cut \in Cut :
         /\ taken' = Append(taken, cut)
         /\ last' = IF cut.tok.kind # Skip THEN cut.tok.kind ELSE last
         /\ rule' = [s \in Rule |-> RuleReset(s, last')]
         /\ major' = 0 /\ cache # << >>
  BY TakeCut
<1>2. taken \in Seq(Cut) /\ Len(taken) \in Nat
  BY DEF IInv, TypeOK, Cut
<1>3. RulesKnow'
  <2>1. \A s \in Rule : FedSoFar(s)' = 0
    BY DEF FedSoFar
  <2>. QED
    BY <1>1, <2>1, ResetKnows DEF RulesKnow
<1>4. LastKnown'
  <2>1. last = LastOf(SubSeq(taken, 1, (Len(taken) + 1) - 1), first)
    BY DEF Words, LastKnown, LastBefore, LastOf
  <2>2. last = LastOf(taken, first)
    BY <1>1, <1>2, <2>1, Prefixes
  <2>3. last' = LastOf(taken', first)
    BY <1>1, <1>2, <2>2, LastOfAppend
  <2>4. taken' \in Seq(Cut)
    BY <1>1, <1>2, AppendProperties
  <2>5. SubSeq(taken', 1, (Len(taken') + 1) - 1) = taken'
    BY <1>1, <2>4, Prefixes
  <2>6. last' = LastOf(SubSeq(taken', 1, (Len(taken') + 1) - 1), first')
    BY <2>3, <2>5
  <2>. QED
    BY <2>6 DEF LastKnown, LastBefore, LastOf
<1>5. DeadSoFar'
  BY DEF DeadSoFar
<1>6. GivenUp'
  BY <1>1 DEF Words, GivenUp, Errors
<1>. QED
  BY <1>3, <1>4, <1>5, <1>6 DEF Words

\* reset().
LEMMA ResetWords ==
  ASSUME IInv, Words, Reset
  PROVE  Words'
<1>1. /\ pc = "idle" /\ pc' = "idle" /\ outcome' = "reset"
      /\ cache' = << >> /\ taken' = << >> /\ major' = 0
      /\ last' = last /\ first' = last
      /\ rule' = [r \in Rule |-> RuleReset(r, last)]
  BY DEF Reset, ResetRules
<1>2. RulesKnow'
  <2>1. \A r \in Rule : FedSoFar(r)' = 0
    BY <1>1 DEF FedSoFar
  <2>. QED
    BY <1>1, <2>1, ResetKnows DEF RulesKnow
<1>3. LastKnown'
  <2>1. SubSeq(taken', 1, (Len(taken') + 1) - 1) = << >>
    BY <1>1
  <2>2. LastOf(<< >>, first') = first'
    BY ShownNone DEF LastOf
  <2>. QED
    BY <1>1, <2>1, <2>2 DEF LastKnown, LastBefore, LastOf
<1>4. DeadSoFar' /\ GivenUp'
  BY <1>1 DEF DeadSoFar, GivenUp, Errors
<1>. QED
  BY <1>2, <1>3, <1>4 DEF Words

\* The winners of the two loops are rules of the length they say.
LEMMA ScannedWinner ==
  ASSUME IInv, TakeScanned
  PROVE  LET r == Winner(cls)
         IN  /\ r \in Rule /\ r \in Candidates(cls) /\ rule[r].match_len > 0
             /\ rule[r].match_len <= cache_pos /\ cache_pos <= Len(cache)
             /\ rule[r].match_len <= Len(cache)
             /\ \A s \in Candidates(cls) : Beats(r, s)
<1> DEFINE r == Winner(cls)
<1>1. TypeOK /\ pc = "judge" /\ Candidates(cls) # {}
  BY DEF IInv, TakeScanned
<1>2. \A s \in Candidates(cls) : s \in Rule /\ rule[s].match_len <= cache_pos
                                 /\ rule[s].match_len > 0
  BY <1>1, Parts DEF Candidates, InClass
<1>3. cache_pos \in Nat /\ cache_pos <= Len(cache) /\ Len(cache) \in Nat
  BY <1>1, Parts
<1>4. r \in Candidates(cls) /\ \A s \in Candidates(cls) : Beats(r, s)
  BY <1>1, <1>2, <1>3, WinnerExists
<1>. HIDE DEF r
<1>5. r \in Rule /\ rule[r].match_len > 0 /\ rule[r].match_len <= cache_pos
  BY <1>2, <1>4
<1>6. rule[r].match_len \in Nat
  BY <1>5, Parts
<1>. QED
  BY <1>3, <1>4, <1>5, <1>6 DEF r

\* The token the end of the text takes.
LEMMA EndWinner ==
  ASSUME IInv, EndTake
  PROVE  LET i == Smallest(Endable)
             r == Winner(i)
         IN  /\ i \in Endable /\ \A j \in Endable : i <= j
             /\ r \in Rule /\ r \in Candidates(i) /\ rule[r].match_len > 0
             /\ rule[r].match_len <= Len(cache)
             /\ \A s \in Candidates(i) : Beats(r, s)
<1> DEFINE i == Smallest(Endable)
           r == Winner(i)
<1>1. TypeOK /\ pc = "end" /\ Endable # {} /\ Len(cache) \in Nat
  BY Parts DEF IInv, EndTake
<1>2. Endable \in SUBSET Nat
  BY ClassFacts DEF Endable
<1>3. i \in Endable /\ \A j \in Endable : i <= j
  <2>1. \E k \in Endable : \A j \in Endable : k <= j
    BY <1>1, <1>2, LeastNat
  <2>. QED
    BY <2>1 DEF Smallest
<1>. HIDE DEF i
<1>4. Candidates(i) # {}
  BY <1>3 DEF Endable
<1>5. \A s \in Candidates(i) : s \in Rule /\ rule[s].match_len <= Len(cache)
                               /\ rule[s].match_len > 0
  BY <1>1, Parts DEF Candidates, InClass
<1>6. r \in Candidates(i) /\ \A s \in Candidates(i) : Beats(r, s)
  BY <1>1, <1>4, <1>5, WinnerExists
<1>. HIDE DEF r
<1>7. r \in Rule /\ rule[r].match_len > 0 /\ rule[r].match_len <= Len(cache)
  BY <1>5, <1>6
<1>. QED
  BY <1>3, <1>6, <1>7 DEF i, r

\* Taking a token keeps what the rules know.
LEMMA TakeWords ==
  ASSUME IInv, Words, TakeScanned \/ EndTake
  PROVE  Words'
<1>1. pc # "idle" /\ UNCHANGED <<text, first, m_pos, outcome>>
  BY DEF TakeScanned, EndTake, Fixed
<1>2. outcome = "running"
  BY <1>1 DEF Words, GivenUp
<1>3. CASE TakeScanned
  <2> DEFINE r == Winner(cls)
  <2>1. r \in Rule /\ rule[r].match_len > 0 /\ rule[r].match_len <= Len(cache)
    BY <1>3, ScannedWinner
  <2>2. Take(r) /\ pc' = "scan" /\ cache_pos' = 1
    BY <1>3 DEF TakeScanned
  <2> HIDE DEF r
  <2>. QED
    BY <1>1, <1>2, <2>1, <2>2, AfreshWords
<1>4. CASE EndTake
  <2> DEFINE r == Winner(Smallest(Endable))
  <2>1. r \in Rule /\ rule[r].match_len > 0 /\ rule[r].match_len <= Len(cache)
    BY <1>4, EndWinner
  <2>2. /\ Take(r)
        /\ \/ pc' = "scan" /\ cache_pos' = 1
           \/ pc' = "end" /\ cache' = << >>
    BY <1>4 DEF EndTake
  <2> HIDE DEF r
  <2>. QED
    BY <1>1, <1>2, <2>1, <2>2, AfreshWords
<1>. QED
  BY <1>3, <1>4

\* The rules know nothing at first.
LEMMA InitWords == Init => Words
<1> SUFFICES ASSUME Init PROVE Words
  OBVIOUS
<1>1. RulesKnow
  <2>1. \A r \in Rule : FedSoFar(r) = 0
    BY DEF Init, FedSoFar
  <2>2. \A r \in Rule : rule[r] = RuleReset(r, last)
    BY DEF Init
  <2>. QED
    BY <2>1, <2>2, ResetKnows DEF RulesKnow
<1>2. LastKnown
  <2>1. taken = << >> /\ last = first
    BY DEF Init
  <2>2. SubSeq(taken, 1, (Len(taken) + 1) - 1) = << >>
    BY <2>1
  <2>3. LastOf(<< >>, first) = first
    BY ShownNone DEF LastOf
  <2>. QED
    BY <2>1, <2>2, <2>3 DEF LastKnown, LastBefore, LastOf
<1>3. DeadSoFar /\ GivenUp
  BY DEF Init, DeadSoFar, GivenUp, Errors
<1>. QED
  BY <1>1, <1>2, <1>3 DEF Words

\* Every step keeps what the rules know.
LEMMA NextWords == IInv /\ Words /\ [Next]_vars => Words'
<1> SUFFICES ASSUME IInv, Words, [Next]_vars PROVE Words'
  OBVIOUS
<1>1. ASSUME NEW c \in Char, FeedChar(c) PROVE Words'
  BY <1>1, FeedCharWords
<1>2. CASE FeedEnd \/ EndFail \/ EndDone
  BY <1>2, EndWords
<1>3. CASE Reset
  BY <1>3, ResetWords
<1>4. CASE ScanNext \/ ScanDone
  BY <1>4, ScanWords
<1>5. CASE SkipClass \/ PassClass
  BY <1>5, NextClassWords
<1>6. CASE FeedClass
  BY <1>6, FeedClassWords
<1>7. CASE TakeScanned \/ EndTake
  BY <1>7, TakeWords
<1>8. CASE StayAlive
  BY <1>8, StayAliveWords
<1>9. CASE NoRuleMatch
  BY <1>9, NoRuleMatchWords
<1>10. CASE UNCHANGED vars
  <2>1. \A r \in Rule : FedSoFar(r)' = FedSoFar(r)
    BY <1>10 DEF FedSoFar, vars, machine, ghost
  <2>2. RulesKnow' /\ LastKnown'
    BY <1>10, <2>1, QuietKnow DEF Words, vars, machine, ghost
  <2>3. DeadSoFar' /\ GivenUp'
    BY <1>10 DEF Words, DeadSoFar, Visible, GivenUp, vars, machine, ghost
  <2>. QED
    BY <2>2, <2>3 DEF Words
<1>. QED
  BY <1>1, <1>2, <1>3, <1>4, <1>5, <1>6, <1>7, <1>8, <1>9, <1>10 DEF Next, Step

\* What the rules know is right in every reachable state.
LEMMA WordsInvariant == Spec => [](IInv /\ Words)
<1>1. Init => IInv /\ Words
  BY InitIInv, InitWords
<1>2. IInv /\ Words /\ [Next]_vars => (IInv /\ Words)'
  BY NextIInv, NextWords
<1>. QED
  BY <1>1, <1>2, PTL DEF Spec

------------------------------------------------------------------------------
(* The best token *)

\* No word of a rule that has stopped, or has seen all, is longer than it knows.
LEMMA NoLongerWord ==
  ASSUME NEW r \in Rule, NEW s, s.match_len \in Nat, NEW before \in Shape[r].after,
         NEW w, NEW n \in Nat, Knows(r, s, before, w, n),
         NEW v \in Seq(Char), n <= Len(v), \A k \in 1 .. n : w[k] = v[k],
         Dead(r, s) \/ Len(v) <= n,
         NEW m \in 1 .. Len(v), IsWord(r, v, m)
  PROVE  m <= s.match_len
<1>1. Knows(r, s, before, v, n)
  BY KnowsAgree
<1>2. CASE m <= n
  <2>1. m \in 1 .. n
    BY <1>2
  <2>. QED
    BY <1>1, <2>1 DEF Knows
<1>3. CASE n < m
  <2>1. Len(v) \in Nat /\ ~(Len(v) <= n) /\ \A k \in 1 .. Len(v) : v[k] \in Char
    BY <1>3
  <2>2. Knows(r, s, before, v, Len(v))
    BY <1>1, <2>1, DeadKnows
  <2>. QED
    BY <2>2 DEF Knows
<1>. QED
  BY <1>2, <1>3

\* A rule that beats another is preferred to each of its words.
LEMMA BeatsWord ==
  ASSUME IInv, NEW r \in Rule, NEW s \in Rule, Beats(r, s), ClassOf(r) = ClassOf(s),
         NEW m \in Nat, m <= rule[s].match_len
  PROVE  Preferred(<<r, rule[r].match_len>>, <<s, m>>)
<1>1. rule[r].match_len \in Nat /\ rule[s].match_len \in Nat
  BY Parts
<1>2. CASE m < rule[r].match_len
  BY <1>2 DEF Preferred
<1>3. CASE m = rule[r].match_len
  <2>1. rule[r].match_len = rule[s].match_len
    BY <1>1, <1>3 DEF Beats
  <2>. QED
    BY <1>1, <1>3, <2>1 DEF Beats, Preferred
<1>4. m <= rule[r].match_len
  BY <1>1 DEF Beats
<1>. QED
  BY <1>1, <1>2, <1>3, <1>4

\* The token of rule r, as it stands, is the best that begins the text w.
Chosen(r, w) == Best(<<r, rule[r].match_len>>, w, last)

\* The token of the winner is one the text allows.
LEMMA WinnerIsOption ==
  ASSUME IInv, Words, NEW r \in Rule, Shape[r].spare = {}, Visible(r),
         rule[r].match_len > 0, FedSoFar(r) \in Nat, FedSoFar(r) <= Len(cache),
         NEW w \in Seq(Char), Len(cache) <= Len(w),
         \A k \in 1 .. Len(cache) : w[k] = Unread[k]
  PROVE  <<r, rule[r].match_len>> \in Options(w, last)
<1> DEFINE n == FedSoFar(r)
           m == rule[r].match_len
<1>1. m \in Nat /\ Len(cache) \in Nat /\ Len(w) \in Nat
  BY Parts
<1>2. Knows(r, rule[r], last, Unread, n)
  BY DEF Words, RulesKnow
<1> HIDE DEF n
<1>3. n \in Nat /\ n <= Len(cache)
  BY DEF n
<1>4. \A k \in 1 .. n : Unread[k] = w[k]
  BY <1>1, <1>3
<1>5. Knows(r, rule[r], last, w, n)
  BY <1>1, <1>2, <1>3, <1>4, KnowsAgree
<1>6. last \in Shape[r].after /\ IsWord(r, w, m) /\ m <= n
  BY <1>5 DEF Knows
<1>7. m \in 1 .. Len(w)
  BY <1>1, <1>3, <1>6
<1> HIDE DEF m
<1>8. <<r, m>> \in Options(w, last)
  BY <1>6, <1>7 DEF Options
<1>. QED
  BY <1>8 DEF m

\* The winner of push_cache_to_end() is the best whatever will be fed.
LEMMA ChosenScanned ==
  ASSUME IInv, Words, TakeScanned, \A r \in Rule : Shape[r].spare = {},
         NEW w \in Seq(Char), Len(cache) <= Len(w),
         \A k \in 1 .. Len(cache) : w[k] = Unread[k]
  PROVE  Chosen(Winner(cls), w)
<1> DEFINE r == Winner(cls)
           o == <<r, rule[r].match_len>>
<1>1. /\ r \in Rule /\ r \in Candidates(cls) /\ rule[r].match_len > 0
      /\ rule[r].match_len <= cache_pos /\ cache_pos <= Len(cache)
      /\ \A s \in Candidates(cls) : Beats(r, s)
  BY ScannedWinner
<1>2. pc = "judge" /\ prevs_is_dead /\ CurrentIsDead(cls)
  BY DEF TakeScanned
<1> HIDE DEF r
<1>3. ClassOf(r) = cls /\ cls \in Nat \ {0} /\ major \in Nat /\ cache_pos \in Nat
      /\ Len(cache) \in Nat /\ Len(w) \in Nat
  BY <1>1, Parts DEF Candidates, InClass
<1>4. major = 0 \/ cls <= major
  BY <1>2 DEF Words, DeadSoFar
<1>5. \A s \in Rule : ClassOf(s) <= cls => FedSoFar(s) = cache_pos
  BY <1>2 DEF FedSoFar
<1>6. o \in Options(w, last)
  BY <1>1, <1>3, <1>4, <1>5, WinnerIsOption DEF Visible
<1>7. ASSUME NEW s \in Rule, last \in Shape[s].after, NEW m \in 1 .. Len(w), IsWord(s, w, m)
      PROVE  Preferred(o, <<s, m>>)
  <2>1. ClassOf(s) \in Nat /\ rule[s].match_len \in Nat
    BY Parts
  <2>2. CASE ClassOf(s) > cls
    BY <1>3, <2>2 DEF Preferred
  <2>3. CASE ClassOf(s) <= cls
    <3>1. Visible(s)
      BY <1>3, <1>4, <2>1, <2>3 DEF Visible
    <3>2. Dead(s, rule[s])
      <4>1. CASE ClassOf(s) = cls
        BY <1>2, <4>1 DEF CurrentIsDead, InClass
      <4>2. CASE ClassOf(s) < cls
        BY <1>2, <3>1, <4>2 DEF Words, DeadSoFar
      <4>. QED
        BY <1>3, <2>1, <2>3, <4>1, <4>2
    <3>3. Knows(s, rule[s], last, Unread, cache_pos)
      BY <1>5, <2>3, <3>1 DEF Words, RulesKnow
    <3>4. \A k \in 1 .. cache_pos : Unread[k] = w[k]
      BY <1>1, <1>3
    <3>5. cache_pos <= Len(w)
      BY <1>1, <1>3
    <3>6. m <= rule[s].match_len
      BY <1>3, <1>7, <2>1, <3>2, <3>3, <3>4, <3>5, NoLongerWord
    <3>7. rule[s].match_len > 0 /\ m \in Nat
      BY <2>1, <3>6
    <3>8. ClassOf(s) = cls
      <4>1. CASE ClassOf(s) < cls
        <5>1. rule[s].match_len = 0
          BY <1>2, <3>1, <4>1 DEF IInv, PrevsKnown, Visible
        <5>. QED
          BY <3>7, <5>1
      <4>. QED
        BY <1>3, <2>1, <2>3, <4>1
    <3>9. s \in Candidates(cls)
      BY <3>7, <3>8 DEF Candidates, InClass
    <3>. QED
      BY <1>1, <1>3, <3>6, <3>7, <3>8, <3>9, BeatsWord
  <2>. QED
    BY <1>3, <2>1, <2>2, <2>3
<1>8. \A p \in Options(w, last) : Preferred(o, p)
  <2>1. SUFFICES ASSUME NEW p \in Options(w, last) PROVE Preferred(o, p)
    OBVIOUS
  <2>2. /\ p \in {s \in Rule : last \in Shape[s].after} \X (1 .. Len(w))
        /\ IsWord(p[1], w, p[2])
    BY DEF Options
  <2>3. p[1] \in Rule /\ last \in Shape[p[1]].after /\ p[2] \in 1 .. Len(w) /\ p = <<p[1], p[2]>>
    BY <2>2
  <2> HIDE DEF o
  <2>. QED
    BY <1>7, <2>2, <2>3
<1>. QED
  BY <1>6, <1>8 DEF Chosen, Best, r

\* The winner of feed_end() is the best of the text that has ended.
LEMMA ChosenAtEnd ==
  ASSUME IInv, Words, EndTake, \A r \in Rule : Shape[r].spare = {}
  PROVE  Chosen(Winner(Smallest(Endable)), Unread)
<1> DEFINE i == Smallest(Endable)
           r == Winner(i)
           o == <<r, rule[r].match_len>>
<1>1. /\ i \in Endable /\ \A j \in Endable : i <= j
      /\ r \in Rule /\ r \in Candidates(i) /\ rule[r].match_len > 0
      /\ rule[r].match_len <= Len(cache)
      /\ \A s \in Candidates(i) : Beats(r, s)
  BY EndWinner
<1> HIDE DEF r, i
<1>2. pc = "end"
  BY DEF EndTake
<1>3. /\ ClassOf(r) = i /\ i \in Nat \ {0} /\ major \in 0 .. LastClass /\ LastClass \in Nat
      /\ Len(cache) \in Nat /\ i >= major /\ Classes = 1 .. LastClass
  BY <1>1, ClassFacts, Parts DEF Candidates, InClass, Endable
<1>4. Unread \in Seq(Char) /\ Len(Unread) = Len(cache)
  BY UnreadFacts
<1>5. \A s \in Rule : FedSoFar(s) = Len(cache)
  BY <1>2 DEF FedSoFar
<1>6. major # 0 => i = major
  <2>1. SUFFICES ASSUME major # 0 PROVE i = major
    OBVIOUS
  <2>2. Candidates(major) # {}
    BY <2>1 DEF IInv, LimitKnown, Candidates
  <2>3. major \in Endable
    BY <1>3, <2>1, <2>2 DEF Endable
  <2>. QED
    BY <1>1, <1>3, <2>3
<1>7. o \in Options(Unread, last)
  <2>1. Visible(r)
    BY <1>3, <1>6 DEF Visible
  <2>. QED
    BY <1>1, <1>3, <1>4, <1>5, <2>1, WinnerIsOption
<1>8. ASSUME NEW s \in Rule, last \in Shape[s].after, NEW m \in 1 .. Len(Unread),
             IsWord(s, Unread, m)
      PROVE  Preferred(o, <<s, m>>)
  <2>1. ClassOf(s) \in 1 .. LastClass /\ ClassOf(s) \in Nat /\ rule[s].match_len \in Nat
    BY Parts
  <2>2. CASE ~Visible(s)
    <3>1. ClassOf(s) > i
      BY <1>3, <1>6, <2>1, <2>2 DEF Visible
    <3>. QED
      BY <1>3, <3>1 DEF Preferred
  <2>3. CASE Visible(s)
    <3>1. Knows(s, rule[s], last, Unread, Len(cache))
      BY <1>5, <2>3 DEF Words, RulesKnow
    <3>2. m \in 1 .. Len(cache)
      BY <1>4
    <3>3. m <= rule[s].match_len
      BY <1>8, <3>1, <3>2 DEF Knows
    <3>4. rule[s].match_len > 0 /\ m \in Nat
      BY <2>1, <3>3
    <3>5. major # 0 /\ major <= ClassOf(s)
      BY <3>4 DEF IInv, LimitKnown
    <3>6. s \in Candidates(ClassOf(s))
      BY <3>4 DEF Candidates, InClass
    <3>7. ClassOf(s) = i
      BY <1>3, <1>6, <2>1, <2>3, <3>5 DEF Visible
    <3>. QED
      BY <1>1, <1>3, <3>3, <3>4, <3>6, <3>7, BeatsWord
  <2>. QED
    BY <2>2, <2>3
<1>9. \A p \in Options(Unread, last) : Preferred(o, p)
  <2>1. SUFFICES ASSUME NEW p \in Options(Unread, last) PROVE Preferred(o, p)
    OBVIOUS
  <2>2. /\ p \in {s \in Rule : last \in Shape[s].after} \X (1 .. Len(Unread))
        /\ IsWord(p[1], Unread, p[2])
    BY DEF Options
  <2>3. /\ p[1] \in Rule /\ last \in Shape[p[1]].after /\ p[2] \in 1 .. Len(Unread)
        /\ p = <<p[1], p[2]>>
    BY <2>2
  <2> HIDE DEF o
  <2>. QED
    BY <1>8, <2>2, <2>3
<1>. QED
  BY <1>7, <1>9 DEF Chosen, Best, r, i

\* The token before the i-th, when there is one more behind.
LEMMA LastBeforeTake ==
  ASSUME taken \in Seq(Cut), NEW cut \in Cut, taken' = Append(taken, cut), UNCHANGED first
  PROVE  \A i \in 1 .. Len(taken) + 1 : LastBefore(i, first)' = LastBefore(i, first)
<1>1. SUFFICES ASSUME NEW i \in 1 .. Len(taken) + 1
               PROVE  LastBefore(i, first)' = LastBefore(i, first)
  OBVIOUS
<1>2. SubSeq(taken', 1, i - 1) = SubSeq(taken, 1, i - 1)
  <2>1. CASE i \in 1 .. Len(taken)
    BY <2>1, Prefixes
  <2>2. CASE i = Len(taken) + 1
    BY <2>2, Prefixes
  <2>. QED
    BY <2>1, <2>2
<1>. QED
  BY <1>2 DEF LastBefore

\* A step that takes no token, after which the text can become no more than it
\* could before.
LEMMA QuietBest ==
  ASSUME BestForever, UNCHANGED <<taken, first>>, \A v : MayBecome(v)' => MayBecome(v)
  PROVE  BestForever'
<1>1. \A v, since : BestIn(v, since)' = BestIn(v, since)
  BY DEF BestIn, LastBefore
<1>. QED
  BY <1>1 DEF BestForever

\* The best token is taken.
LEMMA TakeBest ==
  ASSUME IInv, Words, BestForever, NEW r \in Rule, Take(r), rule[r].match_len > 0,
         rule[r].match_len <= Len(cache), UNCHANGED <<text, first>>, Growing' => Growing,
         \A w \in Seq(Char) :
            /\ Len(cache) <= Len(w) /\ (\A k \in 1 .. Len(cache) : w[k] = Unread[k])
            /\ Growing \/ w = Unread
            => Chosen(r, w)
  PROVE  BestForever'
<1> DEFINE d == Len(text) - Len(cache)
           n == Len(taken)
<1>1. PICK cut \in Cut :
         /\ taken' = Append(taken, cut) /\ cut.start = d
         /\ cut.tok.rule = r /\ cut.tok.len = rule[r].match_len
  BY TakeCut
<1>2. /\ taken \in Seq(Cut) /\ n \in Nat /\ text \in Seq(Char) /\ Len(text) \in Nat
      /\ d \in Nat /\ Len(cache) \in Nat /\ d + Len(cache) = Len(text)
  <2>1. taken \in Seq(Cut) /\ text \in Seq(Char)
    BY Zenon DEF IInv, TypeOK, Cut
  <2>2. Len(cache) \in Nat /\ d \in Nat
    BY Parts, UnreadFacts, Zenon
  <2>3. n \in Nat /\ Len(text) \in Nat
    BY <2>1
  <2>. QED
    BY <2>1, <2>2, <2>3
<1>3. \A i \in 1 .. n + 1 : /\ LastBefore(i, first)' = LastBefore(i, first)
                            /\ i = n + 1 => LastBefore(i, first) = last
  <2>1. last = LastBefore(n + 1, first)
    BY DEF Words, LastKnown
  <2>2. \A i \in 1 .. n + 1 : LastBefore(i, first)' = LastBefore(i, first)
    BY <1>1, <1>2, LastBeforeTake
  <2>. QED
    BY <2>1, <2>2
<1>4. SUFFICES ASSUME NEW v, MayBecome(v)' PROVE BestIn(v, first)'
  BY DEF BestForever
<1>5. MayBecome(v) /\ v \in Seq(Char) /\ Begins(text, v) /\ (Growing \/ v = text)
  BY <1>4 DEF MayBecome
<1>6. BestIn(v, first)
  BY <1>5 DEF BestForever
<1>7. /\ DOMAIN taken' = 1 .. n + 1 /\ taken'[n + 1] = cut /\ DOMAIN taken = 1 .. n
      /\ \A i \in 1 .. n : taken'[i] = taken[i]
  BY <1>1, <1>2
<1> DEFINE w == SubSeq(v, d + 1, Len(v))
<1>8. Chosen(r, w)
  <2>1. Len(text) <= Len(v) /\ \A k \in 1 .. Len(text) : v[k] = text[k]
    BY <1>5 DEF Begins
  <2>2. Len(v) \in Nat /\ d <= Len(v)
    BY <1>2, <1>5, <2>1
  <2>3. /\ w \in Seq(Char) /\ Len(w) = Len(v) - d
        /\ \A k \in 1 .. Len(v) - d : w[k] = v[d + k]
    BY <1>2, <1>5, <2>2, Suffix
  <2>4. v = text => w = Unread
    BY DEF Unread, Rest
  <2> HIDE DEF w
  <2>5. ASSUME NEW k \in 1 .. Len(cache) PROVE w[k] = Unread[k]
    <3>1. d + k \in 1 .. Len(text) /\ k \in 1 .. Len(v) - d
      BY <1>2, <2>1, <2>2
    <3>2. Unread[k] = text[d + k]
      BY UnreadFacts
    <3>. QED
      BY <2>1, <2>3, <3>1, <3>2
  <2>6. Len(cache) <= Len(w)
    BY <1>2, <2>1, <2>2, <2>3
  <2>. QED
    BY <1>5, <2>3, <2>4, <2>5, <2>6
<1>9. ASSUME NEW i \in 1 .. n + 1
      PROVE  Best(<<taken'[i].tok.rule, taken'[i].tok.len>>,
                  SubSeq(v, taken'[i].start + 1, Len(v)), LastBefore(i, first)')
  <2>1. CASE i \in 1 .. n
    <3>1. taken'[i] = taken[i] /\ LastBefore(i, first)' = LastBefore(i, first)
          /\ i \in DOMAIN taken
      BY <1>3, <1>7, <2>1
    <3>2. Best(<<taken[i].tok.rule, taken[i].tok.len>>,
               SubSeq(v, taken[i].start + 1, Len(v)), LastBefore(i, first))
      BY <1>6, <3>1 DEF BestIn
    <3>. QED
      BY <3>1, <3>2
  <2>2. CASE i = n + 1
    <3>1. taken'[i] = cut /\ LastBefore(i, first)' = last
      BY <1>3, <1>7, <2>2
    <3>. QED
      BY <1>1, <1>8, <3>1 DEF Chosen
  <2>. QED
    BY <1>2, <2>1, <2>2
<1>. QED
  BY <1>7, <1>9 DEF BestIn

\* Every step keeps that the tokens are the best ones.
LEMMA NextBest ==
  ASSUME \A r \in Rule : Shape[r].spare = {}
  PROVE  IInv /\ Words /\ BestForever /\ [Next]_vars => BestForever'
<1> SUFFICES ASSUME IInv, Words, BestForever, [Next]_vars PROVE BestForever'
  OBVIOUS
<1>1. ASSUME NEW c \in Char, FeedChar(c) PROVE BestForever'
  <2>1. text \in Seq(Char) /\ text' = Append(text, c) /\ UNCHANGED <<taken, first>>
    BY <1>1 DEF IInv, TypeOK, FeedChar
  <2>2. Growing
    BY <1>1 DEF FeedChar, CallAllowed, Growing
  <2>3. ASSUME NEW v, MayBecome(v)' PROVE MayBecome(v)
    <3>1. v \in Seq(Char) /\ Begins(text', v)
      BY <2>3 DEF MayBecome
    <3>2. /\ Len(text') = Len(text) + 1 /\ Len(text) \in Nat /\ Len(v) \in Nat
          /\ \A k \in 1 .. Len(text) : text'[k] = text[k] /\ k \in 1 .. Len(text')
      BY <2>1, <3>1
    <3>3. Begins(text, v)
      BY <3>1, <3>2 DEF Begins
    <3>. QED
      BY <2>2, <3>1, <3>3 DEF MayBecome
  <2>. QED
    BY <2>1, <2>3, QuietBest
<1>2. CASE TakeScanned
  <2> DEFINE r == Winner(cls)
  <2>1. r \in Rule /\ rule[r].match_len > 0 /\ rule[r].match_len <= Len(cache)
    BY <1>2, ScannedWinner
  <2>2. /\ Take(r) /\ UNCHANGED <<text, first, ending, outcome>>
        /\ pc = "judge" /\ pc' = "scan"
    BY <1>2 DEF TakeScanned, Fixed
  <2>3. \A w \in Seq(Char) :
           Len(cache) <= Len(w) /\ (\A k \in 1 .. Len(cache) : w[k] = Unread[k])
           => Chosen(r, w)
    BY <1>2, ChosenScanned
  <2>4. Growing' => Growing
    BY <2>2 DEF Growing
  <2> HIDE DEF r
  <2>. QED
    BY <2>1, <2>2, <2>3, <2>4, TakeBest
<1>3. CASE EndTake
  <2> DEFINE r == Winner(Smallest(Endable))
  <2>1. r \in Rule /\ rule[r].match_len > 0 /\ rule[r].match_len <= Len(cache)
    BY <1>3, EndWinner
  <2>2. /\ Take(r) /\ UNCHANGED <<text, first, outcome>> /\ pc = "end"
        /\ pc' = "end" \/ ending'
    BY <1>3 DEF EndTake, Fixed
  <2>3. Chosen(r, Unread)
    BY <1>3, ChosenAtEnd
  <2>4. ~Growing /\ ~Growing'
    BY <2>2 DEF Words, GivenUp, Growing
  <2> HIDE DEF r
  <2>. QED
    BY <2>1, <2>2, <2>3, <2>4, TakeBest
<1>4. CASE Reset
  <2>1. taken' = << >>
    BY <1>4 DEF Reset
  <2>. QED
    BY <2>1 DEF BestForever, BestIn
<1>5. CASE \/ ScanNext \/ ScanDone \/ SkipClass \/ FeedClass \/ PassClass \/ StayAlive
           \/ NoRuleMatch \/ FeedEnd \/ EndFail \/ EndDone \/ UNCHANGED vars
  <2>1. UNCHANGED <<text, taken, first, ending>>
    BY <1>5 DEF ScanNext, ScanDone, SkipClass, FeedClass, PassClass, StayAlive,
                NoRuleMatch, FeedEnd, EndFail, EndDone, Throw, Return, Fixed,
                vars, machine, ghost
  <2>2. Growing' => Growing
    BY <1>5 DEF Words, GivenUp, Growing, ScanNext, ScanDone, SkipClass, FeedClass,
                PassClass, StayAlive, NoRuleMatch, FeedEnd, EndFail, EndDone, Throw,
                Return, vars, machine, CallAllowed
  <2>3. \A v : MayBecome(v)' => MayBecome(v)
    BY <2>1, <2>2 DEF MayBecome, Begins
  <2>. QED
    BY <2>1, <2>3, QuietBest
<1>. QED
  BY <1>1, <1>2, <1>3, <1>4, <1>5 DEF Next, Step

\* A token that has been taken is the longest match of the most urgent class,
\* in whatever the text becomes: with rules that are regular expressions, and
\* none that keeps state past its match, whatever the rules and the text.
THEOREM LongestIsTaken ==
  ASSUME \A r \in Rule : Shape[r].spare = {}
  PROVE  Spec => []LongestMatch
<1>1. Init => BestForever
  BY DEF Init, BestForever, BestIn
<1>2. IInv /\ Words /\ BestForever /\ [Next]_vars => BestForever'
  BY NextBest
<1>3. IInv /\ BestForever => LongestMatch
  <2>1. SUFFICES ASSUME IInv, BestForever PROVE BestTaken(first)
    BY DEF LongestMatch
  <2>2. text \in Seq(Char) /\ Begins(text, text)
    BY <2>1 DEF IInv, TypeOK, Begins
  <2>3. BestIn(text, first)
    BY <2>1, <2>2 DEF BestForever, MayBecome
  <2>. QED
    BY <2>3 DEF BestIn, Best, BestTaken, Rest
<1>. QED
  BY <1>1, <1>2, <1>3, WordsInvariant, PTL DEF Spec

\* A call throws only where no rule has a word at the front of what is left of
\* the text, whatever the rules and the text.
THEOREM FailureIsJustified == Spec => []FailsOnlyWithoutMatch
<1>1. IInv /\ Words => FailsOnlyWithoutMatch
  <2>1. SUFFICES ASSUME IInv, Words, outcome \in Errors,
                        NEW o \in Options(Unread, LastBefore(Len(taken) + 1, first))
                 PROVE  FALSE
    BY DEF FailsOnlyWithoutMatch, Unread
  <2>2. major = 0 /\ (\A r \in Rule : rule[r].match_len = 0) /\ pc = "idle"
    BY <2>1 DEF Words, GivenUp, Errors
  <2>3. o \in Options(Unread, last)
    BY <2>1 DEF Words, LastKnown
  <2>4. /\ o[1] \in Rule /\ last \in Shape[o[1]].after /\ o[2] \in 1 .. Len(Unread)
        /\ IsWord(o[1], Unread, o[2])
    BY <2>3 DEF Options
  <2>5. Len(Unread) = Len(cache)
    BY <2>1, UnreadFacts
  <2>6. FedSoFar(o[1]) = Len(cache)
    BY <2>2 DEF FedSoFar
  <2>7. Knows(o[1], rule[o[1]], last, Unread, Len(cache))
    BY <2>1, <2>2, <2>4, <2>6 DEF Words, RulesKnow, Visible
  <2>8. o[2] <= rule[o[1]].match_len
    BY <2>4, <2>5, <2>7 DEF Knows
  <2>. QED
    BY <2>2, <2>4, <2>8
<1>. QED
  BY <1>1, WordsInvariant, PTL

------------------------------------------------------------------------------
(* What the caller is given *)

\* Where every rule is dead and none has matched, every turn leaves it so.
LEMMA StuckStays ==
  ASSUME IInv, Words, Stuck, [Next]_vars, ~Reset
  PROVE  Stuck' /\ UNCHANGED taken
<1>1. /\ cache # << >> /\ major = 0 /\ m_pos > 0
      /\ \A r \in Rule : Dead(r, rule[r]) /\ rule[r].match_len = 0
  BY DEF Stuck, Words, GivenUp
<1>2. \A i : Candidates(i) = {}
  BY <1>1 DEF Candidates, InClass
<1>3. Endable = {}
  BY <1>2 DEF Endable
<1>4. ASSUME NEW c \in Char, FeedChar(c) PROVE Stuck' /\ UNCHANGED taken
  <2>1. /\ cache' = Append(cache, [char |-> c, pos |-> m_pos]) /\ cache_pos' = Len(cache')
        /\ pc' = "scan" /\ UNCHANGED <<rule, major, taken>>
    BY <1>1, <1>4 DEF FeedChar
  <2>2. cache \in Seq(Entry) /\ Len(cache) \in Nat
    BY DEF IInv, TypeOK, Entry
  <2>3. cache' # << >> /\ cache_pos' <= Len(cache')
    BY <2>1, <2>2
  <2>. QED
    BY <1>1, <2>1, <2>3 DEF Stuck
<1>5. CASE ScanNext \/ ScanDone
  <2>1. pc = "scan" /\ cache_pos <= Len(cache) /\ cache_pos \in Nat /\ Len(cache) \in Nat
    BY <1>5, Parts DEF Stuck, ScanNext, ScanDone
  <2>2. ScanNext
    BY <1>5, <2>1 DEF ScanDone
  <2>. QED
    BY <1>1, <2>2 DEF Stuck, ScanNext
<1>6. CASE SkipClass \/ StayAlive \/ TakeScanned \/ EndTake \/ EndDone
  BY <1>1, <1>2, <1>3, <1>6 DEF Stuck, SkipClass, StayAlive, TakeScanned, EndTake, EndDone
<1>7. CASE FeedClass
  <2>1. \A r \in Rule : rule'[r] = rule[r]
    BY <1>1, <1>7, Zenon DEF FeedClass, Fed
  <2>2. major' = major
    BY <1>1, <1>7 DEF FeedClass, InClass
  <2>3. pc = "class" /\ pc' = "judge" /\ UNCHANGED <<cache, taken, prevs_is_dead>>
    BY <1>7 DEF FeedClass
  <2>4. prevs_is_dead
    BY <2>3 DEF Stuck
  <2>. QED
    BY <1>1, <2>1, <2>2, <2>3, <2>4 DEF Stuck
<1>8. CASE PassClass
  <2>1. /\ pc = "judge" /\ pc' = "class" /\ UNCHANGED <<rule, major, cache, taken>>
        /\ prevs_is_dead' = (prevs_is_dead /\ CurrentIsDead(cls))
    BY <1>8 DEF PassClass
  <2>2. prevs_is_dead'
    BY <1>1, <2>1 DEF Stuck, CurrentIsDead, InClass
  <2>. QED
    BY <1>1, <2>1, <2>2 DEF Stuck
<1>9. CASE NoRuleMatch \/ FeedEnd \/ EndFail
  BY <1>1, <1>9 DEF Stuck, NoRuleMatch, FeedEnd, EndFail, Throw
<1>10. CASE UNCHANGED vars
  BY <1>10 DEF Stuck, vars, machine, ghost
<1>. QED
  BY <1>4, <1>5, <1>6, <1>7, <1>8, <1>9, <1>10 DEF Next, Step

\* A token is added to what the call has collected, if it is shown.
LEMMA TakeDelivers ==
  ASSUME IInv, Words, Delivered, TakeScanned \/ EndTake
  PROVE  Delivered'
<1>1. /\ pc # "idle" /\ UNCHANGED <<out, outcome>>
      /\ \E i : Candidates(i) # {}
  <2>1. CASE TakeScanned
    BY <2>1 DEF TakeScanned
  <2>2. CASE EndTake
    BY <2>2 DEF EndTake, Endable
  <2>. QED
    BY <2>1, <2>2
<1>2. outcome = "running"
  BY <1>1 DEF Words, GivenUp
<1>3. ~Stuck
  BY <1>1 DEF Stuck, Candidates, InClass
<1>4. out \o batch = Toks(taken) /\ out \in Seq(Token) /\ batch \in Seq(Token)
  BY <1>2, <1>3 DEF Delivered, IInv, TypeOK
<1>5. PICK cut \in Cut :
         /\ taken' = Append(taken, cut)
         /\ batch' = IF cut.tok.kind # Skip THEN Append(batch, cut.tok) ELSE batch
  <2>1. CASE TakeScanned
    <3> DEFINE r == Winner(cls)
    <3>1. r \in Rule /\ rule[r].match_len > 0 /\ rule[r].match_len <= Len(cache)
      BY <2>1, ScannedWinner
    <3>2. Take(r)
      BY <2>1 DEF TakeScanned
    <3> HIDE DEF r
    <3>. QED
      BY <3>1, <3>2, TakeCut
  <2>2. CASE EndTake
    <3> DEFINE r == Winner(Smallest(Endable))
    <3>1. r \in Rule /\ rule[r].match_len > 0 /\ rule[r].match_len <= Len(cache)
      BY <2>2, EndWinner
    <3>2. Take(r)
      BY <2>2 DEF EndTake
    <3> HIDE DEF r
    <3>. QED
      BY <3>1, <3>2, TakeCut
  <2>. QED
    BY <2>1, <2>2
<1>6. taken \in Seq(Cut) /\ cut.tok \in Token
  BY DEF IInv, TypeOK, Cut
<1>7. Toks(taken') = IF cut.tok.kind = Skip THEN Toks(taken) ELSE Append(Toks(taken), cut.tok)
  BY <1>5, <1>6, ToksAppend
<1>8. out \o batch' = Toks(taken')
  <2>1. out \o Append(batch, cut.tok) = Append(out \o batch, cut.tok)
    BY <1>4, <1>6, AppendIsConcat, ConcatAssociative
  <2>. QED
    BY <1>4, <1>5, <1>7, <2>1
<1>. QED
  BY <1>1, <1>2, <1>8 DEF Delivered

\* Every step keeps that the tokens shown reach the caller.
LEMMA NextDelivers == IInv /\ Words /\ Delivered /\ [Next]_vars => Delivered'
<1> SUFFICES ASSUME IInv, Words, Delivered, [Next]_vars PROVE Delivered'
  OBVIOUS
<1>1. out \in Seq(Token) /\ batch \in Seq(Token)
  BY DEF IInv, TypeOK
<1>2. \A s \in Seq(Token) : s \o << >> = s
  BY ConcatEmptySeq
<1>3. ASSUME NEW c \in Char, FeedChar(c) PROVE Delivered'
  <2>1. /\ batch' = << >> /\ outcome' = "running" /\ UNCHANGED <<out, taken>>
        /\ outcome \in {"reset", "fed", "no rule match"}
    BY <1>3 DEF FeedChar, CallAllowed
  <2>2. CASE outcome = "no rule match"
    <3>1. Stuck /\ ~Reset
      BY <1>3, <2>2 DEF Delivered, FeedChar, Reset
    <3>2. Stuck'
      BY <3>1, StuckStays
    <3>. QED
      BY <2>1, <3>2 DEF Delivered
  <2>3. CASE outcome # "no rule match"
    BY <1>1, <1>2, <2>1, <2>3 DEF Delivered, Toks
  <2>. QED
    BY <2>2, <2>3
<1>4. CASE FeedEnd
  <2>1. /\ batch' = << >> /\ outcome' = "running" /\ UNCHANGED <<out, taken>>
        /\ outcome \in {"reset", "fed", "no rule match"} /\ pc' = "end"
    BY <1>4 DEF FeedEnd, CallAllowed
  <2>2. CASE outcome = "no rule match"
    <3>1. Stuck /\ ~Reset
      BY <2>1, <2>2 DEF Delivered, Reset
    <3>2. Stuck'
      BY <3>1, StuckStays
    <3>. QED
      BY <2>1, <3>2 DEF Delivered
  <2>3. CASE outcome # "no rule match"
    BY <1>1, <1>2, <2>1, <2>3 DEF Delivered, Toks
  <2>. QED
    BY <2>2, <2>3
<1>5. CASE Reset
  <2>1. out' = << >> /\ taken' = << >> /\ outcome' = "reset"
    BY <1>5 DEF Reset
  <2>2. Toks(<< >>) = << >>
    BY ShownNone DEF Toks
  <2>3. out' = Toks(taken')
    BY <2>1, <2>2
  <2>. QED
    BY <2>1, <2>3 DEF Delivered
<1>6. CASE TakeScanned \/ EndTake
  BY <1>6, TakeDelivers
<1>7. CASE NoRuleMatch
  <2>1. /\ pc = "class" /\ cls > LastClass /\ prevs_is_dead /\ outcome' = "no rule match"
        /\ pc' = "idle" /\ UNCHANGED <<rule, major, cache>>
    BY <1>7 DEF NoRuleMatch, Throw
  <2>2. /\ major = 0 /\ cache # << >>
        /\ \A r \in Rule : Dead(r, rule[r]) /\ rule[r].match_len = 0
    BY <2>1, NoneAlive
  <2>3. Stuck'
    BY <2>1, <2>2 DEF Stuck
  <2>. QED
    BY <2>1, <2>3 DEF Delivered
<1>8. CASE EndFail
  BY <1>8 DEF EndFail, Throw, Delivered
<1>9. CASE (ScanDone /\ ~ending) \/ EndDone
  <2>1. /\ pc # "idle" /\ outcome' \in {"fed", "ended"} /\ out' = out \o batch
        /\ outcome' = "ended" => cache' = << >>
        /\ UNCHANGED taken
    BY <1>9 DEF ScanDone, EndDone, Return
  <2>2. outcome = "running"
    BY <2>1 DEF Words, GivenUp
  <2>3. ~Stuck
    BY <1>9, Parts DEF Stuck, ScanDone, EndDone
  <2>. QED
    BY <2>1, <2>2, <2>3 DEF Delivered, Toks
<1>10. CASE \/ ScanDone /\ ending
            \/ ScanNext \/ SkipClass \/ FeedClass \/ PassClass \/ StayAlive
  <2>1. pc # "idle" /\ UNCHANGED <<out, batch, outcome, taken>> /\ ~Reset
    BY <1>10 DEF ScanDone, ScanNext, SkipClass, FeedClass, PassClass, StayAlive, Reset
  <2>2. outcome = "running"
    BY <2>1 DEF Words, GivenUp
  <2>3. Stuck => Stuck'
    BY <2>1, StuckStays
  <2>. QED
    BY <2>1, <2>2, <2>3 DEF Delivered, Toks
<1>11. CASE UNCHANGED vars
  BY <1>11 DEF Delivered, Toks, Stuck, vars, machine, ghost
<1>. QED
  BY <1>3, <1>4, <1>5, <1>6, <1>7, <1>8, <1>9, <1>10, <1>11 DEF Next, Step

\* When no call has thrown, the caller has been given every token taken, in
\* order, and after feed_end() no character is left, whatever the rules and
\* the text.
THEOREM CallerHasTokens == Spec => []TokensDelivered
<1>1. Init => Delivered
  <2>1. SUFFICES ASSUME Init PROVE Delivered
    OBVIOUS
  <2>2. /\ out = << >> /\ taken = << >> /\ outcome = "reset"
    BY <2>1 DEF Init
  <2>3. Toks(<< >>) = << >>
    BY ShownNone DEF Toks
  <2>. QED
    BY <2>2, <2>3 DEF Delivered
<1>2. IInv /\ Words /\ Delivered /\ [Next]_vars => Delivered'
  BY NextDelivers
<1>3. Delivered => TokensDelivered
  BY DEF Delivered, TokensDelivered, Toks
<1>. QED
  BY <1>1, <1>2, <1>3, WordsInvariant, PTL DEF Spec

------------------------------------------------------------------------------
(* Positions *)

\* BytesBefore, of any text.
SumsUp(w, n, f) ==
    f = [k \in 0 .. n |-> IF k = 0 THEN 0 ELSE f[k - 1] + Width[w[k]]]

Bytes(w, n) == (CHOOSE f : SumsUp(w, n, f))[n]

\* There is a count of the bytes of every prefix of a text.
LEMMA SumsExist ==
  ASSUME NEW w, NEW b \in Nat PROVE \E f : SumsUp(w, b, f)
<1> DEFINE S == {n \in Nat : \E f : SumsUp(w, n, f)}
<1>1. 0 \in S
  <2>1. SumsUp(w, 0, [k \in 0 .. 0 |-> 0])
    BY DEF SumsUp
  <2>. QED
    BY <2>1
<1>2. ASSUME NEW n \in S PROVE n + 1 \in S
  <2>1. PICK f : SumsUp(w, n, f)
    BY <1>2
  <2> DEFINE g == [k \in 0 .. n + 1 |-> IF k = n + 1 THEN f[n] + Width[w[n + 1]]
                                        ELSE f[k]]
  <2>2. n \in Nat /\ n + 1 \in Nat
    OBVIOUS
  <2>3. ASSUME NEW k \in 0 .. n + 1
        PROVE  g[k] = IF k = 0 THEN 0 ELSE g[k - 1] + Width[w[k]]
    <3>1. CASE k = n + 1
      <4>1. k # 0 /\ k - 1 = n /\ n \in 0 .. n + 1 /\ n # n + 1
        BY <2>2, <3>1
      <4>2. g[k - 1] = f[n]
        BY <4>1
      <4>. QED
        BY <3>1, <4>1, <4>2
    <3>2. CASE k # n + 1
      <4>1. k \in 0 .. n /\ (k # 0 => k - 1 \in 0 .. n + 1 /\ k - 1 # n + 1)
        BY <2>2, <3>2
      <4>2. g[k] = f[k] /\ (k # 0 => g[k - 1] = f[k - 1])
        BY <4>1, <3>2
      <4>3. f[k] = IF k = 0 THEN 0 ELSE f[k - 1] + Width[w[k]]
        BY <4>1, <2>1 DEF SumsUp
      <4>. QED
        BY <4>2, <4>3
    <3>. QED
      BY <3>1, <3>2
  <2>4. SumsUp(w, n + 1, g)
    <3>1. g = [k \in 0 .. n + 1 |-> g[k]]
      OBVIOUS
    <3> HIDE DEF g
    <3>. QED
      BY <2>3, <3>1 DEF SumsUp
  <2>. QED
    BY <2>2, <2>4
<1>3. 0 .. b \subseteq S
  <2> HIDE DEF S
  <2>. QED
    BY <1>1, <1>2, Induction
<1>. QED
  BY <1>3

\* The first b characters of two texts are the same.
Alike(w, v, b) == \A k \in 1 .. b : w[k] = v[k]

\* Two counts of texts that begin alike.
LEMMA SumsAgree ==
  ASSUME NEW w, NEW v, NEW n \in Nat, NEW m \in Nat, NEW f, NEW g,
         SumsUp(w, n, f), SumsUp(v, m, g),
         NEW b \in Nat, b <= n, b <= m, Alike(w, v, b)
  PROVE  f[b] = g[b]
<1> DEFINE S == {k \in 0 .. b : f[k] = g[k]}
<1>1. \A k \in 0 .. n : f[k] = IF k = 0 THEN 0 ELSE f[k - 1] + Width[w[k]]
  BY DEF SumsUp
<1>2. \A k \in 0 .. m : g[k] = IF k = 0 THEN 0 ELSE g[k - 1] + Width[v[k]]
  BY DEF SumsUp
<1>3. 0 \in S
  <2>1. 0 \in 0 .. n /\ 0 \in 0 .. m /\ 0 \in 0 .. b
    OBVIOUS
  <2>2. f[0] = 0 /\ g[0] = 0
    BY <1>1, <1>2, <2>1
  <2>. QED
    BY <2>1, <2>2
<1>4. ASSUME NEW k \in S, k + 1 <= b PROVE k + 1 \in S
  <2>1. k \in Nat /\ k + 1 \in 0 .. n /\ k + 1 \in 0 .. m /\ k + 1 \in 1 .. b /\ k + 1 \in 0 .. b
        /\ k + 1 # 0 /\ (k + 1) - 1 = k /\ f[k] = g[k]
    BY <1>4
  <2>2. w[k + 1] = v[k + 1]
    BY <2>1 DEF Alike
  <2>3. f[k + 1] = f[k] + Width[w[k + 1]] /\ g[k + 1] = g[k] + Width[v[k + 1]]
    BY <1>1, <1>2, <2>1
  <2>. QED
    BY <2>1, <2>2, <2>3
<1>5. 0 .. b \subseteq S
  <2> HIDE DEF S
  <2>0. \A k \in S : k \in 0 .. b
    BY DEF S
  <2>. QED
    BY <1>3, <1>4, <2>0, Induction
<1>6. b \in 0 .. b
  OBVIOUS
<1>. QED
  BY <1>5, <1>6

\* Bytes is the end of such a count.
LEMMA BytesAreSums ==
  ASSUME NEW w, NEW n \in Nat
  PROVE  \E f : SumsUp(w, n, f) /\ Bytes(w, n) = f[n]
BY SumsExist DEF Bytes

\* The count, character by character.
LEMMA BytesNext ==
  ASSUME NEW w, NEW n \in Nat
  PROVE  Bytes(w, 0) = 0 /\ Bytes(w, n + 1) = Bytes(w, n) + Width[w[n + 1]]
<1>1. PICK f : SumsUp(w, 0, f) /\ Bytes(w, 0) = f[0]
  BY BytesAreSums
<1>2. PICK g : SumsUp(w, n, g) /\ Bytes(w, n) = g[n]
  BY BytesAreSums
<1>3. n + 1 \in Nat /\ n <= n + 1 /\ n + 1 \in 0 .. n + 1 /\ n + 1 # 0 /\ (n + 1) - 1 = n
      /\ n <= n /\ 0 \in Nat
  OBVIOUS
<1>4. PICK h : SumsUp(w, n + 1, h) /\ Bytes(w, n + 1) = h[n + 1]
  BY <1>3, BytesAreSums
<1>5. f[0] = 0
  BY <1>1 DEF SumsUp
<1>6. h[n + 1] = h[n] + Width[w[n + 1]]
  BY <1>3, <1>4 DEF SumsUp
<1>7. h[n] = g[n]
  <2>1. Alike(w, w, n)
    BY DEF Alike
  <2> DEFINE m == n + 1
  <2>2. m \in Nat /\ n <= m /\ n <= n /\ SumsUp(w, m, h) /\ SumsUp(w, n, g)
    BY <1>2, <1>3, <1>4
  <2> HIDE DEF m
  <2>. QED
    BY <2>1, <2>2, SumsAgree
<1>. QED
  BY <1>1, <1>2, <1>4, <1>5, <1>6, <1>7

\* Appending to a text does not move what it has.
LEMMA BytesAgree ==
  ASSUME NEW w, NEW v, NEW n \in Nat, \A k \in 1 .. n : w[k] = v[k]
  PROVE  Bytes(w, n) = Bytes(v, n)
<1>1. PICK f : SumsUp(w, n, f) /\ Bytes(w, n) = f[n]
  BY BytesAreSums
<1>2. PICK g : SumsUp(v, n, g) /\ Bytes(v, n) = g[n]
  BY BytesAreSums
<1>3. n <= n /\ Alike(w, v, n)
  BY DEF Alike
<1>4. f[n] = g[n]
  BY <1>1, <1>2, <1>3, SumsAgree
<1>. QED
  BY <1>1, <1>2, <1>4

\* A character has at least one byte, so that positions only go up.
LEMMA BytesGrow ==
  ASSUME NEW w \in Seq(Char), NEW n \in 0 .. Len(w)
  PROVE  /\ Bytes(w, n) \in Nat
         /\ \A k \in 0 .. n - 1 : Bytes(w, k) < Bytes(w, n)
<1> DEFINE B(k) == Bytes(w, k)
           Good(k) == B(k) \in Nat /\ \A j \in 0 .. k - 1 : B(j) \in Nat /\ B(j) < B(k)
           S == {k \in 0 .. n : Good(k)}
<1>1. 0 \in S
  <2>1. B(0) = 0 /\ 0 \in 0 .. n
    BY BytesNext
  <2>. QED
    BY <2>1
<1>2. ASSUME NEW k \in S, k + 1 <= n PROVE k + 1 \in S
  <2>1. k \in 0 .. n /\ Good(k) /\ k \in Nat /\ k + 1 \in 0 .. n /\ k + 1 \in 1 .. Len(w)
    BY <1>2
  <2>2. w[k + 1] \in Char
    BY <2>1
  <2>3. Width[w[k + 1]] \in Nat /\ Width[w[k + 1]] > 0
    BY <2>2, LexerAssumption
  <2>4. B(k + 1) = B(k) + Width[w[k + 1]]
    BY <2>1, BytesNext
  <2> HIDE DEF B
  <2>5. B(k + 1) \in Nat /\ B(k) \in Nat /\ B(k) < B(k + 1)
    BY <2>1, <2>3, <2>4
  <2>6. ASSUME NEW j \in 0 .. (k + 1) - 1 PROVE B(j) \in Nat /\ B(j) < B(k + 1)
    <3>1. CASE j = k
      BY <2>5, <3>1
    <3>2. CASE j # k
      <4>1. j \in 0 .. k - 1
        BY <2>1, <3>2
      <4>. QED
        BY <2>1, <2>5, <4>1
    <3>. QED
      BY <3>1, <3>2
  <2>. QED
    BY <2>1, <2>5, <2>6
<1>3. 0 .. n \subseteq S
  <2> HIDE DEF S
  <2>0. \A k \in S : k \in 0 .. n
    BY DEF S
  <2>. QED
    BY <1>1, <1>2, <2>0, Induction
<1>4. n \in S
  BY <1>3
<1>. QED
  BY <1>4

\* What BytesBefore is.
LEMMA BytesAreBytes ==
  ASSUME NEW k \in Nat PROVE BytesBefore(k) = Bytes(text, k)
BY Zenon DEF BytesBefore, Bytes, SumsUp

\* The line a place in a text is in, and the byte that line begins with.
Nls(w, k) == {n \in 1 .. k : w[n] = Newline}

LineAt(w, k) == Cardinality(Nls(w, k)) + 1

\* Where the line behind the last of the newlines S begins.
Behind(w, S) ==
    IF S = {} THEN 0 ELSE Bytes(w, CHOOSE n \in S : \A m \in S : m <= n)

LineStart(w, k) == Behind(w, Nls(w, k))

\* Line i of the table holds the byte at pos.
InLine(li, i, pos) ==
    /\ i \in 1 .. Len(li) /\ li[i] <= pos
    /\ i < Len(li) => pos < li[i + 1]

Rising(li) == \A i, j \in 1 .. Len(li) : i < j => li[i] < li[j]

\* The table of line starts is that of the text w, for every place in it.
Lined(w, li) ==
    /\ li \in Seq(Nat) /\ Rising(li)
    /\ Len(li) = LineAt(w, Len(w))
    /\ \A k \in 0 .. Len(w) : /\ InLine(li, LineAt(w, k), Bytes(w, k))
                              /\ li[LineAt(w, k)] = LineStart(w, k)

Placed == m_pos = Bytes(text, Len(text)) /\ Lined(text, linfo)

\* The newlines of a text that has grown by one character.
LEMMA NlsNext ==
  ASSUME NEW w, NEW k \in Nat
  PROVE  /\ Nls(w, 0) = {} /\ IsFiniteSet(Nls(w, k)) /\ LineAt(w, k) \in Nat \ {0}
         /\ w[k + 1] = Newline => /\ Nls(w, k + 1) = Nls(w, k) \cup {k + 1}
                                  /\ LineAt(w, k + 1) = LineAt(w, k) + 1
         /\ w[k + 1] # Newline => /\ Nls(w, k + 1) = Nls(w, k)
                                  /\ LineAt(w, k + 1) = LineAt(w, k)
<1>1. Nls(w, 0) = {}
  BY DEF Nls
<1>2. IsFiniteSet(Nls(w, k))
  <2>1. IsFiniteSet(1 .. k) /\ Nls(w, k) \subseteq 1 .. k
    BY FS_Interval DEF Nls
  <2>. QED
    BY <2>1, FS_Subset
<1>3. Cardinality(Nls(w, k)) \in Nat
  BY <1>2, FS_CardinalityType
<1>4. k + 1 \notin Nls(w, k)
  BY DEF Nls
<1>5. ASSUME w[k + 1] = Newline PROVE Nls(w, k + 1) = Nls(w, k) \cup {k + 1}
  BY <1>5 DEF Nls
<1>6. ASSUME w[k + 1] # Newline PROVE Nls(w, k + 1) = Nls(w, k)
  BY <1>6 DEF Nls
<1>7. Cardinality(Nls(w, k) \cup {k + 1}) = Cardinality(Nls(w, k)) + 1
  BY <1>2, <1>4, FS_AddElement
<1>. QED
  BY <1>1, <1>2, <1>3, <1>5, <1>6, <1>7 DEF LineAt

\* A set of newlines that is not empty has a last one.
LEMMA GreatestNewline ==
  ASSUME NEW w, NEW k \in Nat, Nls(w, k) # {}
  PROVE  \E n \in Nls(w, k) : \A m \in Nls(w, k) : m <= n
<1> DEFINE T == {k - n : n \in Nls(w, k)}
<1>1. T \in SUBSET Nat /\ T # {}
  BY DEF Nls
<1> HIDE DEF T
<1>2. PICK t \in T : \A u \in T : t <= u
  BY <1>1, LeastNat
<1>3. PICK n \in Nls(w, k) : t = k - n
  BY <1>2 DEF T
<1>4. ASSUME NEW m \in Nls(w, k) PROVE m <= n
  <2>1. k - m \in T
    BY DEF T
  <2>2. k - n <= k - m
    BY <1>2, <1>3, <2>1
  <2>3. m \in Nat /\ n \in Nat
    BY DEF Nls
  <2>. QED
    BY <2>2, <2>3
<1>. QED
  BY <1>4

\* Places up to k are not moved by what comes behind them.
LEMMA PlacesAgree ==
  ASSUME NEW w, NEW v, NEW k \in Nat, \A j \in 1 .. k : w[j] = v[j]
  PROVE  /\ Nls(w, k) = Nls(v, k) /\ LineAt(w, k) = LineAt(v, k)
         /\ Bytes(w, k) = Bytes(v, k) /\ LineStart(w, k) = LineStart(v, k)
<1>1. Nls(w, k) = Nls(v, k)
  BY DEF Nls
<1>2. Bytes(w, k) = Bytes(v, k)
  BY BytesAgree
<1>3. LineStart(w, k) = LineStart(v, k)
  <2>1. CASE Nls(w, k) = {}
    BY <1>1, <2>1 DEF LineStart, Behind
  <2>2. CASE Nls(w, k) # {}
    <3> DEFINE g == CHOOSE n \in Nls(w, k) : \A m \in Nls(w, k) : m <= n
    <3>1. g \in Nls(w, k)
      <4>1. \E n \in Nls(w, k) : \A m \in Nls(w, k) : m <= n
        BY <2>2, GreatestNewline
      <4>. QED
        BY <4>1
    <3> HIDE DEF g
    <3>2. g \in 1 .. k
      BY <3>1 DEF Nls
    <3>3. Bytes(w, g) = Bytes(v, g)
      BY <3>2, BytesAgree
    <3>. QED
      BY <1>1, <2>2, <3>3 DEF LineStart, Behind, g
  <2>. QED
    BY <2>1, <2>2
<1>. QED
  BY <1>1, <1>2, <1>3 DEF LineAt

\* A character is fed: a newline begins a line behind it.
LEMMA LinedFeed ==
  ASSUME NEW w \in Seq(Char), NEW c \in Char, NEW li, Lined(w, li), NEW size,
         size = Bytes(w, Len(w)) + Width[c]
  PROVE  /\ size = Bytes(Append(w, c), Len(w) + 1)
         /\ Lined(Append(w, c), IF c = Newline THEN Append(li, size) ELSE li)
<1> DEFINE n == Len(w)
           v == Append(w, c)
           lj == IF c = Newline THEN Append(li, size) ELSE li
<1>1. /\ n \in Nat /\ v \in Seq(Char) /\ Len(v) = n + 1 /\ v[n + 1] = c
      /\ \A j \in 1 .. n : w[j] = v[j]
  OBVIOUS
<1>2. /\ li \in Seq(Nat) /\ Rising(li) /\ Len(li) = LineAt(w, n)
      /\ \A k \in 0 .. n : /\ InLine(li, LineAt(w, k), Bytes(w, k))
                           /\ li[LineAt(w, k)] = LineStart(w, k)
  BY DEF Lined
<1> HIDE DEF v
<1>3. ASSUME NEW k \in 0 .. n
      PROVE  /\ LineAt(w, k) = LineAt(v, k) /\ Bytes(w, k) = Bytes(v, k)
             /\ LineStart(w, k) = LineStart(v, k) /\ Nls(w, k) = Nls(v, k)
  <2>1. k \in Nat /\ \A j \in 1 .. k : w[j] = v[j]
    BY <1>1
  <2>. QED
    BY <2>1, PlacesAgree
<1>4. n \in 0 .. n /\ n + 1 \in 0 .. Len(v)
  BY <1>1
<1>5. Bytes(v, n + 1) = size
  BY <1>1, <1>3, <1>4, BytesNext
<1>6. size \in Nat /\ \A k \in 0 .. n : Bytes(w, k) < size /\ Bytes(w, k) \in Nat
  <2>1. size \in Nat /\ \A k \in 0 .. (n + 1) - 1 : Bytes(v, k) < size
    BY <1>1, <1>4, <1>5, BytesGrow
  <2>2. \A k \in 0 .. n : Bytes(w, k) \in Nat
    BY <1>1, BytesGrow
  <2>. QED
    BY <1>1, <1>3, <2>1, <2>2
<1> DEFINE m == Len(li)
<1>7. m \in Nat /\ m = LineAt(v, n) /\ m \in 1 .. m /\ \A i \in 1 .. m : li[i] \in Nat
  <2>1. m = LineAt(v, n) /\ m \in Nat /\ \A i \in 1 .. m : li[i] \in Nat
    BY <1>2, <1>3, <1>4
  <2>2. m \in Nat \ {0}
    BY <1>1, <2>1, NlsNext
  <2>. QED
    BY <2>1, <2>2
<1>8. \A i \in 1 .. m : li[i] < size
  <2>1. li[m] <= Bytes(w, n)
    BY <1>2, <1>4 DEF InLine
  <2>2. li[m] < size
    BY <1>4, <1>6, <1>7, <2>1
  <2>3. ASSUME NEW i \in 1 .. m, i # m PROVE li[i] < li[m]
    BY <1>2, <1>7, <2>3 DEF Rising
  <2>. QED
    BY <1>6, <1>7, <2>2, <2>3
<1>9. CASE c = Newline
  <2>1. /\ lj = Append(li, size) /\ lj \in Seq(Nat) /\ Len(lj) = m + 1
        /\ lj[m + 1] = size /\ \A i \in 1 .. m : lj[i] = li[i]
    BY <1>2, <1>6, <1>9
  <2> HIDE DEF lj
  <2>2. LineAt(v, n + 1) = m + 1 /\ Nls(v, n + 1) = Nls(v, n) \cup {n + 1}
    BY <1>1, <1>7, <1>9, NlsNext
  <2> HIDE DEF m, n
  <2>3. Rising(lj)
    <3>1. SUFFICES ASSUME NEW i \in 1 .. m + 1, NEW j \in 1 .. m + 1, i < j
                   PROVE  lj[i] < lj[j]
      BY <2>1 DEF Rising
    <3>2. i \in 1 .. m
      BY <1>7, <3>1
    <3>3. CASE j = m + 1
      BY <1>8, <2>1, <3>2, <3>3
    <3>4. CASE j # m + 1
      <4>1. j \in 1 .. m
        BY <1>7, <3>4
      <4>2. li[i] < li[j]
        BY <1>2, <3>1, <3>2, <4>1 DEF Rising, m
      <4>. QED
        BY <2>1, <3>2, <4>1, <4>2
    <3>. QED
      BY <3>3, <3>4
  <2>4. ASSUME NEW k \in 0 .. n
        PROVE  InLine(lj, LineAt(v, k), Bytes(v, k)) /\ lj[LineAt(v, k)] = LineStart(v, k)
    <3> DEFINE i == LineAt(v, k)
               b == Bytes(v, k)
    <3>1. InLine(li, i, b) /\ li[i] = LineStart(v, k) /\ b \in Nat /\ b < size
      BY <1>2, <1>3, <1>6
    <3> HIDE DEF i, b
    <3>2. /\ i \in 1 .. m /\ li[i] <= b /\ (i < m => b < li[i + 1])
      BY <3>1 DEF InLine, m
    <3>3. i \in 1 .. m + 1 /\ lj[i] = li[i]
      BY <1>7, <2>1, <3>2
    <3>4. ASSUME i < m + 1 PROVE b < lj[i + 1]
      <4>1. CASE i = m
        BY <2>1, <3>1, <4>1
      <4>2. CASE i # m
        <5>1. i < m /\ i + 1 \in 1 .. m
          BY <1>7, <3>2, <4>2
        <5>. QED
          BY <2>1, <3>2, <5>1
      <4>. QED
        BY <4>1, <4>2
    <3>5. InLine(lj, i, b)
      BY <2>1, <3>2, <3>3, <3>4 DEF InLine
    <3>. QED
      BY <3>1, <3>3, <3>5 DEF i, b
  <2>5. InLine(lj, m + 1, size)
    <3>1. m + 1 \in 1 .. m + 1 /\ size <= size /\ ~(m + 1 < m + 1)
      BY <1>6, <1>7
    <3>. QED
      BY <2>1, <3>1 DEF InLine
  <2>6. LineStart(v, n + 1) = size
    <3> DEFINE P(g) == g \in Nls(v, n + 1) /\ \A e \in Nls(v, n + 1) : e <= g
    <3>1. n + 1 \in Nls(v, n + 1) /\ \A e \in Nls(v, n + 1) : e \in 1 .. n + 1
      BY <2>2 DEF Nls
    <3>2. P(n + 1)
      BY <1>1, <3>1 DEF n
    <3>3. \A g : P(g) => g = n + 1
      <4>1. SUFFICES ASSUME NEW g, P(g) PROVE g = n + 1
        OBVIOUS
      <4>2. n + 1 <= g /\ g \in 1 .. n + 1 /\ n \in Nat
        BY <1>1, <3>1, <4>1 DEF n
      <4>. QED
        BY <4>2
    <3>4. (CHOOSE g \in Nls(v, n + 1) : \A e \in Nls(v, n + 1) : e <= g) = n + 1
      <4>1. (CHOOSE g : P(g)) = n + 1
        <5> HIDE DEF P
        <5>. QED
          BY <3>2, <3>3
      <4>. QED
        BY <4>1, Zenon
    <3>. QED
      BY <1>5, <3>1, <3>4 DEF LineStart, Behind, n
  <2>7. ASSUME NEW k \in 0 .. n + 1
        PROVE  InLine(lj, LineAt(v, k), Bytes(v, k)) /\ lj[LineAt(v, k)] = LineStart(v, k)
    <3>1. CASE k = n + 1
      BY <1>5, <2>1, <2>2, <2>5, <2>6, <3>1 DEF n
    <3>2. CASE k # n + 1
      <4>1. k \in 0 .. n
        BY <1>1, <3>2 DEF n
      <4>. QED
        BY <2>4, <4>1
    <3>. QED
      BY <3>1, <3>2
  <2>8. Len(lj) = LineAt(v, Len(v)) /\ 0 .. Len(v) = 0 .. n + 1
    BY <1>1, <2>1, <2>2 DEF n
  <2>9. Lined(v, lj)
    BY <2>1, <2>3, <2>7, <2>8 DEF Lined
  <2>. QED
    BY <1>5, <2>9 DEF n, v, lj
<1>10. CASE c # Newline
  <2>1. lj = li
    BY <1>10
  <2> HIDE DEF lj
  <2>2. LineAt(v, n + 1) = LineAt(v, n) /\ Nls(v, n + 1) = Nls(v, n)
    BY <1>1, <1>10, NlsNext
  <2>3. ASSUME NEW k \in 0 .. n
        PROVE  InLine(li, LineAt(v, k), Bytes(v, k)) /\ li[LineAt(v, k)] = LineStart(v, k)
    BY <1>2, <1>3
  <2>4. LineStart(v, n + 1) = LineStart(v, n)
    BY <2>2, Zenon DEF LineStart
  <2>5. InLine(li, m, size)
    <3>1. li[m] <= size
      BY <1>6, <1>7, <1>8
    <3>. QED
      BY <1>7, <3>1 DEF InLine
  <2>6. ASSUME NEW k \in 0 .. n + 1
        PROVE  InLine(li, LineAt(v, k), Bytes(v, k)) /\ li[LineAt(v, k)] = LineStart(v, k)
    <3>1. CASE k = n + 1
      <4>1. LineAt(v, k) = m /\ Bytes(v, k) = size /\ LineStart(v, k) = LineStart(v, n)
        BY <1>5, <1>7, <2>2, <2>4, <3>1
      <4>2. li[m] = LineStart(v, n)
        BY <1>4, <1>7, <2>3
      <4>. QED
        BY <2>5, <4>1, <4>2
    <3>2. CASE k # n + 1
      <4>1. k \in 0 .. n
        BY <1>1, <3>2
      <4>. QED
        BY <2>3, <4>1
    <3>. QED
      BY <3>1, <3>2
  <2>7. Len(li) = LineAt(v, Len(v)) /\ 0 .. Len(v) = 0 .. n + 1
    BY <1>1, <1>7, <2>2
  <2>8. Lined(v, li)
    BY <1>2, <2>6, <2>7 DEF Lined
  <2>. QED
    BY <1>5, <2>1, <2>8 DEF v, lj
<1>. QED
  BY <1>9, <1>10

\* An empty text has one line.
LEMMA LinedEmpty == Bytes(<< >>, 0) = 0 /\ Lined(<< >>, <<0>>)
<1> DEFINE w == << >>
           li == <<0>>
<1>1. li \in Seq(Nat) /\ Len(li) = 1 /\ li[1] = 0 /\ Len(w) = 0
  OBVIOUS
<1> HIDE DEF w, li
<1>2. Nls(w, 0) = {} /\ Bytes(w, 0) = 0
  BY NlsNext, BytesNext
<1>3. LineAt(w, 0) = 1 /\ LineStart(w, 0) = 0
  BY <1>2, FS_EmptySet DEF LineAt, LineStart, Behind
<1>4. InLine(li, 1, 0)
  BY <1>1 DEF InLine
<1>5. Rising(li)
  BY <1>1 DEF Rising
<1>6. \A k \in 0 .. Len(w) : k = 0
  BY <1>1
<1>7. Lined(w, li)
  BY <1>1, <1>2, <1>3, <1>4, <1>5, <1>6 DEF Lined
<1>. QED
  BY <1>2, <1>7 DEF w, li

\* Every step keeps the table right.
LEMMA NextPlaced == IInv /\ Placed /\ [Next]_vars => Placed'
<1>1. SUFFICES ASSUME IInv, Placed, [Next]_vars PROVE Placed'
  OBVIOUS
<1>2. CASE UNCHANGED <<m_pos, linfo, text>>
  BY <1>1, <1>2 DEF Placed
<1>3. CASE Reset
  BY <1>3, LinedEmpty DEF Reset, Placed
<1>4. ASSUME NEW c \in Char, FeedChar(c) PROVE Placed'
  <2>1. text \in Seq(Char) /\ text' = Append(text, c) /\ Len(text') = Len(text) + 1
    BY <1>1, <1>4 DEF IInv, TypeOK, FeedChar
  <2>2. /\ m_pos' = Bytes(text, Len(text)) + Width[c]
        /\ linfo' = IF c = Newline THEN Append(linfo, m_pos') ELSE linfo
    BY <1>1, <1>4 DEF Placed, FeedChar
  <2>3. Lined(text, linfo)
    BY <1>1 DEF Placed
  <2>4. /\ m_pos' = Bytes(Append(text, c), Len(text) + 1)
        /\ Lined(Append(text, c), IF c = Newline THEN Append(linfo, m_pos') ELSE linfo)
    BY <2>1, <2>2, <2>3, LinedFeed
  <2>. QED
    BY <2>1, <2>2, <2>4 DEF Placed
<1>5. (UNCHANGED vars \/ FeedEnd \/ Step) => UNCHANGED <<m_pos, linfo, text>>
  BY DEF vars, machine, ghost, FeedEnd, Step, ScanNext, ScanDone, SkipClass, FeedClass,
     TakeScanned, PassClass, StayAlive, NoRuleMatch, EndTake, EndFail, EndDone, Fixed
<1>. QED
  BY <1>1, <1>2, <1>3, <1>4, <1>5 DEF Next

\* The search of query() finds the line that holds a byte.
LEMMA SearchFinds ==
  ASSUME NEW li \in Seq(Nat), Rising(li), NEW pos \in Nat, NEW i, InLine(li, i, pos),
         NEW size \in Nat
  PROVE  pos < size => Query(li, size, pos) = [line |-> i, column |-> pos - li[i] + 1]
<1>1. i \in 1 .. Len(li) /\ li[i] <= pos /\ (i < Len(li) => pos < li[i + 1]) /\ i \in Nat
  BY DEF InLine
<1>2. {j \in DOMAIN li : li[j] <= pos} = 1 .. i
  <2>1. DOMAIN li = 1 .. Len(li) /\ Len(li) \in Nat /\ \A j \in 1 .. Len(li) : li[j] \in Nat
    OBVIOUS
  <2>2. ASSUME NEW j \in 1 .. i PROVE j \in 1 .. Len(li) /\ li[j] <= pos
    <3>1. j \in 1 .. Len(li) /\ (j # i => j < i)
      BY <1>1, <2>1
    <3>2. j # i => li[j] < li[i]
      BY <1>1, <3>1 DEF Rising
    <3>. QED
      BY <1>1, <2>1, <3>1, <3>2
  <2>3. ASSUME NEW j \in 1 .. Len(li), li[j] <= pos PROVE j \in 1 .. i
    <3>1. SUFFICES ASSUME j > i PROVE FALSE
      BY <1>1
    <3>2. i < Len(li) /\ i + 1 \in 1 .. Len(li) /\ (j # i + 1 => i + 1 < j)
      BY <1>1, <2>1, <3>1
    <3>3. pos < li[i + 1]
      BY <1>1, <3>2
    <3>4. j # i + 1 => li[i + 1] < li[j]
      BY <3>2 DEF Rising
    <3>. QED
      BY <2>1, <2>3, <3>2, <3>3, <3>4
  <2>. QED
    BY <2>1, <2>2, <2>3
<1>3. Cardinality(1 .. i) = i
  BY <1>1, FS_Interval
<1>4. UpperBound(li, pos) = i + 1
  BY <1>2, <1>3 DEF UpperBound
<1>5. UpperBound(li, pos) - 1 = i
  BY <1>1, <1>4
<1>6. pos < size => ~(pos >= size)
  OBVIOUS
<1>. QED
  BY <1>5, <1>6, Zenon DEF Query

\* Every byte is in a line of a table that begins at the first byte.
LEMMA HasLine ==
  ASSUME NEW li \in Seq(Nat), Len(li) > 0, li[1] = 0, NEW pos \in Nat
  PROVE  \E i : InLine(li, i, pos)
<1> DEFINE T == {j \in 1 .. Len(li) : pos < li[j]} \cup {Len(li) + 1}
<1>1. Len(li) \in Nat /\ 1 \in 1 .. Len(li) /\ \A j \in 1 .. Len(li) : li[j] \in Nat
  OBVIOUS
<1>2. T \in SUBSET Nat /\ T # {}
  BY <1>1
<1>3. PICK t \in T : \A u \in T : t <= u
  <2> HIDE DEF T
  <2>. QED
    BY <1>2, LeastNat
<1>4. t \in 1 .. Len(li) + 1 /\ t # 1
  <2>1. t \in 1 .. Len(li) + 1
    BY <1>1
  <2>2. 1 \notin {j \in 1 .. Len(li) : pos < li[j]} /\ Len(li) + 1 # 1
    BY <1>1
  <2>. QED
    BY <2>1, <2>2
<1>5. t - 1 \in 1 .. Len(li) /\ (t - 1) + 1 = t /\ t - 1 < t
  BY <1>1, <1>4
<1>6. li[t - 1] <= pos
  <2>1. t - 1 \notin T
    BY <1>2, <1>3, <1>5
  <2>. QED
    BY <1>1, <1>5, <2>1
<1>7. t - 1 < Len(li) => pos < li[t]
  BY <1>1, <1>5
<1>. QED
  BY <1>5, <1>6, <1>7 DEF InLine

\* The line and the column of every character.
LEMMA PlacedExact == IInv /\ Placed => PositionsExact
<1>1. SUFFICES ASSUME IInv, Placed, NEW k \in 0 .. Len(text) - 1
               PROVE  Query(linfo, m_pos, BytesBefore(k)) =
                        [line   |-> Cardinality(NewlinesBefore(k)) + 1,
                         column |-> BytesBefore(k) + 1
                           - (IF NewlinesBefore(k) = {} THEN 0
                              ELSE BytesBefore(CHOOSE n \in NewlinesBefore(k) :
                                                 \A m \in NewlinesBefore(k) : m <= n))]
  BY Zenon DEF PositionsExact
<1>2. text \in Seq(Char) /\ Len(text) \in Nat /\ k \in Nat /\ k \in 0 .. Len(text)
      /\ Len(text) \in 0 .. Len(text)
  BY <1>1 DEF IInv, TypeOK
<1>3. NewlinesBefore(k) = Nls(text, k) /\ BytesBefore(k) = Bytes(text, k)
  BY <1>2, BytesAreBytes DEF NewlinesBefore, Nls
<1> DEFINE b == Bytes(text, k)
           i == LineAt(text, k)
<1>4. b \in Nat /\ b < m_pos /\ m_pos \in Nat
  <2>1. m_pos = Bytes(text, Len(text))
    BY <1>1 DEF Placed
  <2>. QED
    BY <1>1, <1>2, <2>1, BytesGrow
<1>5. /\ linfo \in Seq(Nat) /\ Rising(linfo) /\ InLine(linfo, i, b)
      /\ linfo[i] = LineStart(text, k)
  BY <1>1, <1>2 DEF Placed, Lined
<1>6. (IF NewlinesBefore(k) = {} THEN 0
       ELSE BytesBefore(CHOOSE n \in NewlinesBefore(k) :
                          \A m \in NewlinesBefore(k) : m <= n)) = LineStart(text, k)
  <2> DEFINE S == Nls(text, k)
             g == CHOOSE n \in S : \A m \in S : m <= n
  <2>1. CASE S = {}
    BY <1>3, <2>1 DEF LineStart, Behind
  <2>2. CASE S # {}
    <3>1. g \in S
      <4>1. \E n \in S : \A m \in S : m <= n
        BY <1>2, <2>2, GreatestNewline
      <4>. QED
        BY <4>1
    <3>2. g \in Nat
      BY <3>1 DEF Nls
    <3> HIDE DEF g
    <3>3. BytesBefore(g) = Bytes(text, g)
      BY <3>2, BytesAreBytes
    <3>. QED
      BY <1>3, <2>2, <3>3, Zenon DEF LineStart, Behind, g
  <2>. QED
    BY <2>1, <2>2
<1> HIDE DEF b, i
<1>7. Query(linfo, m_pos, b) = [line |-> i, column |-> b - linfo[i] + 1]
  BY <1>4, <1>5, SearchFinds
<1>8. b - linfo[i] + 1 = b + 1 - linfo[i]
  <2>1. linfo[i] \in Nat
    BY <1>5 DEF InLine
  <2>. QED
    BY <1>4, <2>1
<1>. QED
  BY <1>3, <1>5, <1>6, <1>7, <1>8, Zenon DEF b, i, LineAt

\* The bytes of the pieces into which lines() cuts a range.
Pieces(li, size, from, to) ==
  UNION {(li[l.line] + l.beg) .. (li[l.line] + l.end - 1) : l \in Lines(li, size, from, to)}

\* The pieces of lines() are the range.
LEMMA PiecesCover ==
  ASSUME NEW li \in Seq(Nat), Rising(li), li[1] = 0, NEW size \in Nat,
         NEW from \in Nat, NEW to \in Nat, from < to, to <= size,
         NEW lb, InLine(li, lb, from), NEW le, InLine(li, le, to - 1)
  PROVE  Pieces(li, size, from, to) = from .. (to - 1)
<1> DEFINE Beg(l) == IF l = lb THEN from - li[lb] ELSE 0
           End(l) == IF l = le THEN to - li[le]
                     ELSE LineRange(li, size, l)[2] - LineRange(li, size, l)[1]
           Piece(l) == [line |-> l, beg |-> Beg(l), end |-> End(l)]
           Span(l) == (li[l] + Beg(l)) .. (li[l] + End(l) - 1)
<1>1. /\ lb \in 1 .. Len(li) /\ li[lb] <= from /\ (lb < Len(li) => from < li[lb + 1])
      /\ le \in 1 .. Len(li) /\ li[le] <= to - 1 /\ (le < Len(li) => to - 1 < li[le + 1])
      /\ Len(li) \in Nat /\ \A j \in 1 .. Len(li) : li[j] \in Nat
  BY DEF InLine
<1>2. /\ Query(li, size, from) = [line |-> lb, column |-> from - li[lb] + 1]
      /\ Query(li, size, to - 1) = [line |-> le, column |-> (to - 1) - li[le] + 1]
  <2>1. from < size /\ to - 1 < size /\ to - 1 \in Nat
    OBVIOUS
  <2>. QED
    BY <2>1, SearchFinds
<1>3. Lines(li, size, from, to) = {Piece(l) : l \in lb .. le}
  <2>1. from # to
    OBVIOUS
  <2>2. (from - li[lb] + 1) - 1 = from - li[lb] /\ (to - 1) - li[le] + 1 = to - li[le]
    BY <1>1
  <2> DEFINE b == Query(li, size, from)
             e == Query(li, size, to - 1)
  <2>3. /\ b.line = lb /\ b.column - 1 = from - li[lb]
        /\ e.line = le /\ e.column = to - li[le]
    <3>0. /\ b = [line |-> lb, column |-> from - li[lb] + 1]
          /\ e = [line |-> le, column |-> (to - 1) - li[le] + 1]
      BY <1>2
    <3> HIDE DEF b, e
    <3>1. b.line = lb /\ b.column = from - li[lb] + 1
      BY <3>0
    <3>2. e.line = le /\ e.column = (to - 1) - li[le] + 1
      BY <3>0
    <3>. QED
      BY <2>2, <3>1, <3>2
  <2>4. Lines(li, size, from, to) =
          {[line |-> l,
            beg  |-> IF l = b.line THEN b.column - 1 ELSE 0,
            end  |-> IF l = e.line THEN e.column
                     ELSE LineRange(li, size, l)[2] - LineRange(li, size, l)[1]]
           : l \in b.line .. e.line}
    BY <2>1, Zenon DEF Lines
  <2> HIDE DEF b, e
  <2>. QED
    BY <2>3, <2>4
<1>4. ASSUME NEW l \in lb .. le
      PROVE  Span(l) = (IF l = lb THEN from ELSE li[l]) ..
                        (IF l = le THEN to - 1 ELSE li[l + 1] - 1)
  <2>1. l \in 1 .. Len(li) /\ (l # le => l < Len(li) /\ l + 1 \in 1 .. Len(li))
    BY <1>1
  <2>2. li[l] + Beg(l) = IF l = lb THEN from ELSE li[l]
    BY <1>1, <2>1
  <2>3. li[l] + End(l) - 1 = IF l = le THEN to - 1 ELSE li[l + 1] - 1
    <3>1. CASE l = le
      BY <1>1, <2>1, <3>1
    <3>2. CASE l # le
      <4>1. LineRange(li, size, l)[2] = li[l + 1] /\ LineRange(li, size, l)[1] = li[l]
        BY <2>1, <3>2 DEF LineRange
      <4>2. li[l + 1] \in Nat /\ li[l] \in Nat
        BY <1>1, <2>1, <3>2
      <4>. QED
        BY <3>2, <4>1, <4>2
    <3>. QED
      BY <3>1, <3>2
  <2>. QED
    BY <2>2, <2>3
<1>5. UNION {(li[p.line] + p.beg) .. (li[p.line] + p.end - 1) : p \in {Piece(l) : l \in lb .. le}}
        = UNION {Span(l) : l \in lb .. le}
  <2>1. \A l : /\ Piece(l).line = l /\ Piece(l).beg = Beg(l) /\ Piece(l).end = End(l)
    OBVIOUS
  <2> HIDE DEF Piece, Beg, End
  <2>. QED
    BY <2>1, Zenon
<1> HIDE DEF Span, Piece, Beg, End
<1>6. ASSUME NEW l \in lb .. le, NEW x \in Span(l) PROVE x \in from .. (to - 1)
  <2>1. l \in 1 .. Len(li) /\ (l # le => l + 1 \in 1 .. Len(li))
    BY <1>1
  <2>2. l # lb => from < li[l]
    <3>1. SUFFICES ASSUME l # lb PROVE from < li[l]
      OBVIOUS
    <3>2. lb < Len(li) /\ lb + 1 \in 1 .. Len(li) /\ (l # lb + 1 => lb + 1 < l)
      BY <1>1, <2>1, <3>1
    <3>3. from < li[lb + 1] /\ (l # lb + 1 => li[lb + 1] < li[l])
      BY <1>1, <2>1, <3>2 DEF Rising
    <3>. QED
      BY <1>1, <2>1, <3>2, <3>3
  <2>3. l # le => li[l + 1] <= to - 1
    <3>1. SUFFICES ASSUME l # le PROVE li[l + 1] <= to - 1
      OBVIOUS
    <3>2. l + 1 \in 1 .. Len(li) /\ (l + 1 # le => l + 1 < le)
      BY <1>1, <2>1, <3>1
    <3>3. l + 1 # le => li[l + 1] < li[le]
      BY <1>1, <3>2 DEF Rising
    <3>4. CASE l + 1 = le
      BY <1>1, <3>4
    <3>5. CASE l + 1 # le
      <4>1. li[l + 1] \in Nat /\ li[le] \in Nat
        BY <1>1, <3>2
      <4>. QED
        BY <1>1, <3>3, <3>5, <4>1
    <3>. QED
      BY <3>4, <3>5
  <2>4. x \in (IF l = lb THEN from ELSE li[l]) .. (IF l = le THEN to - 1 ELSE li[l + 1] - 1)
    BY <1>4, <1>6
  <2>5. li[l] \in Nat /\ (l # le => li[l + 1] \in Nat)
    BY <1>1, <2>1
  <2>. QED
    BY <2>2, <2>3, <2>4, <2>5
<1>7. ASSUME NEW x \in from .. (to - 1) PROVE \E l \in lb .. le : x \in Span(l)
  <2>1. x \in Nat /\ from <= x /\ x <= to - 1
    OBVIOUS
  <2>2. PICK l : InLine(li, l, x)
    <3>1. Len(li) > 0 /\ 1 \in 1 .. Len(li)
      BY <1>1
    <3>. QED
      BY <2>1, <3>1, HasLine
  <2>3. l \in 1 .. Len(li) /\ li[l] <= x /\ (l < Len(li) => x < li[l + 1])
    BY <2>2 DEF InLine
  <2>4. lb <= l
    <3>1. SUFFICES ASSUME l < lb PROVE FALSE
      BY <1>1, <2>3
    <3>2. l < Len(li) /\ l + 1 \in 1 .. Len(li) /\ (l + 1 # lb => l + 1 < lb)
      BY <1>1, <2>3, <3>1
    <3>3. l + 1 # lb => li[l + 1] < li[lb]
      BY <1>1, <3>2 DEF Rising
    <3>. QED
      BY <1>1, <2>1, <2>3, <3>2, <3>3
  <2>5. l <= le
    <3>1. SUFFICES ASSUME le < l PROVE FALSE
      BY <1>1, <2>3
    <3>2. le < Len(li) /\ le + 1 \in 1 .. Len(li) /\ (le + 1 # l => le + 1 < l)
      BY <1>1, <2>3, <3>1
    <3>3. le + 1 # l => li[le + 1] < li[l]
      BY <1>1, <2>3, <3>2 DEF Rising
    <3>. QED
      BY <1>1, <2>1, <2>3, <3>2, <3>3
  <2>6. l \in lb .. le
    BY <1>1, <2>3, <2>4, <2>5
  <2>7. Span(l) = (IF l = lb THEN from ELSE li[l]) ..
                   (IF l = le THEN to - 1 ELSE li[l + 1] - 1)
    BY <1>4, <2>6
  <2>8. l # le => l < Len(li) /\ l + 1 \in 1 .. Len(li)
    BY <1>1, <2>3, <2>5
  <2>9. x \in Span(l)
    BY <1>1, <2>1, <2>3, <2>7, <2>8
  <2>. QED
    BY <2>6, <2>9
<1>8. UNION {Span(l) : l \in lb .. le} = from .. (to - 1)
  BY <1>6, <1>7, Zenon
<1>. QED
  BY <1>3, <1>5, <1>8, Zenon DEF Pieces

\* With the table right, lines() covers every range.
LEMMA PlacedCover == IInv /\ Placed => LinesCover
<1>1. SUFFICES ASSUME IInv, Placed, NEW from \in 0 .. m_pos, NEW to \in 0 .. m_pos, from <= to
               PROVE  Pieces(linfo, m_pos, from, to) = from .. (to - 1)
  BY Zenon DEF LinesCover, Pieces
<1>2. /\ m_pos \in Nat /\ from \in Nat /\ to \in Nat /\ to <= m_pos
      /\ linfo \in Seq(Nat) /\ Rising(linfo) /\ text \in Seq(Char)
  BY <1>1 DEF IInv, TypeOK, Placed, Lined
<1>3. Len(linfo) > 0 /\ linfo[1] = 0
  <2>1. 0 \in 0 .. Len(text)
    BY <1>2
  <2>2. LineAt(text, 0) = 1 /\ LineStart(text, 0) = 0
    BY NlsNext, FS_EmptySet DEF LineAt, LineStart, Behind
  <2>3. InLine(linfo, 1, Bytes(text, 0)) /\ linfo[1] = 0
    BY <1>1, <2>1, <2>2 DEF Placed, Lined
  <2>. QED
    BY <1>2, <2>3 DEF InLine
<1>4. CASE from = to
  <2>1. Lines(linfo, m_pos, from, to) = {}
    BY <1>4, Zenon DEF Lines
  <2>2. from .. (to - 1) = {}
    BY <1>2, <1>4
  <2>. QED
    BY <2>1, <2>2 DEF Pieces
<1>5. CASE from # to
  <2>1. from < to /\ to - 1 \in Nat
    BY <1>1, <1>2, <1>5
  <2>2. PICK lb : InLine(linfo, lb, from)
    BY <1>2, <1>3, HasLine
  <2>3. PICK le : InLine(linfo, le, to - 1)
    BY <1>2, <1>3, <2>1, HasLine
  <2>. QED
    BY <1>2, <1>3, <2>1, <2>2, <2>3, PiecesCover
<1>. QED
  BY <1>4, <1>5

\* The table of line starts gives every character of the text the line and the
\* column a reader would count, and cuts every range of it into its lines,
\* whatever the text, its encoding and the resets: query() and lines() of
\* TextInfo on what feed_char() has entered.
THEOREM PositionsAreRight == Spec => []PositionsRight
<1>1. Init => Placed
  BY LinedEmpty DEF Init, Placed
<1>2. IInv /\ Placed => PositionsRight
  BY PlacedExact, PlacedCover DEF PositionsRight
<1>. QED
  BY <1>1, <1>2, NextPlaced, LexerInvariant, PTL DEF Spec

------------------------------------------------------------------------------
(* SimpleLexer, a window over the Lexer's tokens *)

\* The lexer has returned, and its tokens are not yet in the buffer.
Given == at \in {"fed", "ended"} /\ pc = "idle" /\ outcome \notin Errors
Unput == IF Given THEN batch ELSE << >>

\* The tokens a call has read ahead of the cursor fit the window.
CallsFit == Given => Len(token_buffer) - cur_pos + Len(batch) <= Window

\* Where in fill_one() a call may stand: the lexer is called with nothing left
\* to read, and an answer is given with a token to read or the text at its end.
Filling ==
    /\ at \in {"idle", "loop", "fed", "tail", "ended", "answer"}
    /\ call \in {"end", "next"}
    /\ at \in {"fed", "ended"} \/ pc = "idle"
    /\ buf_pos \in 0 .. Len(buffer)
    /\ at = "loop" => buf_pos < Len(buffer)
    /\ at = "ended" => buf_pos = Len(buffer)
    /\ at = "tail" => outcome \notin Errors
    /\ at \in {"loop", "fed"} => cur_pos = Len(token_buffer)
    /\ at \in {"tail", "answer"} =>
          cur_pos < Len(token_buffer) \/ buf_pos = Len(buffer)

\* The tokens erased, those in the buffer and those to be put there are all the
\* tokens the lexer has given.
Buffered ==
    /\ cur_pos \in 0 .. Len(token_buffer)
    /\ Len(token_buffer) <= Window
    /\ dropped \in Nat
    /\ Len(out) = dropped + Len(token_buffer) + Len(Unput)
    /\ token_buffer \o Unput = SubSeq(out, dropped + 1, Len(out))

SInv == buffer \in Seq(Char) /\ token_buffer \in Seq(Token) /\ Filling /\ Buffered

------------------------------------------------------------------------------
(* The Lexer below *)

\* What a step of a SimpleLexer does to its Lexer.
LEMMA LexerBelow ==
  ASSUME SInv, [SNext]_svars PROVE [Next]_vars
<1>1. \/ UNCHANGED vars
      \/ FeedEnd \/ Step
      \/ FillChar
  BY DEF SNext, Inside, Call, FillFed, FillEnd, FillMore, FillEnded, FillFails,
         LexerStep, AnswerEnd, AnswerNext, StepBack, svars
<1>2. CASE FillChar
  <2>1. buffer[buf_pos + 1] \in Char /\ FeedChar(buffer[buf_pos + 1])
    BY <1>2 DEF FillChar, SInv, Filling
  <2>. QED
    BY <2>1 DEF Next
<1>. QED
  BY <1>1, <1>2 DEF Next

\* What a turn of the Lexer's loops does to the tokens it has given.
LEMMA StepGives ==
  ASSUME Step
  PROVE  /\ pc # "idle"
         /\ \/ pc' # "idle" /\ out' = out
            \/ pc' = "idle" /\ outcome' \in Errors /\ out' = out
            \/ /\ pc' = "idle" /\ outcome' \notin Errors
               /\ out' = out \o batch /\ batch' = batch
<1>1. CASE ScanNext \/ SkipClass \/ FeedClass \/ PassClass \/ StayAlive \/ TakeScanned
  BY <1>1 DEF ScanNext, SkipClass, FeedClass, PassClass, StayAlive, TakeScanned
<1>2. CASE ScanDone \/ EndDone
  BY <1>2 DEF ScanDone, EndDone, Return, Errors
<1>3. CASE NoRuleMatch \/ EndFail
  BY <1>3 DEF NoRuleMatch, EndFail, Throw, Errors
<1>4. CASE EndTake
  BY <1>4 DEF EndTake
<1>. QED
  BY <1>1, <1>2, <1>3, <1>4 DEF Step

------------------------------------------------------------------------------
(* clean_token_buffer() *)

\* Sequences are equal when their members are.
LEMMA SameSeq ==
  ASSUME NEW T, NEW s \in Seq(T), NEW t \in Seq(T), Len(s) = Len(t),
         \A k \in 1 .. Len(s) : s[k] = t[k]
  PROVE  s = t
OBVIOUS

\* The first m elements of a sequence.
LEMMA FrontOf ==
  ASSUME NEW T, NEW s \in Seq(T), NEW m \in 0 .. Len(s)
  PROVE  /\ SubSeq(s, 1, m) \in Seq(T) /\ Len(SubSeq(s, 1, m)) = m
         /\ \A k \in 1 .. m : SubSeq(s, 1, m)[k] = s[k]
OBVIOUS

\* Lengths are numbers, of primed sequences too.
LEMMA LenNat == ASSUME NEW T, NEW s \in Seq(T) PROVE Len(s) \in Nat
OBVIOUS

\* Below the modulus nothing wraps.
LEMMA NoWrap == ASSUME NEW m \in Nat, NEW n \in 0 .. m - 1 PROVE n % m = n
OBVIOUS

\* The cursor stays on its token, and the buffer ends with the last one given.
LEMMA InsertFacts ==
  ASSUME SInv, Given, CallsFit, Insert, out \in Seq(Token), batch \in Seq(Token)
  PROVE  /\ token_buffer' \in Seq(Token) /\ Len(token_buffer') <= Window
         /\ cur_pos' \in 0 .. Len(token_buffer') /\ dropped' \in Nat
         /\ dropped' + cur_pos' = dropped + cur_pos
         /\ Len(out) = dropped' + Len(token_buffer')
         /\ token_buffer' = SubSeq(out, dropped' + 1, Len(out))
<1> DEFINE all == token_buffer \o batch
           over == IF Len(all) > Window THEN Len(all) - Window ELSE 0
<1>1. /\ token_buffer' = SubSeq(all, over + 1, Len(all))
      /\ cur_pos' = Minus(cur_pos, over) /\ dropped' = dropped + over
  BY DEF Insert
<1>2. /\ token_buffer \in Seq(Token) /\ cur_pos \in 0 .. Len(token_buffer)
      /\ Len(token_buffer) <= Window /\ dropped \in Nat
      /\ all = SubSeq(out, dropped + 1, Len(out))
      /\ Len(token_buffer) - cur_pos + Len(batch) <= Window
  BY DEF SInv, Buffered, Unput, CallsFit
<1>3. /\ all \in Seq(Token) /\ Len(all) = Len(token_buffer) + Len(batch)
      /\ Len(out) = dropped + Len(all)
  BY <1>2 DEF SInv, Buffered, Unput
<1>4. Window \in Nat /\ SizeMod \in Nat /\ Window < SizeMod
  BY SimpleAssumption
<1>5. over \in 0 .. cur_pos /\ over <= Len(all) /\ Len(all) - over <= Window
  BY <1>2, <1>3, <1>4
<1>6. cur_pos' = cur_pos - over
  <2>1. cur_pos - over \in 0 .. SizeMod - 1
    BY <1>2, <1>4, <1>5
  <2>. QED
    BY <1>1, <1>4, <2>1, NoWrap, Zenon DEF Minus
<1> HIDE DEF over, all
<1>7. /\ token_buffer' \in Seq(Token) /\ Len(token_buffer') = Len(all) - over
      /\ \A k \in 1 .. Len(all) - over : token_buffer'[k] = all[over + k]
  BY <1>1, <1>3, <1>5
<1>8. token_buffer' = SubSeq(out, dropped' + 1, Len(out))
  <2> DEFINE rest == SubSeq(out, dropped' + 1, Len(out))
  <2>1. dropped' \in 0 .. Len(out) /\ dropped \in 0 .. Len(out)
    BY <1>1, <1>2, <1>3, <1>5
  <2>2. /\ rest \in Seq(Token) /\ Len(rest) = Len(out) - dropped'
        /\ \A k \in 1 .. Len(out) - dropped' : rest[k] = out[dropped' + k]
    <3>1. ASSUME NEW m \in 0 .. Len(out)
          PROVE  /\ SubSeq(out, m + 1, Len(out)) \in Seq(Token)
                 /\ Len(SubSeq(out, m + 1, Len(out))) = Len(out) - m
                 /\ \A k \in 1 .. Len(out) - m : SubSeq(out, m + 1, Len(out))[k] = out[m + k]
      BY Suffix
    <3>. QED
      BY <2>1, <3>1, Zenon
  <2>3. \A k \in 1 .. Len(out) - dropped : all[k] = out[dropped + k]
    BY <1>2, <2>1, Suffix
  <2> HIDE DEF rest
  <2>4. Len(all) - over = Len(out) - dropped'
    BY <1>1, <1>2, <1>3, <1>5
  <2>5. \A k \in 1 .. Len(all) - over : all[over + k] = out[dropped' + k]
    <3>1. \A k \in 1 .. Len(all) - over :
            over + k \in 1 .. Len(out) - dropped /\ dropped + (over + k) = dropped' + k
      BY <1>1, <1>2, <1>3, <1>5
    <3>. QED
      BY <2>3, <3>1
  <2>6. \A k \in 1 .. Len(token_buffer') : token_buffer'[k] = rest[k]
    BY <1>7, <2>2, <2>4, <2>5
  <2>7. token_buffer' = rest
    BY <1>7, <2>2, <2>4, <2>6, SameSeq
  <2>. QED
    BY <2>7 DEF rest
<1>. QED
  <2>1. /\ Len(token_buffer') = Len(all) - over /\ dropped' = dropped + over
        /\ cur_pos' = cur_pos - over /\ over \in 0 .. cur_pos /\ over <= Len(all)
        /\ Len(all) - over <= Window /\ Len(out) = dropped + Len(all)
        /\ cur_pos \in Nat /\ dropped \in Nat /\ cur_pos <= Len(all) /\ Len(all) \in Nat
    BY <1>1, <1>2, <1>3, <1>5, <1>6, <1>7
  <2>. QED
    BY <2>1, <1>7, <1>8

------------------------------------------------------------------------------
(* The invariant *)

\* SInv holds at first.
LEMMA InitSInv == SInit => SInv
<1>1. SUFFICES ASSUME SInit PROVE SInv
  OBVIOUS
<1>2. /\ buffer \in Seq(Char) /\ buf_pos = 0 /\ token_buffer = << >> /\ cur_pos = 0
      /\ at = "idle" /\ call = "end" /\ dropped = 0 /\ pc = "idle" /\ out = << >>
  BY <1>1, SimpleAssumption DEF SInit, Init
<1>3. Unput = << >>
  BY <1>2 DEF Unput, Given
<1>4. Filling
  BY <1>2 DEF Filling
<1>5. Buffered
  BY <1>2, <1>3, SimpleAssumption DEF Buffered
<1>. QED
  BY <1>2, <1>4, <1>5 DEF SInv

\* Every step keeps SInv while no call reads too far.
LEMMA NextSInv ==
  ASSUME IInv, SInv, CallsFit, [SNext]_svars PROVE SInv'
<1>1. /\ out \in Seq(Token) /\ batch \in Seq(Token)
      /\ buffer \in Seq(Char) /\ token_buffer \in Seq(Token) /\ Filling /\ Buffered
  BY DEF IInv, TypeOK, SInv
<1>2. ASSUME UNCHANGED <<vars, buffer, token_buffer, cur_pos, dropped>>,
             (~Given) /\ (~Given)', Filling'
      PROVE  SInv'
  <2>1. Unput = << >> /\ Unput' = << >>
    BY <1>2 DEF Unput
  <2>2. UNCHANGED out
    BY <1>2 DEF vars, ghost
  <2>. QED
    BY <1>1, <1>2, <2>1, <2>2 DEF SInv, Buffered
<1>3. CASE Call("end") \/ Call("next")
  BY <1>1, <1>2, <1>3 DEF Call, Filling, Given, Buffered, vars, machine
<1>4. CASE FillMore \/ AnswerEnd \/ FillFails
  BY <1>1, <1>2, <1>4 DEF FillMore, AnswerEnd, FillFails, Filling, Given, vars, machine
<1>5. CASE AnswerNext \/ StepBack
  <2>1. /\ UNCHANGED <<vars, buffer, buf_pos, token_buffer, call, dropped>>
        /\ at \in {"answer", "idle"} /\ at' = "idle"
        /\ cur_pos' \in 0 .. Len(token_buffer)
    <3>1. cur_pos \in 0 .. Len(token_buffer) /\ Len(token_buffer) \in Nat
      BY <1>1 DEF Buffered
    <3>. QED
      <4>1. CASE AnswerNext
        <5>1. /\ UNCHANGED <<vars, buffer, buf_pos, token_buffer, call, dropped>>
              /\ at = "answer" /\ at' = "idle" /\ cur_pos <= Len(token_buffer)
              /\ \/ cur_pos = Len(token_buffer) /\ cur_pos' = cur_pos
                 \/ cur_pos # Len(token_buffer) /\ cur_pos' = cur_pos + 1
          BY <4>1, Zenon DEF AnswerNext
        <5>. QED
          BY <3>1, <5>1
      <4>2. CASE StepBack
        <5>1. /\ UNCHANGED <<vars, buffer, buf_pos, token_buffer, call, dropped>>
              /\ at = "idle" /\ at' = "idle"
              /\ \/ cur_pos = 0 /\ cur_pos' = cur_pos
                 \/ cur_pos # 0 /\ cur_pos' = cur_pos - 1
          BY <4>2, Zenon DEF StepBack
        <5>. QED
          BY <3>1, <5>1
      <4>. QED
        BY <1>5, <4>1, <4>2
  <2>2. Unput = << >> /\ Unput' = << >> /\ out' = out /\ pc' = pc
    BY <2>1 DEF Unput, Given, vars, machine, ghost
  <2>. QED
    BY <1>1, <2>1, <2>2 DEF SInv, Filling, Buffered
<1>6. CASE FillChar \/ FillEnd
  <2>1. /\ at' \in {"fed", "ended"} /\ pc' # "idle" /\ out' = out /\ at \in {"loop", "tail"}
        /\ UNCHANGED <<buffer, token_buffer, cur_pos, call, dropped>>
        /\ buf_pos' \in 0 .. Len(buffer)
        /\ at' = "ended" => buf_pos' = Len(buffer)
        /\ at' = "fed" => at = "loop"
    BY <1>1, <1>6 DEF FillChar, FillEnd, FeedChar, FeedEnd, Filling
  <2>2. Unput = << >> /\ Unput' = << >>
    BY <2>1 DEF Unput, Given
  <2>. QED
    BY <1>1, <2>1, <2>2 DEF SInv, Filling, Buffered
<1>7. CASE LexerStep
  <2>1. /\ UNCHANGED own /\ pc # "idle" /\ Unput = << >>
        /\ at \in {"fed", "ended"}
    BY <1>7, StepGives DEF LexerStep, Unput, Given
  <2>2. Filling' /\ buffer' \in Seq(Char) /\ token_buffer' \in Seq(Token)
    BY <1>1, <2>1 DEF Filling, own
  <2>3. \/ out' = out /\ Unput' = << >>
        \/ out' = out \o batch /\ Unput' = batch
    BY <1>7, StepGives DEF LexerStep, Unput, Given, own
  <2>4. CASE out' = out /\ Unput' = << >>
    BY <1>1, <2>1, <2>2, <2>4 DEF SInv, Buffered, own
  <2>5. CASE out' = out \o batch /\ Unput' = batch
    <3>1. /\ Len(out) = dropped + Len(token_buffer) /\ dropped \in Nat
          /\ token_buffer = SubSeq(out, dropped + 1, Len(out))
      BY <1>1, <2>1 DEF Buffered
    <3>2. /\ Len(out') = Len(out) + Len(batch) /\ out' \in Seq(Token)
          /\ \A k \in 1 .. Len(out') :
                out'[k] = IF k <= Len(out) THEN out[k] ELSE batch[k - Len(out)]
      BY <1>1, <2>5
    <3>3. token_buffer \o batch = SubSeq(out', dropped + 1, Len(out'))
      <4> DEFINE all == token_buffer \o batch
                 rest == SubSeq(out', dropped + 1, Len(out'))
      <4>1. /\ all \in Seq(Token) /\ Len(all) = Len(out') - dropped
            /\ \A k \in 1 .. Len(all) : all[k] = IF k <= Len(token_buffer)
                   THEN token_buffer[k] ELSE batch[k - Len(token_buffer)]
        BY <1>1, <3>1, <3>2
      <4>2. \A k \in 1 .. Len(token_buffer) : token_buffer[k] = out[dropped + k]
        BY <1>1, <3>1, Suffix
      <4>3. /\ rest \in Seq(Token) /\ Len(rest) = Len(out') - dropped
            /\ \A k \in 1 .. Len(out') - dropped : rest[k] = out'[dropped + k]
        <5>1. dropped \in 0 .. Len(out')
          BY <1>1, <3>1, <3>2
        <5>. QED
          BY <3>2, <5>1, Suffix
      <4> HIDE DEF all, rest
      <4>4. Len(batch) \in Nat /\ Len(token_buffer) \in Nat
        BY <1>1
      <4>5. \A k \in 1 .. Len(all) : all[k] = rest[k]
        <5>1. SUFFICES ASSUME NEW k \in 1 .. Len(all) PROVE all[k] = out'[dropped + k]
          BY <4>1, <4>3
        <5>2. dropped + k \in 1 .. Len(out')
          BY <3>1, <3>2, <4>1, <4>4
        <5>3. CASE k <= Len(token_buffer)
          <6>1. all[k] = token_buffer[k] /\ k \in 1 .. Len(token_buffer)
            BY <4>1, <4>4, <5>3
          <6>2. token_buffer[k] = out[dropped + k]
            BY <4>2, <6>1
          <6>3. dropped + k <= Len(out)
            BY <3>1, <4>4, <5>3
          <6>4. out'[dropped + k] = out[dropped + k]
            BY <3>2, <5>2, <6>3, Zenon
          <6>. QED
            BY <6>1, <6>2, <6>4, Zenon
        <5>4. CASE k > Len(token_buffer)
          <6>1. all[k] = batch[k - Len(token_buffer)]
            BY <4>1, <4>4, <5>4
          <6>2. dropped + k > Len(out) /\ (dropped + k) - Len(out) = k - Len(token_buffer)
            BY <3>1, <4>4, <5>4
          <6>3. out'[dropped + k] = batch[(dropped + k) - Len(out)]
            BY <3>2, <5>2, <6>2
          <6>. QED
            BY <6>1, <6>2, <6>3
        <5>. QED
          BY <4>4, <5>3, <5>4
      <4>6. all = rest
        BY <4>1, <4>3, <4>5, SameSeq
      <4>. QED
        BY <4>6 DEF all, rest
    <3>. QED
      BY <1>1, <2>1, <2>2, <2>5, <3>1, <3>2, <3>3 DEF SInv, Buffered, own
  <2>. QED
    BY <2>3, <2>4, <2>5
<1>8. CASE FillFed \/ FillEnded
  <2>1. /\ Given /\ Insert /\ out' = out /\ pc' = pc /\ outcome' = outcome
        /\ at' \in {"tail", "loop", "answer"} /\ pc = "idle"
        /\ UNCHANGED <<buffer, buf_pos, call>>
    BY <1>8 DEF FillFed, FillEnded, Given, vars, machine, ghost
  <2>2. /\ token_buffer' \in Seq(Token) /\ Len(token_buffer') <= Window
        /\ cur_pos' \in 0 .. Len(token_buffer') /\ dropped' \in Nat
        /\ dropped' + cur_pos' = dropped + cur_pos
        /\ Len(out) = dropped' + Len(token_buffer')
        /\ token_buffer' = SubSeq(out, dropped' + 1, Len(out))
    BY <1>1, <2>1, InsertFacts
  <2>3. Unput' = << >>
    BY <2>1 DEF Unput, Given
  <2>4. Buffered'
    <3>1. token_buffer' \o Unput' = token_buffer' /\ Len(Unput') = 0
      BY <2>2, <2>3
    <3>2. Len(token_buffer') \in Nat
      BY <2>2, LenNat
    <3>3. Len(out') = dropped' + Len(token_buffer') + Len(Unput')
      <4>1. out' = out
        BY <2>1
      <4>2. Len(out) = dropped' + Len(token_buffer') /\ dropped' \in Nat
        BY <2>2
      <4>3. Len(out) = dropped' + Len(token_buffer') + 0
        BY <3>2, <4>2
      <4>. QED
        BY <3>1, <4>1, <4>3, Zenon
    <3>. QED
      BY <2>1, <2>2, <3>1, <3>3 DEF Buffered
  <2>5. Len(token_buffer') - cur_pos' = Len(token_buffer) - cur_pos + Len(batch)
    <3>1. /\ Len(out) = dropped + Len(token_buffer) + Len(batch)
          /\ dropped \in Nat /\ cur_pos \in Nat
      BY <1>1, <2>1 DEF Buffered, Unput
    <3>2. Len(token_buffer) \in Nat /\ Len(batch) \in Nat
      BY <1>1
    <3>3. /\ dropped' \in Nat /\ dropped' + cur_pos' = dropped + cur_pos
          /\ Len(out) = dropped' + Len(token_buffer')
      BY <2>2
    <3>4. Len(token_buffer') \in Nat
      BY <2>2, LenNat
    <3>5. cur_pos' \in Nat
      BY <2>2, <3>4
    <3>. QED
      <4>1. Len(token_buffer') - cur_pos' = Len(out) - (dropped' + cur_pos')
        BY <3>3, <3>4, <3>5
      <4>2. Len(out) - (dropped + cur_pos) = Len(token_buffer) - cur_pos + Len(batch)
        BY <3>1, <3>2
      <4>. QED
        BY <3>3, <4>1, <4>2
  <2>6. Filling'
    <3>1. CASE FillEnded
      BY <1>1, <2>1, <3>1 DEF FillEnded, Filling
    <3>2. CASE FillFed
      <4>1. Len(batch) = 0 <=> batch = << >>
        BY <1>1
      <4>2. cur_pos = Len(token_buffer) /\ cur_pos \in Nat
        BY <1>1, <3>2 DEF FillFed, Filling, Buffered
      <4>3. /\ batch = << >> => cur_pos' = Len(token_buffer')
            /\ batch # << >> => cur_pos' < Len(token_buffer')
        <5>1. Len(token_buffer) \in Nat /\ Len(batch) \in Nat
          BY <1>1
        <5>2. Len(token_buffer') \in Nat
          BY <2>2, LenNat
        <5>3. cur_pos' \in Nat
          BY <2>2, <5>2
        <5>. QED
          BY <2>5, <4>1, <4>2, <5>1, <5>2, <5>3
      <4>. QED
        BY <1>1, <2>1, <3>2, <4>3 DEF FillFed, Filling, Given
    <3>. QED
      BY <1>8, <3>1, <3>2
  <2>. QED
    BY <1>1, <2>1, <2>2, <2>4, <2>6 DEF SInv
<1>9. CASE UNCHANGED svars
  BY <1>1, <1>9 DEF SInv, Filling, Buffered, Unput, Given, svars, own, vars, machine, ghost
<1>. QED
  BY <1>3, <1>4, <1>5, <1>6, <1>7, <1>8, <1>9 DEF SNext, Inside

\* IInv and SInv go together.
LEMMA NextBoth ==
  ASSUME IInv, SInv, CallsFit, [SNext]_svars PROVE IInv' /\ SInv'
BY LexerBelow, NextIInv, NextSInv

------------------------------------------------------------------------------
(* The refinement of TokenCursor *)

Stream == SubSeq(out, 1, dropped + Len(token_buffer))

\* What the cursor's moves are made of: the stream is the tokens erased and
\* those in the buffer, and a token in the buffer is the one of the stream.
LEMMA StreamFacts ==
  ASSUME IInv, SInv
  PROVE  /\ Stream \in Seq(Token) /\ Len(Stream) = dropped + Len(token_buffer)
         /\ \A k \in 1 .. Len(Stream) : Stream[k] = out[k]
         /\ \A k \in 1 .. Len(token_buffer) : token_buffer[k] = Stream[dropped + k]
         /\ Len(token_buffer) \in Nat /\ dropped \in Nat /\ cur_pos \in Nat
         /\ cur_pos <= Len(token_buffer)
         /\ dropped + Len(token_buffer) \in 0 .. Len(out)
<1>1. /\ out \in Seq(Token) /\ batch \in Seq(Token) /\ token_buffer \in Seq(Token)
      /\ Filling /\ Buffered
  BY DEF IInv, TypeOK, SInv
<1>2. Len(token_buffer) \in Nat /\ Len(out) \in Nat
  BY <1>1
<1>3. dropped \in Nat /\ cur_pos \in 0 .. Len(token_buffer)
  BY <1>1 DEF Buffered
<1>4. Unput \in Seq(Token) /\ Len(Unput) \in Nat
  BY <1>1 DEF Unput
<1>5. dropped + Len(token_buffer) \in 0 .. Len(out) /\ dropped \in 0 .. Len(out)
  BY <1>1, <1>2, <1>3, <1>4 DEF Buffered
<1>6. /\ Stream \in Seq(Token) /\ Len(Stream) = dropped + Len(token_buffer)
      /\ \A k \in 1 .. Len(Stream) : Stream[k] = out[k]
  BY <1>1, <1>5, FrontOf DEF Stream
<1>7. \A k \in 1 .. Len(out) - dropped :
          SubSeq(out, dropped + 1, Len(out))[k] = out[dropped + k]
  BY <1>1, <1>5, Suffix
<1>8. ASSUME NEW k \in 1 .. Len(token_buffer) PROVE token_buffer[k] = Stream[dropped + k]
  <2>1. (token_buffer \o Unput)[k] = token_buffer[k]
    BY <1>1, <1>4
  <2>2. k \in 1 .. Len(out) - dropped
    BY <1>2, <1>3, <1>5
  <2>3. token_buffer[k] = out[dropped + k]
    BY <1>1, <1>7, <2>1, <2>2 DEF Buffered
  <2>4. dropped + k \in 1 .. Len(Stream)
    BY <1>2, <1>3, <1>6
  <2>. QED
    BY <1>6, <2>3, <2>4
<1>. QED
  BY <1>2, <1>3, <1>5, <1>6, <1>8

StreamOK ==
    /\ Stream \in Seq(Token) /\ Len(Stream) = dropped + Len(token_buffer)
    /\ \A k \in 1 .. Len(Stream) : Stream[k] = out[k]
    /\ \A k \in 1 .. Len(token_buffer) : token_buffer[k] = Stream[dropped + k]
    /\ Len(token_buffer) \in Nat /\ dropped \in Nat /\ cur_pos \in Nat
    /\ cur_pos <= Len(token_buffer)
    /\ dropped + Len(token_buffer) \in 0 .. Len(out)

\* The stream is a sequence with the cursor in it.
LEMMA StreamIsOK == IInv /\ SInv => StreamOK
BY StreamFacts DEF StreamOK

\* The tokens the lexer has given are never taken back, and fill_one() only
\* puts further ones behind them.
LEMMA StreamGrows ==
  ASSUME StreamOK, StreamOK', Len(Stream) <= Len(Stream'),
         \A k \in 1 .. Len(out) : out'[k] = out[k]
  PROVE  AsCursor!IsPrefix(Stream, Stream')
<1>1. Stream \in Seq(Token) /\ Len(Stream) \in 0 .. Len(Stream) /\ Len(Stream) \in Nat
  BY DEF StreamOK
<1>2. Stream' \in Seq(Token) /\ Len(Stream) \in 0 .. Len(Stream')
  <2>1. Stream' \in Seq(Token)
    BY DEF StreamOK
  <2>2. Len(Stream') \in Nat
    BY <2>1, LenNat
  <2>. QED
    BY <1>1, <2>1, <2>2
<1> DEFINE a == SubSeq(Stream, 1, Len(Stream))
           b == SubSeq(Stream', 1, Len(Stream))
<1>3. /\ a \in Seq(Token) /\ Len(a) = Len(Stream)
      /\ \A k \in 1 .. Len(Stream) : a[k] = Stream[k]
  BY <1>1, FrontOf
<1>4. /\ b \in Seq(Token) /\ Len(b) = Len(Stream)
      /\ \A k \in 1 .. Len(Stream) : b[k] = Stream'[k]
  BY <1>1, <1>2, FrontOf
<1> HIDE DEF a, b
<1>5. ASSUME NEW k \in 1 .. Len(Stream) PROVE a[k] = b[k]
  <2>1. k \in 1 .. Len(Stream') /\ k \in 1 .. Len(out)
    BY <1>1, <1>2 DEF StreamOK
  <2>2. Stream'[k] = out'[k]
    BY <2>1 DEF StreamOK
  <2>3. Stream[k] = out[k]
    BY <1>5 DEF StreamOK
  <2>. QED
    BY <1>3, <1>4, <1>5, <2>1, <2>2, <2>3
<1>6. a = b
  BY <1>1, <1>3, <1>4, <1>5, SameSeq
<1>. QED
  BY <1>6 DEF AsCursor!IsPrefix, a, b

\* Nothing the stream is made of has changed.
LEMMA StreamStays ==
  ASSUME UNCHANGED <<vars, token_buffer, dropped>>
  PROVE  Stream' = Stream /\ out' = out /\ pc' = pc /\ outcome' = outcome
BY DEF Stream, vars, machine, ghost

Moves == [AsCursor!Next]_(AsCursor!vars)

\* What AsCursor maps the abstract state to.
LEMMA Mapped ==
  /\ AsCursor!vars = <<Stream, AllRead, dropped + cur_pos, answer>>
  /\ AsCursor!vars' = <<Stream', AllRead', (dropped + cur_pos)', answer'>>
BY DEF AsCursor!vars, Stream

\* A step that leaves the stream and the cursor alone is no move of TokenCursor.
LEMMA Stutter ==
  ASSUME Stream' = Stream, AllRead' <=> AllRead,
         dropped' + cur_pos' = dropped + cur_pos, answer' = answer
  PROVE  Moves
<1>1. AllRead' = AllRead
  BY DEF AllRead
<1>2. AsCursor!vars' = AsCursor!vars
  BY <1>1, Mapped, Zenon
<1>. QED
  BY <1>2, Zenon DEF Moves

\* The moves of the cursor, said of the stream.
MayGrow ==
    /\ AsCursor!IsPrefix(Stream, Stream')
    /\ AllRead => AllRead' /\ Stream' = Stream
    /\ (dropped + cur_pos)' = dropped + cur_pos /\ answer' = answer

Still == Stream' = Stream /\ AllRead' = AllRead

MayRefuse ==
    /\ answer' \in {<<"no more tokens">>, <<"can't go backward">>, <<"lexer error">>}
    /\ answer' = <<"no more tokens">> => AllRead /\ dropped + cur_pos = Len(Stream)
    /\ Still /\ (dropped + cur_pos)' = dropped + cur_pos

MayEnd ==
    /\ answer' \in {<<"end">>, <<"more">>}
    /\ answer' = <<"end">>  => AllRead /\ dropped + cur_pos = Len(Stream)
    /\ answer' = <<"more">> => dropped + cur_pos < Len(Stream)
    /\ Still /\ (dropped + cur_pos)' = dropped + cur_pos

MayBegin ==
    /\ answer' = <<"none">>
    /\ Still /\ (dropped + cur_pos)' = dropped + cur_pos

MayBack ==
    /\ dropped + cur_pos > 0
    /\ (dropped + cur_pos)' = (dropped + cur_pos) - 1 /\ answer' = <<"back">>
    /\ Still

MayNext ==
    /\ dropped + cur_pos < Len(Stream)
    /\ answer' = <<"token", Stream[(dropped + cur_pos) + 1]>>
    /\ (dropped + cur_pos)' = (dropped + cur_pos) + 1
    /\ Still

\* The shapes of a step that are moves of TokenCursor.
LEMMA AreMoves ==
  ASSUME MayGrow \/ MayRefuse \/ MayEnd \/ MayBegin \/ MayBack \/ MayNext
  PROVE  Moves
<1>1. CASE MayGrow
  BY <1>1, Zenon DEF MayGrow, Moves, Stream, AsCursor!Next, AsCursor!Grow
<1>2. CASE MayRefuse
  BY <1>2, Zenon DEF MayRefuse, Still, Moves, Stream, AsCursor!Next, AsCursor!Refuse
<1>3. CASE MayEnd
  BY <1>3, Zenon DEF MayEnd, Still, Moves, Stream, AsCursor!Next, AsCursor!End
<1>4. CASE MayBegin
  BY <1>4, Zenon DEF MayBegin, Still, Moves, Stream, AsCursor!Next, AsCursor!Begin
<1>5. CASE MayBack
  BY <1>5, Zenon DEF MayBack, Still, Moves, Stream, AsCursor!Next, AsCursor!Back
<1>6. CASE MayNext
  BY <1>6, Zenon DEF MayNext, Still, Moves, Stream, AsCursor!Next, AsCursor!NextToken
<1>. QED
  BY <1>1, <1>2, <1>3, <1>4, <1>5, <1>6

------------------------------------------------------------------------------
(* Every step is a move or changes nothing the parser sees *)

\* end() and next() begin, or back() is called.
LEMMA CallMoves ==
  ASSUME IInv, SInv, Call("end") \/ Call("next") PROVE Moves
<1>1. /\ at = "idle" /\ pc = "idle" /\ cur_pos <= Len(token_buffer)
      /\ buf_pos \in 0 .. Len(buffer) /\ at' \in {"answer", "loop"}
      /\ at' = "loop" => buf_pos # Len(buffer)
      /\ answer' = <<"none">>
      /\ UNCHANGED <<vars, buffer, buf_pos, token_buffer, cur_pos, dropped>>
  BY Zenon, SMT DEF Call, SInv, Filling, Buffered
<1>2. Stream' = Stream /\ pc' = pc /\ outcome' = outcome
  BY <1>1, StreamStays
<1>3. AllRead' = AllRead
  BY <1>1, <1>2 DEF AllRead
<1>. QED
  BY <1>1, <1>2, <1>3, AreMoves DEF MayBegin, Still

\* back() is a move.
LEMMA BackMoves ==
  ASSUME IInv, SInv, StepBack PROVE Moves
<1>1. /\ UNCHANGED <<vars, buffer, buf_pos, token_buffer, at, call, dropped>>
      /\ \/ cur_pos = 0 /\ answer' = <<"can't go backward">> /\ cur_pos' = cur_pos
         \/ cur_pos # 0 /\ answer' = <<"back">> /\ cur_pos' = cur_pos - 1
  BY Zenon DEF StepBack
<1>2. Stream' = Stream /\ pc' = pc /\ outcome' = outcome
  BY <1>1, StreamStays
<1>3. Still
  BY <1>1, <1>2 DEF AllRead, Still
<1>4. cur_pos \in Nat /\ dropped \in Nat
  BY StreamIsOK DEF StreamOK
<1>5. CASE cur_pos = 0 /\ answer' = <<"can't go backward">> /\ cur_pos' = cur_pos
  <2>1. answer' # <<"no more tokens">>
    BY <1>5
  <2>. QED
    BY <1>1, <1>3, <1>5, <2>1, AreMoves DEF MayRefuse
<1>6. CASE cur_pos # 0 /\ answer' = <<"back">> /\ cur_pos' = cur_pos - 1
  <2>1. dropped + cur_pos > 0 /\ (dropped + cur_pos)' = (dropped + cur_pos) - 1
    BY <1>1, <1>4, <1>6
  <2>. QED
    BY <1>3, <1>6, <2>1, AreMoves DEF MayBack
<1>. QED
  BY <1>1, <1>5, <1>6

\* fill_one() calls the lexer, or finds that it has read enough.
LEMMA FillMoves ==
  ASSUME IInv, SInv, FillChar \/ FillEnd \/ FillMore PROVE Moves
<1>1. /\ UNCHANGED <<buffer, token_buffer, cur_pos, dropped, answer>> /\ out' = out
      /\ ~AllRead /\ ~AllRead'
  <2>1. Filling
    BY DEF SInv
  <2>2. CASE FillChar
    BY <2>1, <2>2 DEF FillChar, FeedChar, Filling, AllRead
  <2>3. CASE FillEnd
    BY <2>1, <2>3 DEF FillEnd, FeedEnd, Filling, AllRead
  <2>4. CASE FillMore
    BY <2>1, <2>4 DEF FillMore, Filling, AllRead, vars, machine, ghost
  <2>. QED
    BY <2>2, <2>3, <2>4
<1>2. Stream' = Stream
  BY <1>1 DEF Stream
<1>. QED
  BY <1>1, <1>2, Stutter

\* The lexer runs.
LEMMA LexerMoves ==
  ASSUME IInv, SInv, IInv', SInv', LexerStep PROVE Moves
<1>1. UNCHANGED own /\ at \in {"fed", "ended"} /\ pc # "idle" /\ ~AllRead
  BY StepGives DEF LexerStep, AllRead
<1>2. out \in Seq(Token) /\ batch \in Seq(Token)
  BY DEF IInv, TypeOK
<1>3. StreamOK /\ StreamOK'
  <2>1. (IInv /\ SInv => StreamOK)'
    BY StreamIsOK, PTL
  <2>. QED
    BY <2>1, StreamIsOK
<1>4. \A k \in 1 .. Len(out) : out'[k] = out[k]
  <2>1. out' = out \/ out' = out \o batch
    BY StepGives DEF LexerStep
  <2>. QED
    BY <1>2, <2>1
<1>5. Len(Stream) <= Len(Stream')
  <2>1. dropped' = dropped /\ token_buffer' = token_buffer
    BY <1>1 DEF own
  <2>. QED
    BY <1>3, <2>1 DEF StreamOK
<1>. QED
  BY <1>1, <1>3, <1>4, <1>5, StreamGrows, AreMoves DEF MayGrow, own

\* fill_one() puts the tokens of a call into the buffer.
LEMMA InsertMoves ==
  ASSUME IInv, SInv, IInv', SInv', CallsFit, FillFed \/ FillEnded PROVE Moves
<1>1. /\ Given /\ Insert /\ UNCHANGED vars /\ answer' = answer
  BY DEF FillFed, FillEnded, Given
<1>2. ~AllRead /\ out' = out
  BY <1>1 DEF Given, AllRead, vars, ghost
<1>3. StreamOK /\ StreamOK'
  <2>1. (IInv /\ SInv => StreamOK)'
    BY StreamIsOK, PTL
  <2>. QED
    BY <2>1, StreamIsOK
<1>4. out \in Seq(Token) /\ batch \in Seq(Token)
  BY DEF IInv, TypeOK
<1>5. /\ dropped' + cur_pos' = dropped + cur_pos
      /\ Len(out) = dropped' + Len(token_buffer')
  BY <1>1, <1>4, InsertFacts
<1>6. Len(Stream) <= Len(Stream')
  <2>1. Len(Stream') = Len(out)
    BY <1>3, <1>5 DEF StreamOK
  <2>2. Len(Stream) <= Len(out)
    BY <1>3, <1>4 DEF StreamOK
  <2>. QED
    BY <2>1, <2>2
<1>7. AsCursor!IsPrefix(Stream, Stream')
  BY <1>2, <1>3, <1>6, StreamGrows
<1>. QED
  BY <1>1, <1>2, <1>5, <1>7, AreMoves DEF MayGrow

\* An exception of the lexer passes through the call.
LEMMA FailMoves ==
  ASSUME IInv, SInv, FillFails PROVE Moves
<1>1. /\ UNCHANGED <<vars, buffer, buf_pos, token_buffer, cur_pos, dropped>>
      /\ pc = "idle" /\ outcome \in Errors /\ at' = "idle" /\ answer' = <<"lexer error">>
  BY DEF FillFails
<1>2. Stream' = Stream /\ pc' = pc /\ outcome' = outcome
  BY <1>1, StreamStays
<1>3. Still
  BY <1>1, <1>2 DEF AllRead, Still
<1>4. answer' # <<"no more tokens">>
  BY <1>1
<1>. QED
  BY <1>1, <1>3, <1>4, AreMoves DEF MayRefuse

\* end() and next() answer.
LEMMA AnswerMoves ==
  ASSUME IInv, SInv, AnswerEnd \/ AnswerNext PROVE Moves
<1>1. /\ UNCHANGED <<vars, buffer, buf_pos, token_buffer, call, dropped>>
      /\ at = "answer" /\ at' = "idle"
  BY Zenon DEF AnswerEnd, AnswerNext
<1>2. Stream' = Stream /\ pc' = pc /\ outcome' = outcome
  BY <1>1, StreamStays
<1>3. Still
  BY <1>1, <1>2 DEF AllRead, Still
<1>4. StreamOK
  BY StreamIsOK
<1>5. cur_pos = Len(token_buffer) => AllRead /\ dropped + cur_pos = Len(Stream)
  <2>1. cur_pos < Len(token_buffer) \/ buf_pos = Len(buffer)
    BY <1>1 DEF SInv, Filling
  <2>. QED
    BY <1>1, <1>4, <2>1 DEF StreamOK, AllRead
<1>6. cur_pos # Len(token_buffer) => dropped + cur_pos < Len(Stream)
  BY <1>4 DEF StreamOK
<1>7. CASE AnswerEnd
  <2>1. /\ cur_pos' = cur_pos
        /\ \/ cur_pos = Len(token_buffer) /\ answer' = <<"end">>
           \/ cur_pos # Len(token_buffer) /\ answer' = <<"more">>
    BY <1>7, Zenon DEF AnswerEnd
  <2>2. (answer' = <<"end">> => answer' # <<"more">>) /\ (answer' = <<"more">> => answer' # <<"end">>)
    OBVIOUS
  <2>. QED
    BY <1>1, <1>3, <1>5, <1>6, <2>1, <2>2, AreMoves DEF MayEnd
<1>8. CASE AnswerNext
  <2>1. \/ cur_pos = Len(token_buffer) /\ answer' = <<"no more tokens">> /\ cur_pos' = cur_pos
        \/ /\ cur_pos # Len(token_buffer)
           /\ answer' = <<"token", token_buffer[cur_pos + 1]>> /\ cur_pos' = cur_pos + 1
    BY <1>8, Zenon DEF AnswerNext
  <2>2. CASE cur_pos = Len(token_buffer) /\ answer' = <<"no more tokens">> /\ cur_pos' = cur_pos
    BY <1>1, <1>3, <1>5, <2>2, AreMoves DEF MayRefuse
  <2>3. CASE /\ cur_pos # Len(token_buffer)
             /\ answer' = <<"token", token_buffer[cur_pos + 1]>> /\ cur_pos' = cur_pos + 1
    <3>1. cur_pos + 1 \in 1 .. Len(token_buffer)
      BY <1>4, <2>3 DEF StreamOK
    <3>2. token_buffer[cur_pos + 1] = Stream[dropped + (cur_pos + 1)]
      BY <1>4, <3>1 DEF StreamOK
    <3>3. dropped + (cur_pos + 1) = (dropped + cur_pos) + 1
      BY <1>4 DEF StreamOK
    <3>4. (dropped + cur_pos)' = (dropped + cur_pos) + 1
      BY <1>1, <2>3, <3>3
    <3>5. answer' = <<"token", Stream[(dropped + cur_pos) + 1]>>
      BY <2>3, <3>2, <3>3, Zenon
    <3>. QED
      BY <1>3, <1>6, <2>3, <3>4, <3>5, AreMoves, Zenon DEF MayNext
  <2>. QED
    BY <2>1, <2>2, <2>3
<1>. QED
  BY <1>7, <1>8

\* Every step is a move, or none.
LEMMA NextMoves ==
  ASSUME IInv, SInv, CallsFit, [SNext]_svars PROVE Moves
<1>1. IInv' /\ SInv'
  BY NextBoth
<1>2. CASE UNCHANGED svars
  <2>1. /\ UNCHANGED <<vars, token_buffer, dropped>> /\ answer' = answer
        /\ dropped' + cur_pos' = dropped + cur_pos
        /\ UNCHANGED <<buffer, buf_pos, at>>
    BY <1>2 DEF svars, own
  <2>2. Stream' = Stream /\ pc' = pc /\ outcome' = outcome
    BY <2>1, StreamStays
  <2>. QED
    BY <2>1, <2>2, Stutter DEF AllRead
<1>. QED
  BY <1>1, <1>2, CallMoves, BackMoves, FillMoves, LexerMoves, InsertMoves, FailMoves,
     AnswerMoves DEF SNext, Inside

------------------------------------------------------------------------------
(* The theorems *)

\* The cursor never leaves token_buffer, and between two calls the buffer is
\* the end of what the lexer has given and no longer than the window, whatever
\* the rules, the text and the calls: as long as no call reads more tokens than
\* the window holds, no token is erased before the parser has read it.
THEOREM CursorStaysInBuffer == SSpec /\ []CallsFit => []CursorInBuffer
<1>1. SInit => IInv /\ SInv
  BY InitIInv, InitSInv DEF SInit
<1>2. IInv /\ SInv /\ CallsFit /\ [SNext]_svars => IInv' /\ SInv'
  BY NextBoth
<1>3. IInv /\ SInv => CursorInBuffer
  <2>1. SUFFICES ASSUME IInv, SInv PROVE CursorInBuffer
    OBVIOUS
  <2>2. Buffered /\ token_buffer \in Seq(Token) /\ StreamOK
    BY <2>1, StreamIsOK DEF SInv
  <2>3. at = "idle" => token_buffer = SubSeq(out, dropped + 1, Len(out))
    <3>1. ASSUME at = "idle" PROVE Unput = << >>
      BY <3>1 DEF Unput, Given
    <3>2. token_buffer \o << >> = token_buffer
      BY <2>2
    <3>. QED
      BY <2>2, <3>1, <3>2 DEF Buffered
  <2>. QED
    BY <2>2, <2>3 DEF CursorInBuffer, StreamOK, Buffered
<1>. QED
  BY <1>1, <1>2, <1>3, PTL DEF SSpec

\* To a parser a SimpleLexer is a cursor over one stream of tokens: whatever
\* the mix of next(), end() and back(), of reading on and of erasing, every
\* step is a move of TokenCursor or changes nothing the parser can see.
THEOREM SimpleLexerIsCursor == SSpec /\ []CallsFit => IsCursor
<1>1. SInit => IInv /\ SInv
  BY InitIInv, InitSInv DEF SInit
<1>2. SInit => AsCursor!Init
  <2>1. SUFFICES ASSUME SInit PROVE AsCursor!Init
    OBVIOUS
  <2>2. /\ out = << >> /\ token_buffer = << >> /\ dropped = 0 /\ cur_pos = 0
        /\ answer = <<"none">> /\ buf_pos = 0 /\ buffer \in Buffers
    BY <2>1 DEF SInit, Init
  <2>3. buffer \in Seq(Char) /\ buffer # << >>
    BY <2>2, SimpleAssumption
  <2>4. AllRead = FALSE
    BY <2>2, <2>3 DEF AllRead
  <2>5. SubSeq(out, 1, dropped + Len(token_buffer)) = << >> /\ dropped + cur_pos = 0
    BY <2>2
  <2>. QED
    BY <2>2, <2>4, <2>5 DEF AsCursor!Init
<1>3. IInv /\ SInv /\ CallsFit /\ [SNext]_svars => IInv' /\ SInv'
  BY NextBoth
<1>4. IInv /\ SInv /\ CallsFit /\ [SNext]_svars => [AsCursor!Next]_(AsCursor!vars)
  BY NextMoves DEF Moves
<1>. QED
  BY <1>1, <1>2, <1>3, <1>4, PTL DEF SSpec, IsCursor, AsCursor!Spec

------------------------------------------------------------------------------
(* When the window is never overrun *)

\* A token is at least one character, and a call gives no more than are taken.
FewTokens ==
    /\ Len(taken) + Len(cache) <= Len(text) /\ Len(text) <= MaxText
    /\ Len(out) + (IF pc = "idle" THEN 0 ELSE Len(batch)) <= Len(taken)

\* A token taken is cut off the cache, which shrinks by at least one character.
LEMMA TakenCounts ==
  ASSUME IInv, NEW r \in Rule, Take(r), rule[r].match_len > 0,
         rule[r].match_len <= Len(cache)
  PROVE  /\ Len(taken') = Len(taken) + 1
         /\ Len(cache') + 1 <= Len(cache)
         /\ Len(batch') <= Len(batch) + 1
<1>1. /\ taken \in Seq(Cut) /\ cache \in Seq(Entry) /\ batch \in Seq(Token)
      /\ rule[r].match_len \in Nat
  BY DEF IInv, TypeOK, Entry, Cut, RuleState
<1>2. TokenOf(r).len = rule[r].match_len
  BY DEF TokenOf
<1>3. /\ cache' = SubSeq(cache, rule[r].match_len + 1, Len(cache))
      /\ batch' = batch \/ batch' = Append(batch, TokenOf(r))
      /\ taken' = Append(taken, [tok |-> TokenOf(r), start |-> Len(text) - Len(cache)])
  BY <1>2 DEF Take
<1>4. Len(cache') = Len(cache) - rule[r].match_len
  BY <1>1, <1>3, Suffix
<1>5. Len(taken') = Len(taken) + 1 /\ Len(batch') <= Len(batch) + 1
  BY <1>1, <1>3
<1>. QED
  BY <1>1, <1>4, <1>5

\* The rule that wins has matched, and no more than the cache holds.
LEMMA WinnerMatches ==
  ASSUME IInv, TakeScanned \/ EndTake
  PROVE  \E r \in Rule : /\ Take(r) /\ rule[r].match_len > 0
                         /\ rule[r].match_len <= Len(cache)
<1>1. CASE TakeScanned
  <2>1. pc = "judge" /\ Candidates(cls) # {} /\ Take(Winner(cls))
    BY <1>1 DEF TakeScanned
  <2>2. \A s \in Candidates(cls) : s \in Rule /\ rule[s].match_len <= cache_pos
                                   /\ rule[s].match_len > 0
    BY <2>1, Parts DEF Candidates, InClass
  <2>3. cache_pos \in Nat /\ cache_pos <= Len(cache) /\ Len(cache) \in Nat
    BY <2>1, Parts
  <2>4. Winner(cls) \in Candidates(cls)
    BY <2>1, <2>2, <2>3, WinnerExists DEF IInv
  <2>5. Winner(cls) \in Rule /\ rule[Winner(cls)].match_len \in Nat
    BY <2>2, <2>4, Parts
  <2>6. rule[Winner(cls)].match_len <= Len(cache) /\ rule[Winner(cls)].match_len > 0
    BY <2>2, <2>3, <2>4, <2>5
  <2>. QED
    BY <2>1, <2>5, <2>6
<1>2. CASE EndTake
  <2> DEFINE i == Smallest(Endable)
  <2>1. pc = "end" /\ Endable # {} /\ Take(Winner(i))
    BY <1>2 DEF EndTake
  <2>2. i \in Endable
    <3>1. Endable \in SUBSET Nat
      BY ClassFacts DEF Endable
    <3>. QED
      BY <2>1, <3>1, SmallestIn
  <2> HIDE DEF i
  <2>3. Candidates(i) # {}
    BY <2>2 DEF Endable
  <2>4. \A s \in Candidates(i) : s \in Rule /\ rule[s].match_len <= Len(cache)
                                 /\ rule[s].match_len > 0
    BY <2>1, Parts DEF Candidates, InClass
  <2>5. Winner(i) \in Candidates(i)
    <3>1. Len(cache) \in Nat
      BY Parts
    <3>. QED
      BY <2>3, <2>4, <3>1, WinnerExists DEF IInv
  <2>. QED
    BY <2>1, <2>4, <2>5
<1>. QED
  BY <1>1, <1>2

\* Every step keeps that there are no more tokens than characters.
LEMMA NextFew ==
  ASSUME IInv, IInv', SInv, FewTokens, [SNext]_svars PROVE FewTokens'
<1>1. /\ text \in Seq(Char) /\ cache \in Seq(Entry) /\ taken \in Seq(Cut)
      /\ batch \in Seq(Token) /\ out \in Seq(Token) /\ MaxText \in Nat
  BY LexerAssumption DEF IInv, TypeOK, Entry, Cut
<1>2. /\ Len(text) \in Nat /\ Len(cache) \in Nat /\ Len(taken) \in Nat
      /\ Len(batch) \in Nat /\ Len(out) \in Nat
  BY <1>1
<1>3. batch' \in Seq(Token) /\ Len(batch') \in Nat /\ cache' \in Seq(Entry) /\ Len(cache') \in Nat
  <2>1. batch' \in Seq(Token) /\ cache' \in Seq(Entry)
    BY DEF IInv, TypeOK, Entry
  <2>. QED
    BY <2>1, LenNat
<1>4. CASE UNCHANGED vars
  BY <1>4 DEF FewTokens, vars, machine, ghost
<1>5. CASE FillChar
  <2>1. /\ FeedChar(buffer[buf_pos + 1]) /\ pc = "idle" /\ pc' # "idle"
        /\ Len(text) < MaxText /\ batch' = << >> /\ taken' = taken /\ out' = out
        /\ text' = Append(text, buffer[buf_pos + 1])
        /\ cache' = Append(cache, [char |-> buffer[buf_pos + 1], pos |-> m_pos])
    BY <1>5 DEF FillChar, FeedChar, CallAllowed
  <2>2. Len(text') = Len(text) + 1 /\ Len(cache') = Len(cache) + 1 /\ Len(batch') = 0
    BY <1>1, <2>1
  <2>. QED
    BY <1>1, <1>2, <2>1, <2>2 DEF FewTokens
<1>6. CASE FeedEnd
  <2>1. /\ pc = "idle" /\ batch' = << >> /\ taken' = taken /\ out' = out
        /\ text' = text /\ cache' = cache
    BY <1>6 DEF FeedEnd, CallAllowed, Fixed
  <2>2. Len(batch') = 0
    BY <2>1
  <2>. QED
    BY <1>2, <2>1, <2>2 DEF FewTokens
<1>7. CASE Step
  <2>1. text' = text /\ pc # "idle"
    BY <1>7, StepGives DEF Step, ScanNext, ScanDone, SkipClass, FeedClass, TakeScanned,
       PassClass, StayAlive, NoRuleMatch, EndTake, EndFail, EndDone, Fixed
  <2>2. CASE TakeScanned \/ EndTake
    <3>1. PICK r \in Rule : /\ Take(r) /\ rule[r].match_len > 0
                            /\ rule[r].match_len <= Len(cache)
      BY <2>2, WinnerMatches
    <3>2. /\ Len(taken') = Len(taken) + 1
          /\ Len(cache') + 1 <= Len(cache)
          /\ Len(batch') <= Len(batch) + 1
      BY <3>1, TakenCounts
    <3>3. pc' # "idle" /\ out' = out
      BY <2>1, <2>2 DEF TakeScanned, EndTake
    <3>. QED
      BY <1>1, <1>2, <1>3, <2>1, <3>2, <3>3 DEF FewTokens
  <2>3. CASE ~(TakeScanned \/ EndTake)
    <3>1. UNCHANGED <<taken, cache>>
      BY <1>7, <2>3 DEF Step, ScanNext, ScanDone, SkipClass, FeedClass, PassClass,
         StayAlive, NoRuleMatch, EndFail, EndDone, Return, Throw
    <3>2. \/ batch' = batch /\ out' = out
          \/ pc' = "idle" /\ (out' = out \/ out' = out \o batch)
      BY <1>7, <2>3 DEF Step, ScanNext, ScanDone, SkipClass, FeedClass, PassClass,
         StayAlive, NoRuleMatch, EndFail, EndDone, Return, Throw
    <3>3. \/ batch' = batch /\ Len(out') = Len(out)
          \/ pc' = "idle" /\ Len(out') <= Len(out) + Len(batch)
      BY <1>1, <1>2, <3>2
    <3>. QED
      BY <1>1, <1>2, <2>1, <3>1, <3>3 DEF FewTokens
  <2>. QED
    BY <2>2, <2>3
<1>8. \/ UNCHANGED vars \/ FillChar \/ FeedEnd \/ Step
  BY DEF SNext, Inside, Call, FillFed, FillEnd, FillMore, FillEnded, FillFails,
         LexerStep, AnswerEnd, AnswerNext, StepBack, svars
<1>. QED
  BY <1>4, <1>5, <1>6, <1>7, <1>8

\* A text with no more characters than the window holds tokens never overruns
\* it: with the window of the code, ten, the hypothesis of the two theorems
\* above holds of every text of up to ten characters.
THEOREM ShortTextsFit ==
  ASSUME MaxText <= Window PROVE SSpec => []CallsFit
<1>1. SInit => IInv /\ SInv /\ FewTokens
  <2>1. SInit => FewTokens
    BY LexerAssumption DEF SInit, Init, FewTokens
  <2>. QED
    BY <2>1, InitIInv, InitSInv DEF SInit
<1>2. IInv /\ SInv /\ FewTokens => CallsFit
  <2>1. SUFFICES ASSUME IInv, SInv, FewTokens, Given
                 PROVE  Len(token_buffer) - cur_pos + Len(batch) <= Window
    BY DEF CallsFit
  <2>2. /\ Len(out) = dropped + Len(token_buffer) + Len(batch)
        /\ dropped \in Nat /\ cur_pos \in Nat /\ Len(token_buffer) \in Nat
    BY <2>1, StreamIsOK DEF SInv, Buffered, Unput, StreamOK
  <2>3. /\ Len(out) \in Nat /\ Len(batch) \in Nat /\ Len(taken) \in Nat
        /\ Len(cache) \in Nat /\ Len(text) \in Nat
    BY <2>1 DEF IInv, TypeOK
  <2>4. Len(out) <= Len(taken) /\ Len(taken) + Len(cache) <= Len(text) /\ Len(text) <= MaxText
    BY <2>1, <2>3 DEF FewTokens, Given
  <2>. QED
    BY <2>2, <2>3, <2>4, SimpleAssumption, LexerAssumption
<1>3. IInv /\ SInv /\ FewTokens /\ [SNext]_svars => IInv' /\ SInv' /\ FewTokens'
  BY <1>2, NextBoth, NextFew
<1>. QED
  BY <1>1, <1>2, <1>3, PTL DEF SSpec
================================================================================
