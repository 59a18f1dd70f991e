------------------------------ MODULE ShiftReduce ------------------------------
(****************************************************************************)
(* What DCParser promises a caller that knows nothing of its tables and      *)
(* queues: a shift-reduce parser.  Every token the caller gives is waiting,  *)
(* below one of the chars held, or spent; it takes the tokens in the order   *)
(* given, replaces the chars of a right side by the nonterminal of the rule, *)
(* and accepts when the start symbol, built from all the tokens not spent,   *)
(* is all it holds.  Which rule is reduced when, and which tokens and chars  *)
(* are given up, is left open.                                               *)
(****************************************************************************)
EXTENDS DCGrammar

CONSTANT Tokens        \* ids of the tokens the caller may give

VARIABLES
    given,      \* number of tokens given: their positions are 1..given
    front,      \* the chars held, oldest first
    spent,      \* positions of the tokens given up
    verdict     \* "accepted" once the caller has the start symbol

parser == <<given, front, spent, verdict>>

Positions(chars) == UNION {chars[k].toks : k \in DOMAIN chars}

Waiting == (1..given) \ (spent \cup Positions(front))

Token(t, p) == [id |-> t, toks |-> {p}, parts |-> {}]
Node(r, kids) ==
    [id    |-> Lhs(r),
     toks  |-> Positions(kids),
     parts |-> {<<r, Positions(kids)>>} \cup
               UNION {kids[k].parts : k \in DOMAIN kids}]

Init == given = 0 /\ front = << >> /\ spent = {} /\ verdict = "open"

Give == /\ verdict = "open"
        /\ given' = given + 1
        /\ UNCHANGED <<front, spent, verdict>>

Shift == \E t \in Tokens, p \in Waiting :
            /\ \A q \in Positions(front) : q < p
            /\ front' = Append(front, Token(t, p))
            /\ UNCHANGED <<given, spent, verdict>>

\* The token taken last is handed back: no char has been built from it.
HandBack == /\ front # << >> /\ front[Len(front)].parts = {}
            /\ front' = SubSeq(front, 1, Len(front) - 1)
            /\ UNCHANGED <<given, spent, verdict>>

Reduce == \E r \in RuleId :
    LET n    == Len(Rhs(r))
        kids == SubSeq(front, Len(front) - n + 1, Len(front))
    IN  /\ n <= Len(front)
        /\ \A k \in 1..n : kids[k].id = Rhs(r)[k]
        /\ front' = Append(SubSeq(front, 1, Len(front) - n), Node(r, kids))
        /\ UNCHANGED <<given, spent, verdict>>

\* Waiting tokens and the last chars, with all the tokens below them, are given up.
GiveUp == \E k \in 0..Len(front) :
    LET lost == Positions(SubSeq(front, Len(front) - k + 1, Len(front)))
    IN  /\ front' = SubSeq(front, 1, Len(front) - k)
        /\ spent \cup lost \subseteq spent'
        /\ spent' \subseteq spent \cup lost \cup Waiting
        /\ UNCHANGED <<given, verdict>>

Accept == /\ verdict = "open"
          /\ Len(front) = 1 /\ front[1].id = RealStart
          /\ Waiting = {}
          /\ verdict' = "accepted"
          /\ UNCHANGED <<given, front, spent>>

\* The next parse: no token given so far has a part in it.
Renew == /\ front' = << >> /\ spent' = 1..given /\ verdict' = "open"
         /\ UNCHANGED given

Next == Give \/ Shift \/ HandBack \/ Reduce \/ GiveUp \/ Accept \/ Renew

Spec == Init /\ [][Next]_parser
==============================================================================
