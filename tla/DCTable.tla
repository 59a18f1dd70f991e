-------------------------------- MODULE DCTable --------------------------------
(****************************************************************************)
(* What feed(), end() and reset() rely on in the table they run on: an item  *)
(* set for every state, and entries that follow from it.                     *)
(****************************************************************************)
EXTENDS DCGrammar

CONSTANTS
    States,        \* state numbers of the table
    StateItems,    \* h_state2set: the item set of each state
    Table          \* m_pds_mapping: States -> Symbols -> entry

------------------------------------------------------------------------------
(* What the table promises *)

\* Item i is an item of s moved over symbol c.
Advances(s, c, i) ==
    /\ i[2] > 0
    /\ <<i[1], i[2] - 1>> \in StateItems[s]
    /\ Rhs(i[1])[i[2]] = c

ShiftSound(s, c, e) ==
    /\ e.type = "SHIFT"
    /\ e.state \in States
    /\ \A i \in StateItems[e.state] :
          \/ (i[2] = 0 /\ Lhs(i[1]) # RealStart)
          \/ Advances(s, c, i)

ReduceSound(s, c, e) ==
    /\ e.type = "REDUCE"
    /\ e.rule \in RuleId
    /\ Advances(s, c, <<e.rule, Len(Rhs(e.rule))>>)

LookaheadSound(s, c, e) ==
    /\ e.type = "LOOKAHEAD"
    /\ DOMAIN e.next = Terms \cup {EOF}
    /\ \A t \in Terms \cup {EOF} :
          ShiftSound(s, c, e.next[t]) \/ ReduceSound(s, c, e.next[t])

PlainSound(s, c, e) ==
    CASE e.type = "SHIFT"     -> ShiftSound(s, c, e)
      [] e.type = "REDUCE"    -> ReduceSound(s, c, e)
      [] e.type = "LOOKAHEAD" -> LookaheadSound(s, c, e)
      [] OTHER                -> e.type = "REJECT"

\* The entries an entry stands for once its decisions are taken: the callbacks
\* may eliminate any of the items they are asked about.
Resolved(e) == IF e.type = "DECISION"
               THEN {e.action[D] : D \in SUBSET e.evals}
               ELSE {e}

EntrySound(s, c, e) ==
    /\ e.type = "DECISION" =>
          \A i \in e.evals : i \in Item /\ (i[2] = 0 \/ Advances(s, c, i))
    /\ \A p \in Resolved(e) : PlainSound(s, c, p)

\* The entries of every state are sound, and nothing is behind the start state.
IsSound(start) ==
    /\ start \in States
    /\ \A s \in States : StateItems[s] \subseteq {i \in Item : ~Completed(i)}
    /\ \A i \in StateItems[start] : i[2] = 0
    /\ \A s \in States : \A c \in Symbols : EntrySound(s, c, Table[s][c])

==============================================================================
