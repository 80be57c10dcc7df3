---------------------------- MODULE OneTimeLink ----------------------------
(***************************************************************************)
(* What a one-time share does: whoever takes it shuts it and may show it   *)
(* once, after reading it; it is given back only by a taker who has not    *)
(* read it, or recalled by somebody with the link; its ciphertext goes when*)
(* it was read or the link is closed; and a closed link stays closed.      *)
(* SecretShares implements this if no transaction commits and is seen to   *)
(* fail.                                                                   *)
(***************************************************************************)
EXTENDS Naturals

CONSTANTS Link, Taker

VARIABLES
  state,     \* "none", "open", "shut" or "closed"
  taken,     \* <<link, taker>>: took it, and has not read it
  read,      \* <<link, taker>>: has read it, and not yet shown it
  shown,     \* how often a link was shown
  recalls,   \* how often somebody opened it again from outside
  readable   \* the opened links whose ciphertext can be read

linkVars == <<state, taken, read, shown, recalls, readable>>

Init ==
  /\ state = [l \in Link |-> "none"]
  /\ taken = {} /\ read = {} /\ readable = {}
  /\ shown = [l \in Link |-> 0] /\ recalls = [l \in Link |-> 0]

Becomes(l, from, to) == state[l] = from /\ state' = [state EXCEPT ![l] = to]

Publish(l) ==
  /\ Becomes(l, "none", "open")
  /\ readable' = readable \cup {l}
  /\ UNCHANGED <<taken, read, shown, recalls>>

Take(l, t) ==
  /\ Becomes(l, "open", "shut")
  /\ taken' = taken \cup {<<l, t>>}
  /\ UNCHANGED <<read, shown, recalls, readable>>

Read(l, t) ==
  /\ <<l, t>> \in taken /\ l \in readable
  /\ taken' = taken \ {<<l, t>>}
  /\ read' = read \cup {<<l, t>>}
  /\ UNCHANGED <<state, shown, recalls, readable>>

GiveBack(l, t) ==
  /\ <<l, t>> \in taken
  /\ taken' = taken \ {<<l, t>>}
  /\ state' = [state EXCEPT ![l] = IF @ = "shut" THEN "open" ELSE @]
  /\ UNCHANGED <<read, shown, recalls, readable>>

Show(l, t) ==
  /\ <<l, t>> \in read
  /\ read' = read \ {<<l, t>>}
  /\ shown' = [shown EXCEPT ![l] = @ + 1]
  /\ UNCHANGED <<state, taken, recalls, readable>>

\* The taker was stopped, or could not give it back.
Lose(l, t) ==
  /\ <<l, t>> \in taken \cup read
  /\ taken' = taken \ {<<l, t>>}
  /\ read' = read \ {<<l, t>>}
  /\ UNCHANGED <<state, shown, recalls, readable>>

Recall(l) ==
  /\ Becomes(l, "shut", "open")
  /\ recalls' = [recalls EXCEPT ![l] = @ + 1]
  /\ UNCHANGED <<taken, read, shown, readable>>

\* By the organization, with the resource, or by time: several at once.
Close ==
  /\ \E L \in SUBSET {l \in Link : state[l] = "open"} :
       state' = [l \in Link |-> IF l \in L THEN "closed" ELSE state[l]]
  /\ UNCHANGED <<taken, read, shown, recalls, readable>>

Erase(l) ==
  /\ state[l] = "closed" \/ \E t \in Taker : <<l, t>> \in read
  /\ readable' = readable \ {l}
  /\ UNCHANGED <<state, taken, read, shown, recalls>>

LinkStep(l) ==
  \/ Publish(l) \/ Recall(l) \/ Erase(l)
  \/ \E t \in Taker : Take(l, t) \/ Read(l, t) \/ GiveBack(l, t) \/ Show(l, t) \/ Lose(l, t)

Next == (\E l \in Link : LinkStep(l)) \/ Close

Spec == Init /\ [][Next]_linkVars
=============================================================================
