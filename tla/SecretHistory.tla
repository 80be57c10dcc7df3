--------------------------- MODULE SecretHistory ---------------------------
(***************************************************************************)
(* What the life of a variable promises to those who pull it, roll it      *)
(* back, trash it and restore it: its versions are numbered one by one,    *)
(* each of a value that no other variable has; a value, once recorded,     *)
(* stays readable until the restore window of its variable has closed; and *)
(* the history goes last, when nothing of it is left to read.              *)
(* VariableVault implements this as long as nobody empties the trash.      *)
(***************************************************************************)
EXTENDS Naturals, FiniteSets

CONSTANTS Variable, Ref, NoRef

VARIABLES
  state,     \* "unborn", "live", "trashed", "overdue" (trashed, and the
             \* window has closed) or "purged"
  history,   \* the versions: whose, which number, which value
  pulled,    \* what a pull of a variable returns
  readable   \* the values of the history that can be read

historyVars == <<state, history, pulled, readable>>

Versions(v) == {x \in history : x.variable = v}
Values(v) == {x.vaultRef : x \in Versions(v)}

Init ==
  /\ state = [v \in Variable |-> "unborn"]
  /\ history = {}
  /\ pulled = [v \in Variable |-> NoRef]
  /\ readable = {}

\* A creation, an update, an edit of what is not the value, or a rollback:
\* the value is nobody else's, and if it was there before it could be read.
Record(v, r) ==
  /\ state[v] \in {"unborn", "live"}
  /\ \A w \in Variable \ {v} : r \notin Values(w)
  /\ r \in Values(v) => r \in readable
  /\ state' = [state EXCEPT ![v] = "live"]
  /\ history' = history \cup
       {[variable |-> v, version |-> Cardinality(Versions(v)) + 1, vaultRef |-> r]}
  /\ pulled' = [pulled EXCEPT ![v] = r]
  /\ readable' = readable \cup {r}

Trash(v) ==
  /\ state[v] = "live"
  /\ state' = [state EXCEPT ![v] = "trashed"]
  /\ UNCHANGED <<history, pulled, readable>>

Restore(v) ==
  /\ state[v] = "trashed"
  /\ state' = [state EXCEPT ![v] = "live"]
  /\ UNCHANGED <<history, pulled, readable>>

\* Time passes, and the window closes on some variables.
Lapse ==
  /\ \E V \in SUBSET {v \in Variable : state[v] = "trashed"} :
       state' = [v \in Variable |-> IF v \in V THEN "overdue" ELSE state[v]]
  /\ UNCHANGED <<history, pulled, readable>>

Erode(v) ==
  /\ state[v] = "overdue"
  /\ readable' \subseteq readable
  /\ readable \ readable' \subseteq Values(v)
  /\ UNCHANGED <<state, history, pulled>>

Drop(v) ==
  /\ state[v] = "overdue"
  /\ Values(v) \cap readable = {}
  /\ state' = [state EXCEPT ![v] = "purged"]
  /\ history' = history \ Versions(v)
  /\ pulled' = [pulled EXCEPT ![v] = NoRef]
  /\ UNCHANGED readable

Next ==
  \/ \E v \in Variable :
       \/ \E r \in Ref : Record(v, r)
       \/ Trash(v) \/ Restore(v) \/ Erode(v) \/ Drop(v)
  \/ Lapse

Spec == Init /\ [][Next]_historyVars
=============================================================================
