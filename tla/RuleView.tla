------------------------------- MODULE RuleView -------------------------------
(***************************************************************************)
(* What the iot source promises a rule: it is told nothing but the present *)
(* value of its condition, it may have to forget what it was told, and a   *)
(* rule that is judged is told in the end when the value stays different.  *)
(***************************************************************************)
CONSTANT Rule

VARIABLES
  truth,   \* the value of each rule's condition: "true", "false" or "unknown"
  live,    \* the rules that are judged
  seen     \* what each rule was last told, "unknown" when nothing

vars == <<truth, live, seen>>

Init == live = {} /\ seen = [r \in Rule |-> "unknown"]

\* the world moves, or rules are configured: some forget, none is told anything
Move ==
  \E F \in SUBSET Rule :
    seen' = [r \in Rule |-> IF r \in F THEN "unknown" ELSE seen[r]]

Observe(r) ==
  /\ r \in live /\ seen[r] # truth[r]
  /\ seen' = [seen EXCEPT ![r] = truth[r]]
  /\ UNCHANGED <<truth, live>>

Next == Move \/ \E r \in Rule : Observe(r)

\* weak fairness of Observe(r), its ENABLED written out
Prompt(r) ==
  <>[](r \in live /\ seen[r] # truth[r]) => []<><<Observe(r)>>_vars

Spec == Init /\ [][Next]_vars /\ \A r \in Rule : Prompt(r)
===============================================================================
