------------------------------ MODULE MCRuleTask ------------------------------
(***************************************************************************)
(* Small tasks for RuleTask: which rules a task may have and what feeds    *)
(* them.  The runs pick one.                                               *)
(***************************************************************************)
EXTENDS RuleTask

CONSTANTS stay, come, go, door, camA, camB, lock, lamp

\* what each rule id stands for
MCDirection ==
  [r \in Rule |-> CASE r = stay -> "session"
                   [] r = come -> "enter"
                   [] r = go -> "exit"
                   [] OTHER -> "guard"]

\* "stay" is seen by two cameras, or one when Did has one; "go" and "door" are iot rules
MCSource ==
  [r \in Rule |-> CASE r = stay -> Did \ {lock}
                   [] r = come -> {camA}
                   [] OTHER -> {lock}]

MCSteady == Rule \cap {go, door}
=============================================================================
