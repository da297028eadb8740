-------------------------- MODULE MCAgentDispatcher --------------------------
(* Small instances of AgentDispatcher.  The session "main" carries three    *)
(* types of two priorities, as agent:main:miloco does in _ROUTE; "rule" is  *)
(* a session of its own.                                                    *)
EXTENDS AgentDispatcher, TLC

CONSTANTS i1, b1, o1, r1, t1, t2, t3

MCType == i1 :> "interaction" @@ b1 :> "bind" @@ o1 :> "onboarding" @@ r1 :> "rule"
MCKind == [e \in Event |-> MCType[e]]
MCRoute == [e \in Event |-> IF e = r1 THEN "rule" ELSE "main"]
MCPriority == [e \in Event |-> CASE e = i1 -> 0 [] e = r1 -> 10 [] OTHER -> 30]
MCIntra == [e \in Event |-> 0]
TaskSymmetry == Permutations(Task)
=============================================================================
