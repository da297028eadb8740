--------------------------- MODULE SessionMailbox ---------------------------
(***************************************************************************)
(* What the dispatcher promises its producers, whatever its queue does     *)
(* inside: an event waits, goes into at most one turn and meets one fate;  *)
(* a session has one turn at a time, all of one type.                      *)
(***************************************************************************)
CONSTANTS Event, Session, Route, Kind

VARIABLES
  fate,      \* Event -> what the producer's future says
  waiting,   \* events not yet in a turn
  turn       \* Session -> events of the turn being sent

vars == <<fate, waiting, turn>>

Known(e) == e \in waiting \/ \E s \in Session : e \in turn[s]

\* the producers of D learn v, unless they have stopped listening
Tell(f, D, v) == [e \in Event |-> IF e \in D /\ f[e] = "pending" THEN v ELSE f[e]]

Init ==
  /\ fate = [e \in Event |-> "idle"]
  /\ waiting = {}
  /\ turn = [s \in Session |-> {}]

\* e is handed in; D, perhaps with e, is turned away to make room
Submit(e, D) ==
  /\ ~Known(e)
  /\ waiting' = (waiting \cup {e}) \ D
  /\ fate' = Tell([fate EXCEPT ![e] = "pending"], D, "undelivered")
  /\ UNCHANGED turn

Drop(D) ==
  /\ D # {}
  /\ waiting' = waiting \ D
  /\ fate' = Tell(fate, D, "undelivered")
  /\ UNCHANGED turn

\* the turn B of session s begins, what is not worth sending goes
Begin(s, B, D) ==
  /\ turn[s] = {} /\ B # {}
  /\ \A d, e \in B : Route[e] = s /\ Kind[d] = Kind[e]
  /\ turn' = [turn EXCEPT ![s] = B]
  /\ waiting' = waiting \ (B \cup D)
  /\ fate' = Tell(fate, D, "undelivered")

End(s, v) ==
  /\ turn[s] # {}
  /\ turn' = [turn EXCEPT ![s] = {}]
  /\ fate' = Tell(fate, turn[s], v)
  /\ UNCHANGED waiting

GiveUp(e) ==
  /\ fate[e] = "pending"
  /\ fate' = [fate EXCEPT ![e] = "cancelled"]
  /\ UNCHANGED <<waiting, turn>>

Next ==
  \/ \E e \in Event : GiveUp(e) \/ \E D \in SUBSET (waiting \cup {e}) : Submit(e, D)
  \/ \E D \in SUBSET waiting : Drop(D)
  \/ \E s \in Session :
       \/ \E B \in SUBSET waiting : \E D \in SUBSET (waiting \ B) : Begin(s, B, D)
       \/ \E v \in {"delivered", "undelivered"} : End(s, v)

Spec == Init /\ [][Next]_vars
=============================================================================
