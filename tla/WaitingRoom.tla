---------------------------- MODULE WaitingRoom -----------------------------
(***************************************************************************)
(* What the hallway of Assignment 3 promises, with no thread, lock,        *)
(* semaphore or ring buffer in sight: students who find a chair are helped *)
(* one at a time, in the order they sat down, and the TA does not leave    *)
(* them waiting for ever.                                                  *)
(***************************************************************************)
EXTENDS Naturals, Sequences

CONSTANTS
  Students,
  Chairs,   \* how many students the hallway seats
  Nobody    \* the value of helping when the TA helps no one

VARIABLES
  queue,    \* the students in the hallway, in the order they sat down
  helping   \* the student the TA helps, or Nobody

vars == <<queue, helping>>

Seated(s) == \E k \in 1..Len(queue) : queue[k] = s

Init ==
  /\ queue = <<>>
  /\ helping = Nobody

Arrive(s) ==
  /\ ~Seated(s)
  /\ Len(queue) < Chairs
  /\ queue' = Append(queue, s)
  /\ UNCHANGED helping

StartHelp ==
  /\ helping = Nobody
  /\ queue # <<>>
  /\ helping' = Head(queue)
  /\ queue' = Tail(queue)

FinishHelp ==
  /\ helping # Nobody
  /\ helping' = Nobody
  /\ UNCHANGED queue

Next == (\E s \in Students : Arrive(s)) \/ StartHelp \/ FinishHelp

SafeSpec == Init /\ [][Next]_vars

Spec == SafeSpec /\ WF_vars(StartHelp) /\ WF_vars(FinishHelp)
=============================================================================
