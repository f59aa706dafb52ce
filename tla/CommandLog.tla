----------------------------- MODULE CommandLog -----------------------------
(***************************************************************************)
(* What the history of a shell promises: it remembers the last Size        *)
(* commands, !! enters the newest of them once more, and the user can have *)
(* them listed, newest first, each with the number it was entered under.   *)
(***************************************************************************)
EXTENDS Naturals, Sequences

CONSTANTS Size,     \* how many commands are remembered
          Commands  \* the commands there are

VARIABLES recent,   \* the remembered commands, oldest first
          total,    \* how many commands have been entered
          listed    \* the last list printed, of pairs <<number, command>>

vars == <<recent, total, listed>>

Init ==
  /\ recent = <<>>
  /\ total = 0
  /\ listed = <<>>

Enter(c) ==
  /\ recent' = Append(IF Len(recent) = Size THEN Tail(recent) ELSE recent, c)
  /\ total' = total + 1
  /\ UNCHANGED listed

Repeat ==
  /\ recent # <<>>
  /\ Enter(recent[Len(recent)])

List ==
  /\ listed' = [k \in 1 .. Len(recent) |-> <<total + 1 - k, recent[Len(recent) + 1 - k]>>]
  /\ UNCHANGED <<recent, total>>

Next == (\E c \in Commands : Enter(c)) \/ Repeat \/ List

Spec == Init /\ [][Next]_vars
=============================================================================
