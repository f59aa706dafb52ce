------------------------------ MODULE AtomicSum ------------------------------
(***************************************************************************)
(* What a set of threads that change one number promise: the change of     *)
(* each takes effect at once and exactly one time, and the number is       *)
(* announced when all have.                                                *)
(***************************************************************************)
EXTENDS Integers

VARIABLES
  change,     \* what each thread adds, a function on the threads
  total,      \* the number
  applied,    \* the threads whose change has taken effect
  announced   \* whether the final number has been made known

vars == <<change, total, applied, announced>>

Init ==
  /\ change \in [DOMAIN change -> Int]
  /\ total = 0
  /\ applied = {}
  /\ announced = FALSE

Apply(t) ==
  /\ t \notin applied
  /\ total' = total + change[t]
  /\ applied' = applied \cup {t}
  /\ UNCHANGED <<change, announced>>

Announce ==
  /\ applied = DOMAIN change
  /\ announced' = TRUE
  /\ UNCHANGED <<change, total, applied>>

Next == (\E t \in DOMAIN change : Apply(t)) \/ Announce

Spec == Init /\ [][Next]_vars
=============================================================================
