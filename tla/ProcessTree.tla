----------------------------- MODULE ProcessTree -----------------------------
(***************************************************************************)
(* The process tree of Lab_2/solution/PLfork.c.  Every process prints its  *)
(* PID and then forks its children one after the other, waiting for all    *)
(* its children after each fork.                                           *)
(*                                                                         *)
(* printf writes to a buffer.  On a terminal the buffer is written at the  *)
(* end of a line; into a file or a pipe when the process returns from      *)
(* main, and until then a fork gives the child a copy of it.  A PID is     *)
(* printed as the process that has it: born has the processes in the order *)
(* of their creation, in which the system hands out ascending PIDs.        *)
(***************************************************************************)
EXTENDS Integers, SequencesExt

CONSTANTS
  Processes,  \* P1 to P9 of the assignment
  Root,       \* P1
  Kids        \* the children of each, in the order in which it forks them

ASSUME TreeAssumption ==
  /\ Root \in Processes
  /\ Kids \in [Processes -> Seq(Processes)]
  /\ \A p \in Processes : Root \notin Range(Kids[p])
  /\ \A p \in Processes : IsInjective(Kids[p])
  /\ \A p \in Processes \ {Root} : \E q \in Processes :
       /\ p \in Range(Kids[q])
       /\ \A r \in Processes : p \in Range(Kids[r]) => r = q

VARIABLES
  terminal,  \* whether the output is a terminal
  pc,        \* where each process is
  forked,    \* how many children each has forked
  buffer,    \* what each has printed that is not written yet
  born,      \* the processes in the order of their creation
  output     \* what has been written

vars == <<terminal, pc, forked, buffer, born, output>>

(* The nesting of the forks in the source, written as a tree.              *)
PLfork ==
  "P1" :> <<"P2">> @@ "P2" :> <<"P9", "P3", "P5">> @@ "P3" :> <<"P7", "P4">> @@
  "P4" :> <<"P6">> @@ "P5" :> <<"P8">> @@
  "P6" :> << >> @@ "P7" :> << >> @@ "P8" :> << >> @@ "P9" :> << >>

Init ==
  /\ terminal \in BOOLEAN
  /\ pc = [p \in Processes |-> IF p = Root THEN "started" ELSE "not created"]
  /\ forked = [p \in Processes |-> 0]
  /\ buffer = [p \in Processes |-> << >>]
  /\ born = <<Root>>
  /\ output = << >>

-----------------------------------------------------------------------------
ForksNext(p) == IF forked[p] < Len(Kids[p]) THEN "forking" ELSE "returning"

(* waitpid(-1, ...) is about the children that have not been reaped.       *)
Children(p) == {Kids[p][i] : i \in 1 .. forked[p]}
Unreaped(p) == {c \in Children(p) : pc[c] # "reaped"}

PrintPid(p) ==
  /\ pc[p] = "started"
  /\ pc' = [pc EXCEPT ![p] = ForksNext(p)]
  /\ IF terminal
       THEN output' = Append(output, p) /\ UNCHANGED buffer
       ELSE buffer' = [buffer EXCEPT ![p] = Append(@, p)] /\ UNCHANGED output
  /\ UNCHANGED <<terminal, forked, born>>

(* Mutant: the child begins with an empty buffer.                          *)
ForkWithoutBuffer(p) ==
  LET child == Kids[p][forked[p] + 1]
  IN  /\ pc[p] = "forking"
      /\ pc' = [pc EXCEPT ![p] = "waiting", ![child] = "started"]
      /\ forked' = [forked EXCEPT ![p] = @ + 1]
      /\ born' = Append(born, child)
      /\ UNCHANGED <<terminal, buffer, output>>

Fork(p) ==
  LET child == Kids[p][forked[p] + 1]
  IN  /\ pc[p] = "forking"
      /\ pc' = [pc EXCEPT ![p] = "waiting", ![child] = "started"]
      /\ forked' = [forked EXCEPT ![p] = @ + 1]
      /\ buffer' = [buffer EXCEPT ![child] = buffer[p]]
      /\ born' = Append(born, child)
      /\ UNCHANGED <<terminal, output>>

(* The system has no room for a process: the rest of the subtree is given  *)
(* up.  The message, which no fork copies any more, is left out.           *)
ForkFails(p) ==
  /\ pc[p] = "forking"
  /\ pc' = [pc EXCEPT ![p] = "returning"]
  /\ UNCHANGED <<terminal, forked, buffer, born, output>>

(* Mutant: only the eldest child is waited for.                            *)
ReapEldest(p) ==
  /\ pc[p] = "waiting"
  /\ pc[Kids[p][1]] = "zombie"
  /\ pc' = [pc EXCEPT ![Kids[p][1]] = "reaped"]
  /\ UNCHANGED <<terminal, forked, buffer, born, output>>

(* A call of waitpid that finds a child; the loop calls it again.          *)
Reap(p) ==
  /\ pc[p] = "waiting"
  /\ \E c \in Unreaped(p) :
       /\ pc[c] = "zombie"
       /\ pc' = [pc EXCEPT ![c] = "reaped"]
  /\ UNCHANGED <<terminal, forked, buffer, born, output>>

(* Mutant: no wait between two forks.                                      *)
WaitEndsBeforeFork(p) ==
  /\ pc[p] = "waiting"
  /\ Unreaped(p) = {} \/ ForksNext(p) = "forking"
  /\ pc' = [pc EXCEPT ![p] = ForksNext(p)]
  /\ UNCHANGED <<terminal, forked, buffer, born, output>>

(* Mutant: no wait after the last fork.                                    *)
WaitEndsBeforeReturn(p) ==
  /\ pc[p] = "waiting"
  /\ Unreaped(p) = {} \/ ForksNext(p) = "returning"
  /\ pc' = [pc EXCEPT ![p] = ForksNext(p)]
  /\ UNCHANGED <<terminal, forked, buffer, born, output>>

(* The call that fails: there is no child.                                 *)
WaitEnds(p) ==
  /\ pc[p] = "waiting"
  /\ Unreaped(p) = {}
  /\ pc' = [pc EXCEPT ![p] = ForksNext(p)]
  /\ UNCHANGED <<terminal, forked, buffer, born, output>>

Return(p) ==
  /\ pc[p] = "returning"
  /\ pc' = [pc EXCEPT ![p] = "zombie"]
  /\ output' = output \o buffer[p]
  /\ buffer' = [buffer EXCEPT ![p] = << >>]
  /\ UNCHANGED <<terminal, forked, born>>

process(p) ==
  \/ PrintPid(p) \/ Fork(p) \/ ForkFails(p)
  \/ Reap(p) \/ WaitEnds(p) \/ Return(p)

Next == \E p \in Processes : process(p)

SafeSpec == Init /\ [][Next]_vars

(* The system runs every process that can run.                             *)
Spec == SafeSpec /\ \A p \in Processes : WF_vars(process(p))

-----------------------------------------------------------------------------
Ended == {p \in Processes : pc[p] \in {"zombie", "reaped"}}

TypeOK ==
  /\ terminal \in BOOLEAN
  /\ pc \in [Processes -> {"not created", "started", "forking", "waiting",
                           "returning", "zombie", "reaped"}]
  /\ forked \in [Processes -> Nat]
  /\ buffer \in [Processes -> Seq(Processes)]
  /\ born \in Seq(Processes)
  /\ output \in Seq(Processes)

(* On a terminal the PIDs come out in ascending order, the order of the    *)
(* creation of the processes (PLfork.c: each parent waits for a subtree,   *)
(* line 22 for one, before it forks the next).                             *)
OutputInOrderOfCreation == terminal => IsPrefix(output, born)

(* A process and all below it, as far as their forks succeed: what every   *)
(* set has that has the process and the children of its members.           *)
Subtree == [p \in Processes |->
  {q \in Processes : \A S \in SUBSET Processes :
     p \in S /\ (\A r \in S : Range(Kids[r]) \subseteq S) => q \in S}]

(* On a terminal a PID is printed once.  In a file it is there once for    *)
(* every process of its subtree that has ended, itself included: each      *)
(* writes the buffers of its ancestors as they were at its creation        *)
(* (printf of PLfork.c, line 7 for one, before the forks).                 *)
PidsPrinted ==
  LET Times(p) == Cardinality({i \in DOMAIN output : output[i] = p})
  IN  \A p \in Processes :
        Times(p) = IF terminal
                   THEN IF pc[p] \in {"not created", "started"} THEN 0 ELSE 1
                   ELSE Cardinality(Ended \cap Subtree[p])

(* No process outlives its parent, nor is left as a zombie by it: PLfork.c *)
(* waits after the last fork, too (line 88 for one), and has no child to   *)
(* wait for when a fork fails.                                             *)
NoOrphans == \A p \in Ended : Unreaped(p) = {}

(* The root returns, whichever forks fail.                                 *)
TreeEnds == <>(pc[Root] = "zombie")
=============================================================================
