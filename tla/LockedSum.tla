------------------------------ MODULE LockedSum ------------------------------
(***************************************************************************)
(* The bank account of Lab_3/solution/part1.c and the sum of               *)
(* Lab_2/solution/PLthreads.c: threads that each change a shared number    *)
(* once, under a mutex.  They differ in what the threads add (an argument, *)
(* with a sign; the sum of a part of a list, which a thread forms on its   *)
(* own before it locks) and in what main does when a thread cannot be      *)
(* created: part1.c exits; PLthreads.c does not look, and goes on to join  *)
(* a thread that does not exist, which no standard defines.                *)
(*                                                                         *)
(* amount += x is a load and a store: what a thread does under the mutex   *)
(* is the two actions Lock, which ends with the load, and Unlock, which    *)
(* begins with the store.                                                  *)
(***************************************************************************)
EXTENDS Integers, FiniteSets

CONSTANT Programs  \* the programs and their inputs, records of a function
                   \* change and a Boolean checked (of pthread_create)

ProgramsOK ==
  \A prog \in Programs :
    /\ DOMAIN prog.change # {} /\ IsFiniteSet(DOMAIN prog.change)
    /\ \A t \in DOMAIN prog.change :
         t \in Nat /\ (t > 0 => t - 1 \in DOMAIN prog.change)
    /\ prog.change \in [DOMAIN prog.change -> Int]
    /\ prog.checked \in BOOLEAN

ASSUME SumAssumption == ProgramsOK

VARIABLES
  program,    \* which one runs
  amount,     \* the number: amount, or total_sum
  mutex,      \* the thread that holds it, or Nobody
  loaded,     \* what each thread has read of the number
  thread_pc, main_pc

vars == <<program, amount, mutex, loaded, thread_pc, main_pc>>

Threads == DOMAIN program.change
Nobody  == -1

(* part1.c: the first half of the threads withdraws, the second deposits.  *)
Bank(n, deposit_amount, withdraw_amount) ==
  [change  |-> [t \in 0 .. 2 * n - 1 |-> IF t < n THEN -withdraw_amount ELSE deposit_amount],
   checked |-> TRUE]

(* PLthreads.c: two threads sum the halves of list, from_index to to_index *)
(* less one in C, which counts a list from 0.                              *)
PartialSum(list, from_index, to_index) ==
  LET sum[i \in from_index .. to_index] ==
        IF i = from_index THEN 0 ELSE sum[i - 1] + list[i]
  IN  sum[to_index]

ListSum(list, SIZE) ==
  [change  |-> [t \in 0 .. 1 |-> IF t = 0 THEN PartialSum(list, 0, SIZE \div 2)
                                          ELSE PartialSum(list, SIZE \div 2, SIZE)],
   checked |-> FALSE]

Init ==
  /\ program \in Programs
  /\ amount = 0
  /\ mutex = Nobody
  /\ loaded = [t \in Threads |-> 0]
  /\ thread_pc = [t \in Threads |-> "not created"]
  /\ main_pc = "creating"

-----------------------------------------------------------------------------
(* main creates the threads in the order of their numbers.                 *)
Creates(t, state) ==
  /\ main_pc = "creating"
  /\ thread_pc[t] = "not created"
  /\ \A u \in Threads : u < t => thread_pc[u] # "not created"
  /\ thread_pc' = [thread_pc EXCEPT ![t] = state]
  /\ main_pc' = IF t + 1 \in Threads THEN "creating" ELSE "joining"
  /\ UNCHANGED <<program, amount, mutex, loaded>>

CreateThread == \E t \in Threads : Creates(t, "locking")

(* main exits, and every thread with it.                                   *)
CreateFails ==
  /\ program.checked
  /\ main_pc = "creating"
  /\ main_pc' = "dead"
  /\ UNCHANGED <<program, amount, mutex, loaded, thread_pc>>

CreateFailsUnnoticed ==
  /\ ~program.checked
  /\ \E t \in Threads : Creates(t, "missing")

JoinAndPrint ==
  /\ main_pc = "joining"
  /\ \A t \in Threads : thread_pc[t] = "done"
  /\ main_pc' = "printed"
  /\ UNCHANGED <<program, amount, mutex, loaded, thread_pc>>

(* The thread number that pthread_create did not set is garbage: the call  *)
(* crashes, or it returns and main prints the sum without that thread.     *)
JoinMissing ==
  /\ main_pc = "joining"
  /\ \E t \in Threads :
       /\ thread_pc[t] = "missing"
       /\ \A u \in Threads : u < t => thread_pc[u] \in {"missing", "done"}
       /\ \/ main_pc' = "dead"
          \/ /\ \A u \in Threads : thread_pc[u] \in {"missing", "done"}
             /\ main_pc' = "printed without"
  /\ UNCHANGED <<program, amount, mutex, loaded, thread_pc>>

main == \/ CreateThread \/ CreateFails \/ CreateFailsUnnoticed
        \/ JoinAndPrint \/ JoinMissing

(* deposit, withdraw, summing1 and summing2 are one program: the change    *)
(* has the sign.                                                           *)
Moves(t, from, to) ==
  /\ main_pc # "dead"
  /\ thread_pc[t] = from
  /\ thread_pc' = [thread_pc EXCEPT ![t] = to]
  /\ UNCHANGED <<program, main_pc>>

(* Mutant: the mutex is not waited for.                                    *)
LockAnyway(t) ==
  /\ Moves(t, "locking", "changing")
  /\ mutex' = t
  /\ loaded' = [loaded EXCEPT ![t] = amount]
  /\ UNCHANGED amount

Lock(t) ==
  /\ Moves(t, "locking", "changing")
  /\ mutex = Nobody
  /\ mutex' = t
  /\ loaded' = [loaded EXCEPT ![t] = amount]
  /\ UNCHANGED amount

(* Mutant: the thread ends with the mutex.                                 *)
EndLocked(t) ==
  /\ Moves(t, "changing", "done")
  /\ amount' = loaded[t] + program.change[t]
  /\ loaded' = [loaded EXCEPT ![t] = 0]
  /\ UNCHANGED mutex

(* What was loaded is of no use after the store and is forgotten.          *)
Unlock(t) ==
  /\ Moves(t, "changing", "done")
  /\ amount' = loaded[t] + program.change[t]
  /\ loaded' = [loaded EXCEPT ![t] = 0]
  /\ mutex' = Nobody

thread(t) == Lock(t) \/ Unlock(t)

Next == main \/ \E t \in Threads : thread(t)

SafeSpec == Init /\ [][Next]_vars

(* The scheduler runs what can run; a thread asks for the mutex once.      *)
Spec ==
  /\ SafeSpec
  /\ WF_vars(main)
  /\ WF_vars(\E t \in Threads : thread(t))

-----------------------------------------------------------------------------
TypeOK ==
  /\ program \in Programs
  /\ amount \in Int
  /\ mutex \in Threads \cup {Nobody}
  /\ loaded \in [Threads -> Int]
  /\ thread_pc \in [Threads -> {"not created", "missing", "locking",
                               "changing", "done"}]
  /\ main_pc \in {"creating", "joining", "printed", "printed without", "dead"}

Done == {t \in Threads : thread_pc[t] = "done"}

Atomic == INSTANCE AtomicSum WITH
  change    <- program.change,
  total     <- amount,
  applied   <- Done,
  announced <- main_pc = "printed"

(* No update is lost and none is made twice, whatever the interleaving,    *)
(* and what main prints is the sum of all, unless a thread is missing      *)
(* (part1.c lines 75 to 99 and 104 to 152, PLthreads.c lines 38 to 43 and  *)
(* 51 to 87).                                                              *)
ImplementsAtomicSum == Atomic!Spec

(* No thread is left waiting for the mutex, and main joins them all and    *)
(* prints, unless the system refused it a thread (part1.c lines 33 to 99,  *)
(* PLthreads.c lines 35 to 43).                                            *)
SumEnds ==
  <>(\/ main_pc = "printed"
     \/ main_pc \in {"dead", "printed without"} /\ Done # Threads)
=============================================================================
