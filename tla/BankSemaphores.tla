--------------------------- MODULE BankSemaphores ---------------------------
(***************************************************************************)
(* The bank account of Lab_3/solution/part2.c: deposit and withdrawal      *)
(* threads of one transaction each, a mutex around the balance, and two    *)
(* semaphores that count the deposits and the withdrawals the balance      *)
(* still allows.                                                           *)
(*                                                                         *)
(* amount += x is a load and a store: what a thread does under the mutex   *)
(* is the two actions Lock, which ends with the load, and Unlock, which    *)
(* begins with the store.                                                  *)
(***************************************************************************)
EXTENDS Integers, FiniteSets

CONSTANTS
  LIMIT,                 \* the largest balance (400)
  num_deposit_threads,   \* 7
  num_withdraw_threads,  \* 3
  Amounts                \* what atoi may make of the argument

ASSUME BankAssumption ==
  /\ LIMIT \in Nat \ {0}
  /\ num_deposit_threads \in Nat \ {0}
  /\ num_withdraw_threads \in Nat
  /\ Amounts \subseteq Int

VARIABLES
  transaction_amount,                    \* the argument of this run
  deposits_allowed, withdrawals_allowed, \* the values of the semaphores
  amount,                                \* the balance
  mutex,                                 \* the thread that holds it, or Nobody
  loaded,                                \* what each thread has read of the balance
  thread_pc,                             \* where each thread is
  main_pc                                \* where main is

semaphores == <<deposits_allowed, withdrawals_allowed>>
account    == <<amount, mutex, loaded>>
vars       == <<transaction_amount, semaphores, account, thread_pc, main_pc>>

NUM_THREADS == num_deposit_threads + num_withdraw_threads
Threads     == 0 .. NUM_THREADS - 1
Depositors  == 0 .. num_deposit_threads - 1
Nobody      == -1

At(ls) == {t \in Threads : thread_pc[t] \in ls}

(* C's division by a positive number; by a negative one the quotient is    *)
(* negative or zero, and sem_init refuses the former and leaves the        *)
(* semaphore, which is static, at zero.                                    *)
InitialValue(n, d) == IF d > 0 THEN n \div d ELSE 0

(* main has read its argument and is about to divide by it.                *)
Init ==
  /\ transaction_amount \in Amounts
  /\ deposits_allowed = 0
  /\ withdrawals_allowed = 0
  /\ amount = 0
  /\ mutex = Nobody
  /\ loaded = [t \in Threads |-> 0]
  /\ thread_pc = [t \in Threads |-> "not created"]
  /\ main_pc = "initialising"

-----------------------------------------------------------------------------
(* The thread main.                                                        *)
InitSemaphores ==
  /\ main_pc = "initialising"
  /\ transaction_amount # 0
  /\ deposits_allowed' = InitialValue(LIMIT - amount, transaction_amount)
  /\ withdrawals_allowed' = InitialValue(amount, transaction_amount)
  /\ main_pc' = "creating"
  /\ UNCHANGED <<transaction_amount, account, thread_pc>>

(* The process is killed: the division traps.                              *)
DivideByZero ==
  /\ main_pc = "initialising"
  /\ transaction_amount = 0
  /\ main_pc' = "dead"
  /\ UNCHANGED <<transaction_amount, semaphores, account, thread_pc>>

(* Threads are created in the order of their numbers, deposits first.      *)
IsNext(t) ==
  /\ thread_pc[t] = "not created"
  /\ \A u \in Threads : u < t => thread_pc[u] # "not created"

CreateThread ==
  /\ main_pc = "creating"
  /\ \E t \in Threads :
       /\ IsNext(t)
       /\ thread_pc' = [thread_pc EXCEPT ![t] = "waiting"]
       /\ main_pc' = IF t = NUM_THREADS - 1 THEN "joining" ELSE "creating"
  /\ UNCHANGED <<transaction_amount, semaphores, account>>

(* pthread_create may fail; main then exits and every thread with it.      *)
CreateFails ==
  /\ main_pc = "creating"
  /\ main_pc' = "dead"
  /\ UNCHANGED <<transaction_amount, semaphores, account, thread_pc>>

(* All threads joined: the final amount is printed.                        *)
PrintFinalAmount ==
  /\ main_pc = "joining"
  /\ At({"done"}) = Threads
  /\ main_pc' = "printed"
  /\ UNCHANGED <<transaction_amount, semaphores, account, thread_pc>>

main == InitSemaphores \/ DivideByZero \/ CreateThread \/ CreateFails \/ PrintFinalAmount

-----------------------------------------------------------------------------
(* The threads: deposit and withdraw are the same but for the sign and the *)
(* two semaphores.                                                         *)
Moves(t, from, to) ==
  /\ main_pc # "dead"
  /\ thread_pc[t] = from
  /\ thread_pc' = [thread_pc EXCEPT ![t] = to]
  /\ UNCHANGED <<transaction_amount, main_pc>>

Sign(t) == IF t \in Depositors THEN 1 ELSE -1

(* Mutant: the permit is not taken.                                        *)
WaitDepositWithoutTaking(t) ==
  /\ t \in Depositors
  /\ Moves(t, "waiting", "locking")
  /\ deposits_allowed > 0
  /\ UNCHANGED <<semaphores, account>>

WaitDeposit(t) ==
  /\ t \in Depositors
  /\ Moves(t, "waiting", "locking")
  /\ deposits_allowed > 0
  /\ deposits_allowed' = deposits_allowed - 1
  /\ UNCHANGED <<withdrawals_allowed, account>>

WaitWithdrawal(t) ==
  /\ t \notin Depositors
  /\ Moves(t, "waiting", "locking")
  /\ withdrawals_allowed > 0
  /\ withdrawals_allowed' = withdrawals_allowed - 1
  /\ UNCHANGED <<deposits_allowed, account>>

(* Mutant: the mutex is not waited for.                                    *)
LockAnyway(t) ==
  /\ Moves(t, "locking", "changing")
  /\ mutex' = t
  /\ loaded' = [loaded EXCEPT ![t] = amount]
  /\ UNCHANGED <<semaphores, amount>>

Lock(t) ==
  /\ Moves(t, "locking", "changing")
  /\ mutex = Nobody
  /\ mutex' = t
  /\ loaded' = [loaded EXCEPT ![t] = amount]
  /\ UNCHANGED <<semaphores, amount>>

(* What was loaded is of no use after the store and is forgotten.          *)
Unlock(t) ==
  /\ Moves(t, "changing", "posting")
  /\ amount' = loaded[t] + Sign(t) * transaction_amount
  /\ loaded' = [loaded EXCEPT ![t] = 0]
  /\ mutex' = Nobody
  /\ UNCHANGED semaphores

(* Mutant: the deposit posts the semaphore it waited for.                  *)
PostOwnSemaphore(t) ==
  /\ t \in Depositors
  /\ Moves(t, "posting", "done")
  /\ deposits_allowed' = deposits_allowed + 1
  /\ UNCHANGED <<withdrawals_allowed, account>>

PostWithdrawal(t) ==
  /\ t \in Depositors
  /\ Moves(t, "posting", "done")
  /\ withdrawals_allowed' = withdrawals_allowed + 1
  /\ UNCHANGED <<deposits_allowed, account>>

(* Mutant: the withdrawal posts nothing.                                   *)
PostNothing(t) ==
  /\ t \notin Depositors
  /\ Moves(t, "posting", "done")
  /\ UNCHANGED <<semaphores, account>>

PostDeposit(t) ==
  /\ t \notin Depositors
  /\ Moves(t, "posting", "done")
  /\ deposits_allowed' = deposits_allowed + 1
  /\ UNCHANGED <<withdrawals_allowed, account>>

deposit(t)  == WaitDeposit(t) \/ Lock(t) \/ Unlock(t) \/ PostWithdrawal(t)
withdraw(t) == WaitWithdrawal(t) \/ Lock(t) \/ Unlock(t) \/ PostDeposit(t)

thread(t) == IF t \in Depositors THEN deposit(t) ELSE withdraw(t)

Next == main \/ \E t \in Threads : thread(t)

SafeSpec == Init /\ [][Next]_vars

(* The scheduler runs main and every thread that can run.  No thread asks  *)
(* twice for the mutex or a semaphore, so it need not be fairer than that. *)
Spec ==
  /\ SafeSpec
  /\ WF_vars(main)
  /\ \A t \in Threads : WF_vars(thread(t))

-----------------------------------------------------------------------------
Capacity == InitialValue(LIMIT, transaction_amount)

TypeOK ==
  /\ transaction_amount \in Amounts
  /\ deposits_allowed \in 0 .. Capacity
  /\ withdrawals_allowed \in 0 .. Capacity
  /\ amount \in Int
  /\ mutex \in Threads \cup {Nobody}
  /\ loaded \in [Threads -> Int]
  /\ thread_pc \in [Threads -> {"not created", "waiting", "locking", "changing",
                                "posting", "done"}]
  /\ main_pc \in {"initialising", "creating", "joining", "printed", "dead"}

(* Whatever the interleaving and the argument, no overdraft and no balance *)
(* over the limit, at any moment.                                          *)
BalanceInBounds == amount \in 0 .. LIMIT

(* Every unit of capacity is in one place: free for a deposit, free for a  *)
(* withdrawal, or with a thread between its wait and its post.             *)
CapacityConserved ==
  main_pc \in {"creating", "joining", "printed"} =>
    deposits_allowed + withdrawals_allowed + Cardinality(At({"locking", "changing", "posting"}))
      = Capacity

Atomic == INSTANCE AtomicSum WITH
  change    <- [t \in Threads |-> Sign(t) * transaction_amount],
  total     <- amount,
  applied   <- At({"posting", "done"}),
  announced <- main_pc = "printed"

(* No update is lost and none is made twice, whatever the interleaving of  *)
(* loads and stores, and the final amount is that of all transactions      *)
(* (part2.c lines 59 to 76, 91 to 96 and 118 to 123).                      *)
ImplementsAtomicSum == Atomic!Spec

(* Whether the capacity leaves room for the deposits that no withdrawal    *)
(* can follow.                                                             *)
RoomForAll ==
  /\ num_withdraw_threads <= num_deposit_threads
  /\ Capacity > 0
  /\ num_deposit_threads <= Capacity + num_withdraw_threads

(* With room for all every thread gets its turn and the program ends,      *)
(* unless the system refuses it a thread; without, it never gets beyond    *)
(* the joins: the last depositors wait for withdrawals that do not come    *)
(* (part2.c lines 33, 59 to 67 and 85).                                    *)
EndsExactlyWhenThereIsRoom ==
  /\ RoomForAll ~> main_pc \in {"printed", "dead"}
  /\ [](main_pc = "printed" => RoomForAll)
=============================================================================
