--------------------------- MODULE AtomicSumProofs ---------------------------
(***************************************************************************)
(* The three programs that change a shared number under a mutex: whatever  *)
(* the interleaving of loads and stores, no update is lost.                *)
(*                                                                         *)
(* For every limit, every number of deposit and withdrawal threads and     *)
(* every argument, the balance of part2.c also stays between 0 and the     *)
(* limit, no unit of capacity is lost, and the amount is printed only if   *)
(* the capacity has room for all transactions.  None of this follows from  *)
(* the semaphores alone: what they allow is related to the balance by the  *)
(* transactions on the way, so the invariant counts the threads at each    *)
(* place.                                                                  *)
(*                                                                         *)
(* part1.c and PLthreads.c, which have the mutex only, come last: they are *)
(* an instance of LockedSum, whose number, mutex and program counters have *)
(* the names of those of the bank.                                         *)
(***************************************************************************)
EXTENDS BankSemaphores, TLAPS, FiniteSetTheorems

CONSTANT Programs  \* of LockedSum
VARIABLE program   \* of LockedSum

Locked == INSTANCE LockedSum

Withdrawers == Threads \ Depositors

(* How many depositors, and how many withdrawers, are at a place.          *)
Of(K, l) == {t \in K : thread_pc[t] = l}
D(l) == Cardinality(Of(Depositors, l))
W(l) == Cardinality(Of(Withdrawers, l))

Places == {"not created", "waiting", "locking", "changing", "posting", "done"}

(* The type of what is assigned; the values of the semaphores are bounded  *)
(* by the accounting only.                                                 *)
FieldsOK ==
  /\ transaction_amount \in Amounts
  /\ deposits_allowed \in Nat
  /\ withdrawals_allowed \in Nat
  /\ amount \in Int
  /\ mutex \in Threads \cup {Nobody}
  /\ loaded \in [Threads -> Int]
  /\ thread_pc \in [Threads -> Places]
  /\ main_pc \in {"initialising", "creating", "joining", "printed", "dead"}

(* A thread in its critical section has the mutex, and what it has read of *)
(* the balance is still the balance.                                       *)
LoadedIsCurrent ==
  \A t \in Threads : thread_pc[t] = "changing" => mutex = t /\ loaded[t] = amount

(* Before the semaphores are initialised nothing has happened.             *)
NothingBefore ==
  main_pc = "initialising" =>
    /\ deposits_allowed = 0 /\ withdrawals_allowed = 0 /\ amount = 0
    /\ \A t \in Threads : thread_pc[t] = "not created"

(* A deposit posted allows a withdrawal, which takes the permit.           *)
WithdrawalsAddUp ==
  withdrawals_allowed + W("locking") + W("changing") + W("posting") + W("done") = D("done")

(* The other way round, and there is the capacity to begin with.           *)
DepositsAddUp ==
  main_pc # "initialising" =>
    deposits_allowed + D("locking") + D("changing") + D("posting") + D("done")
      = Capacity + W("done")

(* The transactions the balance shows: those past the store.               *)
Units == D("posting") + D("done") - W("posting") - W("done")

AmountAddsUp == amount = Units * transaction_amount

(* Without capacity no thread gets past its semaphore.                     *)
NothingWithoutCapacity ==
  Capacity = 0 => \A t \in Threads : thread_pc[t] \in {"not created", "waiting"}

(* The amount is printed when all threads have been joined.                *)
PrintedAfterAll ==
  main_pc = "printed" => \A t \in Threads : thread_pc[t] = "done"

IndInv ==
  /\ FieldsOK
  /\ LoadedIsCurrent
  /\ NothingBefore
  /\ WithdrawalsAddUp
  /\ DepositsAddUp
  /\ AmountAddsUp
  /\ NothingWithoutCapacity
  /\ PrintedAfterAll

-----------------------------------------------------------------------------
(* What the assumptions say of the numbers of threads.                     *)
LEMMA ThreadsAreFinite ==
  /\ Nobody \notin Threads
  /\ Depositors \subseteq Threads /\ Withdrawers \subseteq Threads
  /\ IsFiniteSet(Threads)
  /\ IsFiniteSet(Depositors) /\ Cardinality(Depositors) = num_deposit_threads
  /\ IsFiniteSet(Withdrawers) /\ Cardinality(Withdrawers) = num_withdraw_threads
<1>0. num_deposit_threads \in Nat \ {0} /\ num_withdraw_threads \in Nat
  BY BankAssumption
<1>1. Nobody \notin Threads /\ Depositors \subseteq Threads
  BY <1>0 DEF Nobody, Threads, Depositors, NUM_THREADS
<1>2. IsFiniteSet(Depositors) /\ Cardinality(Depositors) = num_deposit_threads
  <2>1. /\ IsFiniteSet(0 .. num_deposit_threads - 1)
        /\ Cardinality(0 .. num_deposit_threads - 1)
             = IF 0 <= num_deposit_threads - 1 THEN (num_deposit_threads - 1) - 0 + 1 ELSE 0
    BY <1>0, FS_Interval
  <2>2. Cardinality(0 .. num_deposit_threads - 1) = num_deposit_threads
    BY <1>0, <2>1
  <2> QED
    BY <2>1, <2>2 DEF Depositors
<1>3. IsFiniteSet(Withdrawers) /\ Cardinality(Withdrawers) = num_withdraw_threads
  <2> DEFINE m == num_deposit_threads
             n == num_deposit_threads + num_withdraw_threads - 1
  <2>1. Withdrawers = m .. n
    BY <1>0 DEF Withdrawers, Threads, Depositors, NUM_THREADS
  <2>2. m \in Int /\ n \in Int
    BY <1>0
  <2>3. /\ IsFiniteSet(m .. n)
        /\ Cardinality(m .. n) = IF m <= n THEN n - m + 1 ELSE 0
    BY <2>2, FS_Interval
  <2>4. Cardinality(m .. n) = num_withdraw_threads
    BY <1>0, <2>3
  <2> QED
    BY <2>1, <2>3, <2>4
<1>4. IsFiniteSet(Threads) /\ Withdrawers \subseteq Threads
  BY <1>0, FS_Interval DEF Threads, NUM_THREADS, Withdrawers
<1> QED
  BY <1>1, <1>2, <1>3, <1>4

(* The counts are natural numbers, none larger than its kind of thread.    *)
LEMMA CountsAreNumbers ==
  ASSUME NEW l
  PROVE  /\ IsFiniteSet(Of(Depositors, l)) /\ IsFiniteSet(Of(Withdrawers, l))
         /\ D(l) \in Nat /\ D(l) <= num_deposit_threads
         /\ W(l) \in Nat /\ W(l) <= num_withdraw_threads
<1>1. Of(Depositors, l) \subseteq Depositors /\ Of(Withdrawers, l) \subseteq Withdrawers
  BY DEF Of
<1> QED
  BY <1>1, ThreadsAreFinite, FS_Subset, FS_CardinalityType DEF D, W

(* A thread goes to another place and the others stay.                     *)
Goes(t, to) ==
  /\ thread_pc[t] # to
  /\ thread_pc' = [thread_pc EXCEPT ![t] = to]

(* A thread that moves leaves one count and enters another; the threads of *)
(* a kind it is not of keep theirs.                                        *)
LEMMA KindMoves ==
  ASSUME FieldsOK, NEW t \in Threads, NEW to, Goes(t, to), NEW K \in SUBSET Threads, NEW l
  PROVE  /\ t \in K /\ to = l => Cardinality(Of(K, l))' = Cardinality(Of(K, l)) + 1
         /\ t \in K /\ thread_pc[t] = l => Cardinality(Of(K, l))' = Cardinality(Of(K, l)) - 1
         /\ t \notin K \/ (to # l /\ thread_pc[t] # l) =>
              Cardinality(Of(K, l))' = Cardinality(Of(K, l))
<1>0. IsFiniteSet(Of(K, l)) /\ Cardinality(Of(K, l)) \in Nat
  <2>1. Of(K, l) \subseteq Threads
    BY DEF Of
  <2> QED
    BY <2>1, ThreadsAreFinite, FS_Subset, FS_CardinalityType
<1>1. CASE t \in K /\ to = l
  <2>1. Of(K, l)' = Of(K, l) \cup {t} /\ t \notin Of(K, l) /\ thread_pc[t] # l
    BY <1>1 DEF Of, FieldsOK, Goes
  <2>2. Cardinality(Of(K, l) \cup {t}) = Cardinality(Of(K, l)) + 1
    BY <1>0, <2>1, FS_AddElement
  <2> QED
    BY <1>0, <1>1, <2>1, <2>2
<1>2. CASE t \in K /\ thread_pc[t] = l
  <2>1. Of(K, l)' = Of(K, l) \ {t} /\ t \in Of(K, l) /\ to # l
    BY <1>2 DEF Of, FieldsOK, Goes
  <2>2. Cardinality(Of(K, l) \ {t}) = Cardinality(Of(K, l)) - 1
    BY <1>0, <2>1, FS_RemoveElement
  <2> QED
    BY <1>0, <1>2, <2>1, <2>2
<1>3. CASE t \notin K \/ (to # l /\ thread_pc[t] # l)
  <2>1. Of(K, l)' = Of(K, l)
    BY <1>3 DEF Of, FieldsOK, Goes
  <2> QED
    BY <1>0, <1>3, <2>1
<1>4. to = l => thread_pc[t] # l
  BY DEF Goes
<1> QED
  BY <1>1, <1>2, <1>3, <1>4

(* The counts after a step of a depositor.                                 *)
LEMMA DepositorMoves ==
  ASSUME FieldsOK, NEW t \in Depositors, NEW to, Goes(t, to), NEW l
  PROVE  /\ D(l) \in Nat /\ W(l) \in Nat
         /\ W(l)' = W(l)
         /\ D(l)' = D(l) + (IF to = l THEN 1 ELSE 0) - (IF thread_pc[t] = l THEN 1 ELSE 0)
<1>1. /\ t \in Threads /\ t \notin Withdrawers
      /\ Depositors \in SUBSET Threads /\ Withdrawers \in SUBSET Threads
  BY ThreadsAreFinite DEF Withdrawers
<1>2. /\ to = l => Cardinality(Of(Depositors, l))' = Cardinality(Of(Depositors, l)) + 1
      /\ thread_pc[t] = l => Cardinality(Of(Depositors, l))' = Cardinality(Of(Depositors, l)) - 1
      /\ to # l /\ thread_pc[t] # l =>
           Cardinality(Of(Depositors, l))' = Cardinality(Of(Depositors, l))
      /\ Cardinality(Of(Withdrawers, l))' = Cardinality(Of(Withdrawers, l))
  BY <1>1, KindMoves
<1> QED
  BY <1>2, CountsAreNumbers DEF D, W, Goes

(* The counts after a step of a withdrawer.                                *)
LEMMA WithdrawerMoves ==
  ASSUME FieldsOK, NEW t \in Withdrawers, NEW to, Goes(t, to), NEW l
  PROVE  /\ D(l) \in Nat /\ W(l) \in Nat
         /\ D(l)' = D(l)
         /\ W(l)' = W(l) + (IF to = l THEN 1 ELSE 0) - (IF thread_pc[t] = l THEN 1 ELSE 0)
<1>1. /\ t \in Threads /\ t \notin Depositors
      /\ Depositors \in SUBSET Threads /\ Withdrawers \in SUBSET Threads
  BY ThreadsAreFinite DEF Withdrawers
<1>2. /\ to = l => Cardinality(Of(Withdrawers, l))' = Cardinality(Of(Withdrawers, l)) + 1
      /\ thread_pc[t] = l => Cardinality(Of(Withdrawers, l))' = Cardinality(Of(Withdrawers, l)) - 1
      /\ to # l /\ thread_pc[t] # l =>
           Cardinality(Of(Withdrawers, l))' = Cardinality(Of(Withdrawers, l))
      /\ Cardinality(Of(Depositors, l))' = Cardinality(Of(Depositors, l))
  BY <1>1, KindMoves
<1> QED
  BY <1>2, CountsAreNumbers DEF D, W, Goes

(* The counts of a place where nobody is, and of one where everybody is.   *)
LEMMA CountsOfAll ==
  ASSUME NEW l
  PROVE  /\ (\A t \in Threads : thread_pc[t] # l) => D(l) = 0 /\ W(l) = 0
         /\ (\A t \in Threads : thread_pc[t] = l) =>
              D(l) = num_deposit_threads /\ W(l) = num_withdraw_threads
<1>1. ASSUME \A t \in Threads : thread_pc[t] # l
      PROVE  D(l) = 0 /\ W(l) = 0
  <2>1. Of(Depositors, l) = {} /\ Of(Withdrawers, l) = {}
    BY <1>1, ThreadsAreFinite DEF Of
  <2> QED
    BY <2>1, FS_EmptySet DEF D, W
<1>2. ASSUME \A t \in Threads : thread_pc[t] = l
      PROVE  D(l) = num_deposit_threads /\ W(l) = num_withdraw_threads
  <2>1. Of(Depositors, l) = Depositors /\ Of(Withdrawers, l) = Withdrawers
    BY <1>2, ThreadsAreFinite DEF Of
  <2> QED
    BY <2>1, ThreadsAreFinite DEF D, W
<1> QED
  BY <1>1, <1>2

(* The capacity: a number of transactions that the limit has room for, and *)
(* none when the argument is not positive (part2.c lines 33 and 34).       *)
LEMMA CapacityFits ==
  ASSUME transaction_amount \in Amounts
  PROVE  /\ transaction_amount \in Int
         /\ Capacity \in Nat
         /\ \A k \in 0 .. Capacity : k * transaction_amount \in 0 .. LIMIT
<1>0. transaction_amount \in Int /\ LIMIT \in Nat
  BY BankAssumption
<1>1. CASE transaction_amount > 0
  <2>1. Capacity = LIMIT \div transaction_amount
    BY <1>1 DEF Capacity, InitialValue
  <2>2. /\ LIMIT \div transaction_amount \in Nat
        /\ (LIMIT \div transaction_amount) * transaction_amount <= LIMIT
    BY <1>0, <1>1
  <2>3. ASSUME NEW k \in 0 .. LIMIT \div transaction_amount
        PROVE  k * transaction_amount \in 0 .. LIMIT
    <3>1. \A x, q, j \in Nat : j <= q => j * x \in Nat /\ j * x <= q * x
      BY Z3
    <3>2. k * transaction_amount \in Nat
          /\ k * transaction_amount <= (LIMIT \div transaction_amount) * transaction_amount
      BY <1>0, <1>1, <2>2, <3>1
    <3> QED
      BY <1>0, <1>1, <2>2, <3>2
  <2> QED
    BY <1>0, <2>1, <2>2, <2>3
<1>2. CASE ~(transaction_amount > 0)
  <2>1. Capacity = 0
    BY <1>2 DEF Capacity, InitialValue
  <2>2. \A k \in 0 .. 0 : k * transaction_amount \in 0 .. LIMIT
    BY <1>0
  <2> QED
    BY <1>0, <2>1, <2>2
<1> QED
  BY <1>1, <1>2

-----------------------------------------------------------------------------
(* The initial states (part2.c lines 10 to 26).                            *)
LEMMA InitIsInductive == Init => IndInv
<1> SUFFICES ASSUME Init PROVE IndInv
  OBVIOUS
<1>1. FieldsOK
  <2>1. deposits_allowed = 0 /\ withdrawals_allowed = 0 /\ amount = 0
    BY DEF Init
  <2>2. deposits_allowed \in Nat /\ withdrawals_allowed \in Nat /\ amount \in Int
    BY <2>1
  <2>3. loaded = [t \in Threads |-> 0]
    BY DEF Init
  <2>4. loaded \in [Threads -> Int]
    BY <2>3
  <2>5. thread_pc \in [Threads -> Places]
    BY DEF Init, Places
  <2> QED
    BY <2>2, <2>4, <2>5 DEF Init, FieldsOK
<1>2. \A t \in Threads : thread_pc[t] = "not created"
  BY DEF Init
<1>3. \A l \in Places \ {"not created"} : D(l) = 0 /\ W(l) = 0
  BY <1>2, CountsOfAll
<1>4. /\ D("posting") = 0 /\ D("done") = 0
      /\ W("locking") = 0 /\ W("changing") = 0 /\ W("posting") = 0 /\ W("done") = 0
  BY <1>3 DEF Places
<1>5. WithdrawalsAddUp
  <2>1. withdrawals_allowed = 0
    BY DEF Init
  <2> QED
    BY <1>4, <2>1 DEF WithdrawalsAddUp
<1>6. AmountAddsUp
  <2>1. amount = 0
    BY DEF Init
  <2>2. Units = 0
    BY <1>4 DEF Units
  <2>3. transaction_amount \in Int
    BY BankAssumption DEF Init
  <2>4. 0 * transaction_amount = 0
    BY <2>3
  <2> QED
    BY <2>1, <2>2, <2>4 DEF AmountAddsUp
<1>7. LoadedIsCurrent /\ NothingBefore /\ DepositsAddUp /\ PrintedAfterAll
  BY <1>2 DEF Init, LoadedIsCurrent, NothingBefore, DepositsAddUp, PrintedAfterAll
<1>8. NothingWithoutCapacity
  BY <1>2 DEF NothingWithoutCapacity
<1> QED
  BY <1>1, <1>5, <1>6, <1>7, <1>8 DEF IndInv

(* The division of the limit gives the capacity, that of the balance 0,    *)
(* and a division by zero comes before anything has happened (part2.c      *)
(* lines 33 and 34).                                                       *)
LEMMA DivisionKeepsIndInv ==
  ASSUME IndInv, InitSemaphores \/ DivideByZero
  PROVE  IndInv'
<1>0. /\ main_pc = "initialising" /\ main_pc' \in {"creating", "dead"}
      /\ UNCHANGED <<transaction_amount, account, thread_pc>>
      /\ FieldsOK /\ deposits_allowed = 0 /\ withdrawals_allowed = 0 /\ amount = 0
      /\ \A t \in Threads : thread_pc[t] = "not created"
  BY DEF IndInv, NothingBefore, InitSemaphores, DivideByZero
<1> USE DEF account
<1>1. Capacity' = Capacity /\ Capacity \in Nat
  BY <1>0, CapacityFits DEF Capacity, FieldsOK
<1>2. deposits_allowed' = Capacity /\ withdrawals_allowed' = 0
  <2>1. transaction_amount \in Int /\ LIMIT \in Nat
    BY <1>0, BankAssumption DEF FieldsOK
  <2>2. CASE InitSemaphores
    <3>0. amount = 0
      BY <1>0
    <3>1. LIMIT - 0 = LIMIT
      BY <2>1
    <3>2. InitialValue(0, transaction_amount) = 0
      BY <2>1 DEF InitialValue
    <3>3. /\ deposits_allowed' = InitialValue(LIMIT - 0, transaction_amount)
          /\ withdrawals_allowed' = InitialValue(0, transaction_amount)
      BY <2>2, <3>0 DEF InitSemaphores
    <3> QED
      BY <3>1, <3>2, <3>3 DEF Capacity
  <2>3. CASE DivideByZero
    <3>1. transaction_amount = 0
      BY <2>3 DEF DivideByZero
    <3>2. ~(transaction_amount > 0)
      BY <3>1
    <3>3. Capacity = 0
      BY <3>2 DEF Capacity, InitialValue
    <3>4. deposits_allowed' = deposits_allowed /\ withdrawals_allowed' = withdrawals_allowed
      BY <2>3 DEF DivideByZero, semaphores
    <3> QED
      BY <1>0, <3>3, <3>4
  <2> QED
    BY <2>2, <2>3
<1>3. \A l : D(l)' = D(l) /\ W(l)' = W(l)
  BY <1>0 DEF D, W, Of
<1>4. \A l \in Places \ {"not created"} : D(l) = 0 /\ W(l) = 0
  BY <1>0, CountsOfAll
<1>5. /\ D("locking") = 0 /\ D("changing") = 0 /\ D("posting") = 0 /\ D("done") = 0
      /\ W("done") = 0
  BY <1>4 DEF Places
<1>6. FieldsOK'
  BY <1>0, <1>1, <1>2 DEF FieldsOK
<1>7. DepositsAddUp'
  BY <1>1, <1>2, <1>3, <1>5 DEF DepositsAddUp
<1>8. WithdrawalsAddUp'
  BY <1>0, <1>2, <1>3 DEF IndInv, WithdrawalsAddUp
<1>9. AmountAddsUp'
  BY <1>0, <1>3 DEF IndInv, AmountAddsUp, Units
<1>10. LoadedIsCurrent' /\ NothingBefore' /\ NothingWithoutCapacity' /\ PrintedAfterAll'
  BY <1>0 DEF LoadedIsCurrent, NothingBefore, NothingWithoutCapacity, PrintedAfterAll
<1> QED
  BY <1>6, <1>7, <1>8, <1>9, <1>10 DEF IndInv

(* A new thread is at none of the places that count (part2.c lines 39 to   *)
(* 55).                                                                    *)
LEMMA CreateKeepsIndInv ==
  ASSUME IndInv, CreateThread
  PROVE  IndInv'
<1>0. PICK t \in Threads : /\ thread_pc[t] = "not created"
                          /\ thread_pc' = [thread_pc EXCEPT ![t] = "waiting"]
  BY DEF CreateThread, IsNext
<1>1. /\ main_pc = "creating" /\ main_pc' \in {"creating", "joining"}
      /\ UNCHANGED <<transaction_amount, semaphores, account>>
      /\ FieldsOK
  BY DEF IndInv, CreateThread
<1> USE DEF account, semaphores
<1>2. Goes(t, "waiting")
  BY <1>0 DEF Goes
<1>3. \A l \in {"locking", "changing", "posting", "done"} : D(l)' = D(l) /\ W(l)' = W(l)
  <2> SUFFICES ASSUME NEW l \in {"locking", "changing", "posting", "done"}
               PROVE  D(l)' = D(l) /\ W(l)' = W(l)
    OBVIOUS
  <2>1. Depositors \in SUBSET Threads /\ Withdrawers \in SUBSET Threads
    BY ThreadsAreFinite
  <2>2. "waiting" # l /\ thread_pc[t] # l
    BY <1>0
  <2> QED
    BY <1>1, <1>2, <2>1, <2>2, KindMoves DEF D, W
<1>4. FieldsOK'
  BY <1>0, <1>1 DEF FieldsOK, Places
<1>5. WithdrawalsAddUp' /\ AmountAddsUp' /\ DepositsAddUp'
  BY <1>1, <1>3 DEF IndInv, WithdrawalsAddUp, AmountAddsUp, Units, DepositsAddUp, Capacity
<1>6. LoadedIsCurrent'
  BY <1>0, <1>1 DEF IndInv, FieldsOK, LoadedIsCurrent
<1>7. NothingWithoutCapacity'
  BY <1>0, <1>1 DEF IndInv, FieldsOK, NothingWithoutCapacity, Capacity
<1>8. NothingBefore' /\ PrintedAfterAll'
  BY <1>1 DEF NothingBefore, PrintedAfterAll
<1> QED
  BY <1>4, <1>5, <1>6, <1>7, <1>8 DEF IndInv

(* The other steps of main change only where it is (part2.c lines 39 to    *)
(* 76).                                                                    *)
LEMMA MainKeepsIndInv ==
  ASSUME IndInv, CreateFails \/ PrintFinalAmount
  PROVE  IndInv'
<1>0. /\ main_pc \in {"creating", "joining"} /\ main_pc' \in {"dead", "printed"}
      /\ main_pc' = "printed" => \A t \in Threads : thread_pc[t] = "done"
      /\ UNCHANGED <<transaction_amount, semaphores, account, thread_pc>>
  BY DEF CreateFails, PrintFinalAmount, At
<1>1. \A l : D(l)' = D(l) /\ W(l)' = W(l)
  BY <1>0 DEF D, W, Of
<1>2. FieldsOK'
  BY <1>0 DEF IndInv, FieldsOK, account, semaphores
<1>3. WithdrawalsAddUp' /\ AmountAddsUp' /\ DepositsAddUp'
  BY <1>0, <1>1 DEF IndInv, WithdrawalsAddUp, AmountAddsUp, Units, DepositsAddUp, Capacity,
                    account, semaphores
<1>4. LoadedIsCurrent' /\ NothingBefore' /\ NothingWithoutCapacity' /\ PrintedAfterAll'
  BY <1>0 DEF IndInv, LoadedIsCurrent, NothingBefore, NothingWithoutCapacity, PrintedAfterAll,
              Capacity, account
<1> QED
  BY <1>2, <1>3, <1>4 DEF IndInv

-----------------------------------------------------------------------------
(* While a thread moves, main is past the division and has not printed;    *)
(* what the step leaves alone stays right.                                 *)
LEMMA ThreadMoves ==
  ASSUME IndInv, NEW t \in Threads,
         NEW from \in {"waiting", "locking", "changing", "posting"},
         NEW to \in {"locking", "changing", "posting", "done"}, from # to, Moves(t, from, to),
         from = "waiting" => Capacity # 0
  PROVE  /\ Goes(t, to) /\ thread_pc[t] = from
         /\ thread_pc' \in [Threads -> Places]
         /\ \A u \in Threads : u # t => thread_pc'[u] = thread_pc[u]
         /\ thread_pc'[t] = to
         /\ transaction_amount' = transaction_amount /\ Capacity' = Capacity
         /\ main_pc' = main_pc /\ main_pc # "initialising"
         /\ NothingBefore' /\ NothingWithoutCapacity' /\ PrintedAfterAll'
<1>0. /\ thread_pc[t] = from /\ thread_pc' = [thread_pc EXCEPT ![t] = to]
      /\ thread_pc \in [Threads -> Places]
      /\ transaction_amount' = transaction_amount /\ main_pc' = main_pc
  BY DEF Moves, IndInv, FieldsOK
<1>1. Goes(t, to)
  BY <1>0 DEF Goes
<1>2. /\ thread_pc' \in [Threads -> Places] /\ thread_pc'[t] = to
      /\ \A u \in Threads : u # t => thread_pc'[u] = thread_pc[u]
  BY <1>0 DEF Places
<1>3. main_pc # "initialising"
  BY <1>0 DEF IndInv, NothingBefore
<1>4. main_pc # "printed"
  BY <1>0 DEF IndInv, PrintedAfterAll
<1>5. Capacity' = Capacity
  BY <1>0 DEF Capacity
<1>6. Capacity # 0
  BY <1>0 DEF IndInv, NothingWithoutCapacity
<1> QED
  BY <1>0, <1>1, <1>2, <1>3, <1>4, <1>5, <1>6
     DEF NothingBefore, NothingWithoutCapacity, PrintedAfterAll

(* A deposit takes a unit of capacity (part2.c line 85).                   *)
LEMMA WaitDepositKeepsIndInv ==
  ASSUME IndInv, NEW t \in Threads, WaitDeposit(t)
  PROVE  IndInv'
<1>0. /\ t \in Depositors /\ Moves(t, "waiting", "locking")
      /\ deposits_allowed > 0 /\ deposits_allowed' = deposits_allowed - 1
      /\ UNCHANGED <<withdrawals_allowed, account>>
      /\ FieldsOK
  BY DEF IndInv, WaitDeposit
<1>1. Capacity # 0
  <2> SUFFICES ASSUME Capacity = 0 PROVE FALSE
    OBVIOUS
  <2>1. \A u \in Threads : thread_pc[u] \in {"not created", "waiting"}
    BY DEF IndInv, NothingWithoutCapacity
  <2>2. /\ D("locking") = 0 /\ D("changing") = 0 /\ D("posting") = 0 /\ D("done") = 0
        /\ W("done") = 0
    <3>1. \A l \in {"locking", "changing", "posting", "done"} : D(l) = 0 /\ W(l) = 0
      BY <2>1, CountsOfAll
    <3> QED
      BY <3>1
  <2>3. deposits_allowed = 0
    <3>1. main_pc # "initialising"
      BY <1>0 DEF IndInv, NothingBefore, Moves
    <3>2. deposits_allowed + D("locking") + D("changing") + D("posting") + D("done")
            = Capacity + W("done")
      BY <3>1 DEF IndInv, DepositsAddUp
    <3>3. deposits_allowed \in Nat
      BY <1>0 DEF FieldsOK
    <3> QED
      BY <2>2, <3>2, <3>3
  <2> QED
    BY <1>0, <2>3
<1>2. /\ Goes(t, "locking") /\ thread_pc[t] = "waiting"
      /\ thread_pc' \in [Threads -> Places]
      /\ \A u \in Threads : u # t => thread_pc'[u] = thread_pc[u]
      /\ thread_pc'[t] = "locking"
      /\ transaction_amount' = transaction_amount /\ Capacity' = Capacity
      /\ main_pc' = main_pc /\ main_pc # "initialising"
      /\ NothingBefore' /\ NothingWithoutCapacity' /\ PrintedAfterAll'
  BY <1>0, <1>1, ThreadMoves
<1>3. /\ W("locking")' = W("locking") /\ W("changing")' = W("changing")
      /\ W("posting")' = W("posting") /\ W("done")' = W("done")
      /\ D("locking")' = D("locking") + 1 /\ D("changing")' = D("changing")
      /\ D("posting")' = D("posting") /\ D("done")' = D("done")
  BY <1>0, <1>2, DepositorMoves
<1>4. /\ \A l : D(l) \in Nat /\ W(l) \in Nat
      /\ Capacity \in Nat /\ deposits_allowed \in Nat
  BY <1>0, CountsAreNumbers, CapacityFits DEF FieldsOK
<1>5. FieldsOK'
  <2>1. deposits_allowed' \in Nat
    BY <1>0, <1>4
  <2> QED
    BY <1>0, <1>2, <2>1 DEF FieldsOK, account
<1>6. LoadedIsCurrent'
  BY <1>0, <1>2 DEF IndInv, LoadedIsCurrent, account
<1>7. WithdrawalsAddUp' /\ AmountAddsUp'
  BY <1>0, <1>2, <1>3 DEF IndInv, WithdrawalsAddUp, AmountAddsUp, Units, account
<1>8. DepositsAddUp'
  <2>1. deposits_allowed + D("locking") + D("changing") + D("posting") + D("done")
          = Capacity + W("done")
    BY <1>2 DEF IndInv, DepositsAddUp
  <2>2. deposits_allowed' + D("locking")' + D("changing")' + D("posting")' + D("done")'
          = Capacity' + W("done")'
    BY <1>0, <1>2, <1>3, <1>4, <2>1
  <2> QED
    BY <2>2 DEF DepositsAddUp
<1> QED
  BY <1>2, <1>5, <1>6, <1>7, <1>8 DEF IndInv

(* A withdrawal takes a permit that a deposit has posted (part2.c line     *)
(* 112).                                                                   *)
LEMMA WaitWithdrawalKeepsIndInv ==
  ASSUME IndInv, NEW t \in Threads, WaitWithdrawal(t)
  PROVE  IndInv'
<1>0. /\ t \in Withdrawers /\ Moves(t, "waiting", "locking")
      /\ withdrawals_allowed > 0 /\ withdrawals_allowed' = withdrawals_allowed - 1
      /\ UNCHANGED <<deposits_allowed, account>>
      /\ FieldsOK
  BY DEF IndInv, WaitWithdrawal, Withdrawers
<1>1. Capacity # 0
  <2> SUFFICES ASSUME Capacity = 0 PROVE FALSE
    OBVIOUS
  <2>1. \A u \in Threads : thread_pc[u] # "done"
    BY DEF IndInv, NothingWithoutCapacity
  <2>2. D("done") = 0
    BY <2>1, CountsOfAll
  <2>3. withdrawals_allowed = 0
    <3>1. \A l : W(l) \in Nat
      BY CountsAreNumbers
    <3>2. withdrawals_allowed + W("locking") + W("changing") + W("posting") + W("done") = D("done")
      BY DEF IndInv, WithdrawalsAddUp
    <3>3. withdrawals_allowed \in Nat
      BY <1>0 DEF FieldsOK
    <3> QED
      BY <2>2, <3>1, <3>2, <3>3
  <2> QED
    BY <1>0, <2>3
<1>2. /\ Goes(t, "locking") /\ thread_pc[t] = "waiting"
      /\ thread_pc' \in [Threads -> Places]
      /\ \A u \in Threads : u # t => thread_pc'[u] = thread_pc[u]
      /\ thread_pc'[t] = "locking"
      /\ transaction_amount' = transaction_amount /\ Capacity' = Capacity
      /\ main_pc' = main_pc /\ main_pc # "initialising"
      /\ NothingBefore' /\ NothingWithoutCapacity' /\ PrintedAfterAll'
  BY <1>0, <1>1, ThreadMoves
<1>3. /\ D("locking")' = D("locking") /\ D("changing")' = D("changing")
      /\ D("posting")' = D("posting") /\ D("done")' = D("done")
      /\ W("locking")' = W("locking") + 1 /\ W("changing")' = W("changing")
      /\ W("posting")' = W("posting") /\ W("done")' = W("done")
  BY <1>0, <1>2, WithdrawerMoves
<1>4. /\ \A l : D(l) \in Nat /\ W(l) \in Nat
      /\ withdrawals_allowed \in Nat
  BY <1>0, CountsAreNumbers DEF FieldsOK
<1>5. FieldsOK'
  <2>1. withdrawals_allowed' \in Nat
    BY <1>0, <1>4
  <2> QED
    BY <1>0, <1>2, <2>1 DEF FieldsOK, account
<1>6. LoadedIsCurrent'
  BY <1>0, <1>2 DEF IndInv, LoadedIsCurrent, account
<1>7. DepositsAddUp' /\ AmountAddsUp'
  BY <1>0, <1>2, <1>3 DEF IndInv, DepositsAddUp, AmountAddsUp, Units, account
<1>8. WithdrawalsAddUp'
  <2>1. withdrawals_allowed + W("locking") + W("changing") + W("posting") + W("done") = D("done")
    BY DEF IndInv, WithdrawalsAddUp
  <2>2. withdrawals_allowed' + W("locking")' + W("changing")' + W("posting")' + W("done")'
          = D("done")'
    BY <1>0, <1>3, <1>4, <2>1
  <2> QED
    BY <2>2 DEF WithdrawalsAddUp
<1> QED
  BY <1>2, <1>5, <1>6, <1>7, <1>8 DEF IndInv

(* Locking: the mutex was free, so no other thread is in its critical      *)
(* section (part2.c lines 91 and 118).                                     *)
LEMMA LockKeepsIndInv ==
  ASSUME IndInv, NEW t \in Threads, Lock(t)
  PROVE  IndInv'
<1>0. /\ Moves(t, "locking", "changing")
      /\ mutex = Nobody /\ mutex' = t
      /\ loaded' = [loaded EXCEPT ![t] = amount]
      /\ UNCHANGED <<semaphores, amount>>
      /\ FieldsOK
  BY DEF IndInv, Lock
<1>1. /\ Goes(t, "changing") /\ thread_pc[t] = "locking"
      /\ thread_pc' \in [Threads -> Places]
      /\ \A u \in Threads : u # t => thread_pc'[u] = thread_pc[u]
      /\ thread_pc'[t] = "changing"
      /\ transaction_amount' = transaction_amount /\ Capacity' = Capacity
      /\ main_pc' = main_pc /\ main_pc # "initialising"
      /\ NothingBefore' /\ NothingWithoutCapacity' /\ PrintedAfterAll'
  BY <1>0, ThreadMoves
<1>2. /\ \A l : D(l) \in Nat /\ W(l) \in Nat
      /\ deposits_allowed \in Nat /\ withdrawals_allowed \in Nat
      /\ t \in Depositors \/ t \in Withdrawers
  BY <1>0, CountsAreNumbers DEF FieldsOK, Withdrawers
<1>3. FieldsOK'
  <2>1. loaded' \in [Threads -> Int]
    BY <1>0 DEF FieldsOK
  <2> QED
    BY <1>0, <1>1, <2>1 DEF FieldsOK, semaphores
<1>4. LoadedIsCurrent'
  <2>1. ASSUME NEW u \in Threads, thread_pc'[u] = "changing" PROVE u = t
    BY <1>0, <1>1, <2>1, ThreadsAreFinite DEF IndInv, LoadedIsCurrent
  <2>2. mutex' = t /\ loaded'[t] = amount'
    BY <1>0 DEF FieldsOK
  <2> QED
    BY <2>1, <2>2 DEF LoadedIsCurrent
<1>5. /\ W("locking")' + W("changing")' = W("locking") + W("changing")
      /\ D("locking")' + D("changing")' = D("locking") + D("changing")
      /\ W("posting")' = W("posting") /\ W("done")' = W("done")
      /\ D("posting")' = D("posting") /\ D("done")' = D("done")
      /\ \A l \in {"locking", "changing"} : W(l)' \in Int /\ D(l)' \in Int
  <2>1. CASE t \in Depositors
    <3>1. /\ W("locking")' = W("locking") /\ W("changing")' = W("changing")
          /\ W("posting")' = W("posting") /\ W("done")' = W("done")
          /\ D("locking")' = D("locking") - 1 /\ D("changing")' = D("changing") + 1
          /\ D("posting")' = D("posting") /\ D("done")' = D("done")
      BY <1>1, <1>0, <2>1, DepositorMoves
    <3> QED
      BY <1>2, <3>1
  <2>2. CASE t \in Withdrawers
    <3>1. /\ D("locking")' = D("locking") /\ D("changing")' = D("changing")
          /\ D("posting")' = D("posting") /\ D("done")' = D("done")
          /\ W("locking")' = W("locking") - 1 /\ W("changing")' = W("changing") + 1
          /\ W("posting")' = W("posting") /\ W("done")' = W("done")
      BY <1>1, <1>0, <2>2, WithdrawerMoves
    <3> QED
      BY <1>2, <3>1
  <2> QED
    BY <1>2, <2>1, <2>2
<1>6. AmountAddsUp'
  BY <1>0, <1>1, <1>5 DEF IndInv, AmountAddsUp, Units
<1>7. WithdrawalsAddUp'
  <2>1. withdrawals_allowed + W("locking") + W("changing") + W("posting") + W("done") = D("done")
    BY DEF IndInv, WithdrawalsAddUp
  <2>2. withdrawals_allowed' = withdrawals_allowed
    BY <1>0 DEF semaphores
  <2>3. withdrawals_allowed' + W("locking")' + W("changing")' + W("posting")' + W("done")'
          = D("done")'
    BY <1>2, <1>5, <2>1, <2>2
  <2> QED
    BY <2>3 DEF WithdrawalsAddUp
<1>8. DepositsAddUp'
  <2>1. deposits_allowed + D("locking") + D("changing") + D("posting") + D("done")
          = Capacity + W("done")
    BY <1>1 DEF IndInv, DepositsAddUp
  <2>2. deposits_allowed' = deposits_allowed
    BY <1>0 DEF semaphores
  <2>3. Capacity \in Nat
    BY <1>0, CapacityFits DEF FieldsOK
  <2>4. deposits_allowed' + D("locking")' + D("changing")' + D("posting")' + D("done")'
          = Capacity' + W("done")'
    BY <1>1, <1>2, <1>5, <2>1, <2>2, <2>3
  <2> QED
    BY <2>4 DEF DepositsAddUp
<1> QED
  BY <1>1, <1>3, <1>4, <1>6, <1>7, <1>8 DEF IndInv

(* Unlocking: what is stored is the balance changed by this thread's       *)
(* amount, and the thread is counted as one whose transaction it shows     *)
(* (part2.c lines 93 to 96 and 120 to 123).                                *)
LEMMA UnlockKeepsIndInv ==
  ASSUME IndInv, NEW t \in Threads, Unlock(t)
  PROVE  /\ IndInv'
         /\ amount' = amount + Sign(t) * transaction_amount
<1>0. /\ Moves(t, "changing", "posting")
      /\ amount' = loaded[t] + Sign(t) * transaction_amount
      /\ loaded' = [loaded EXCEPT ![t] = 0]
      /\ mutex' = Nobody
      /\ deposits_allowed' = deposits_allowed /\ withdrawals_allowed' = withdrawals_allowed
      /\ FieldsOK
  BY DEF IndInv, Unlock, semaphores
<1>1. /\ Goes(t, "posting") /\ thread_pc[t] = "changing"
      /\ thread_pc' \in [Threads -> Places]
      /\ \A u \in Threads : u # t => thread_pc'[u] = thread_pc[u]
      /\ thread_pc'[t] = "posting"
      /\ transaction_amount' = transaction_amount /\ Capacity' = Capacity
      /\ main_pc' = main_pc /\ main_pc # "initialising"
      /\ NothingBefore' /\ NothingWithoutCapacity' /\ PrintedAfterAll'
  BY <1>0, ThreadMoves
<1>2. /\ \A l : D(l) \in Nat /\ W(l) \in Nat
      /\ deposits_allowed \in Nat /\ withdrawals_allowed \in Nat /\ Capacity \in Nat
      /\ transaction_amount \in Int /\ amount \in Int
      /\ t \in Depositors \/ t \in Withdrawers
  BY <1>0, CountsAreNumbers, CapacityFits DEF FieldsOK, Withdrawers
<1>3. /\ mutex = t
      /\ amount' = amount + Sign(t) * transaction_amount
      /\ Sign(t) \in {1, -1}
  BY <1>0, <1>1 DEF IndInv, LoadedIsCurrent, Sign
<1>4. FieldsOK'
  <2>1. loaded' \in [Threads -> Int]
    BY <1>0 DEF FieldsOK
  <2>2. amount' \in Int
    BY <1>2, <1>3
  <2> QED
    BY <1>0, <1>1, <2>1, <2>2 DEF FieldsOK
<1>5. LoadedIsCurrent'
  BY <1>1, <1>3 DEF IndInv, LoadedIsCurrent
<1>6. CASE t \in Depositors
  <2>1. /\ W("locking")' = W("locking") /\ W("changing")' = W("changing")
        /\ W("posting")' = W("posting") /\ W("done")' = W("done")
        /\ D("locking")' = D("locking") /\ D("changing")' = D("changing") - 1
        /\ D("posting")' = D("posting") + 1 /\ D("done")' = D("done")
    BY <1>0, <1>1, <1>6, DepositorMoves
  <2>2. WithdrawalsAddUp'
    BY <1>0, <2>1 DEF IndInv, WithdrawalsAddUp
  <2>3. DepositsAddUp'
    <3>1. deposits_allowed + D("locking") + D("changing") + D("posting") + D("done")
            = Capacity + W("done")
      BY <1>1 DEF IndInv, DepositsAddUp
    <3>2. deposits_allowed' + D("locking")' + D("changing")' + D("posting")' + D("done")'
            = Capacity' + W("done")'
      BY <1>0, <1>1, <1>2, <2>1, <3>1
    <3> QED
      BY <3>2 DEF DepositsAddUp
  <2>4. AmountAddsUp'
    <3>1. Units \in Int /\ Units' = Units + 1
      BY <1>2, <2>1 DEF Units
    <3>2. amount' = amount + transaction_amount
      BY <1>2, <1>3, <1>6 DEF Sign
    <3>3. \A u, x \in Int : (u + 1) * x = u * x + x
      BY Z3
    <3>4. amount = Units * transaction_amount
      BY DEF IndInv, AmountAddsUp
    <3>5. (Units + 1) * transaction_amount = Units * transaction_amount + transaction_amount
      BY <1>2, <3>1, <3>3
    <3> QED
      BY <1>1, <3>1, <3>2, <3>4, <3>5 DEF AmountAddsUp
  <2> QED
    BY <1>1, <1>3, <1>4, <1>5, <2>2, <2>3, <2>4 DEF IndInv
<1>7. CASE t \in Withdrawers
  <2>1. /\ D("locking")' = D("locking") /\ D("changing")' = D("changing")
        /\ D("posting")' = D("posting") /\ D("done")' = D("done")
        /\ W("locking")' = W("locking") /\ W("changing")' = W("changing") - 1
        /\ W("posting")' = W("posting") + 1 /\ W("done")' = W("done")
    BY <1>0, <1>1, <1>7, WithdrawerMoves
  <2>2. WithdrawalsAddUp'
    <3>1. withdrawals_allowed + W("locking") + W("changing") + W("posting") + W("done") = D("done")
      BY DEF IndInv, WithdrawalsAddUp
    <3>2. withdrawals_allowed' + W("locking")' + W("changing")' + W("posting")' + W("done")'
            = D("done")'
      BY <1>0, <1>2, <2>1, <3>1
    <3> QED
      BY <3>2 DEF WithdrawalsAddUp
  <2>3. DepositsAddUp'
    BY <1>0, <1>1, <2>1 DEF IndInv, DepositsAddUp
  <2>4. AmountAddsUp'
    <3>1. Units \in Int /\ Units' = Units - 1
      BY <1>2, <2>1 DEF Units
    <3>2. amount' = amount - transaction_amount
      <4>1. Sign(t) = -1
        BY <1>7 DEF Withdrawers, Sign
      <4> QED
        BY <1>2, <1>3, <4>1
    <3>3. \A u, x \in Int : (u - 1) * x = u * x - x
      BY Z3
    <3>4. amount = Units * transaction_amount
      BY DEF IndInv, AmountAddsUp
    <3>5. (Units - 1) * transaction_amount = Units * transaction_amount - transaction_amount
      BY <1>2, <3>1, <3>3
    <3> QED
      BY <1>1, <3>1, <3>2, <3>4, <3>5 DEF AmountAddsUp
  <2> QED
    BY <1>1, <1>3, <1>4, <1>5, <2>2, <2>3, <2>4 DEF IndInv
<1> QED
  BY <1>2, <1>6, <1>7

(* The deposit made allows a withdrawal: its thread is done and the permit *)
(* is there (part2.c line 98).                                             *)
LEMMA PostWithdrawalKeepsIndInv ==
  ASSUME IndInv, NEW t \in Threads, PostWithdrawal(t)
  PROVE  IndInv'
<1>0. /\ t \in Depositors /\ Moves(t, "posting", "done")
      /\ withdrawals_allowed' = withdrawals_allowed + 1
      /\ UNCHANGED <<deposits_allowed, account>>
      /\ FieldsOK
  BY DEF IndInv, PostWithdrawal, Withdrawers
<1>1. /\ Goes(t, "done") /\ thread_pc[t] = "posting"
      /\ thread_pc' \in [Threads -> Places]
      /\ \A u \in Threads : u # t => thread_pc'[u] = thread_pc[u]
      /\ thread_pc'[t] = "done"
      /\ transaction_amount' = transaction_amount /\ Capacity' = Capacity
      /\ main_pc' = main_pc /\ main_pc # "initialising"
      /\ NothingBefore' /\ NothingWithoutCapacity' /\ PrintedAfterAll'
  BY <1>0, ThreadMoves
<1>2. /\ W("locking")' = W("locking") /\ W("changing")' = W("changing")
      /\ W("posting")' = W("posting") /\ W("done")' = W("done")
      /\ D("locking")' = D("locking") /\ D("changing")' = D("changing")
      /\ D("posting")' = D("posting") - 1 /\ D("done")' = D("done") + 1
  BY <1>0, <1>1, DepositorMoves
<1>3. /\ \A l : D(l) \in Nat /\ W(l) \in Nat
      /\ deposits_allowed \in Nat /\ withdrawals_allowed \in Nat /\ Capacity \in Nat
  BY <1>0, CountsAreNumbers, CapacityFits DEF FieldsOK
<1>4. FieldsOK'
  <2>1. withdrawals_allowed' \in Nat
    BY <1>0, <1>3
  <2> QED
    BY <1>0, <1>1, <2>1 DEF FieldsOK, account
<1>5. LoadedIsCurrent'
  BY <1>0, <1>1 DEF IndInv, LoadedIsCurrent, account
<1>6. AmountAddsUp'
  <2>1. Units' = Units
    BY <1>2, <1>3 DEF Units
  <2> QED
    BY <1>0, <1>1, <2>1 DEF IndInv, AmountAddsUp, account
<1>7. WithdrawalsAddUp'
  <2>1. withdrawals_allowed + W("locking") + W("changing") + W("posting") + W("done") = D("done")
    BY DEF IndInv, WithdrawalsAddUp
  <2>2. withdrawals_allowed' + W("locking")' + W("changing")' + W("posting")' + W("done")'
          = D("done")'
    BY <1>0, <1>2, <1>3, <2>1
  <2> QED
    BY <2>2 DEF WithdrawalsAddUp
<1>8. DepositsAddUp'
  <2>1. deposits_allowed + D("locking") + D("changing") + D("posting") + D("done")
          = Capacity + W("done")
    BY <1>1 DEF IndInv, DepositsAddUp
  <2>2. deposits_allowed' + D("locking")' + D("changing")' + D("posting")' + D("done")'
          = Capacity' + W("done")'
    BY <1>0, <1>1, <1>2, <1>3, <2>1
  <2> QED
    BY <2>2 DEF DepositsAddUp
<1> QED
  BY <1>1, <1>4, <1>5, <1>6, <1>7, <1>8 DEF IndInv

(* The withdrawal made gives the unit of capacity back (part2.c line 125). *)
LEMMA PostDepositKeepsIndInv ==
  ASSUME IndInv, NEW t \in Threads, PostDeposit(t)
  PROVE  IndInv'
<1>0. /\ t \in Withdrawers /\ Moves(t, "posting", "done")
      /\ deposits_allowed' = deposits_allowed + 1
      /\ UNCHANGED <<withdrawals_allowed, account>>
      /\ FieldsOK
  BY DEF IndInv, PostDeposit, Withdrawers
<1>1. /\ Goes(t, "done") /\ thread_pc[t] = "posting"
      /\ thread_pc' \in [Threads -> Places]
      /\ \A u \in Threads : u # t => thread_pc'[u] = thread_pc[u]
      /\ thread_pc'[t] = "done"
      /\ transaction_amount' = transaction_amount /\ Capacity' = Capacity
      /\ main_pc' = main_pc /\ main_pc # "initialising"
      /\ NothingBefore' /\ NothingWithoutCapacity' /\ PrintedAfterAll'
  BY <1>0, ThreadMoves
<1>2. /\ D("locking")' = D("locking") /\ D("changing")' = D("changing")
      /\ D("posting")' = D("posting") /\ D("done")' = D("done")
      /\ W("locking")' = W("locking") /\ W("changing")' = W("changing")
      /\ W("posting")' = W("posting") - 1 /\ W("done")' = W("done") + 1
  BY <1>0, <1>1, WithdrawerMoves
<1>3. /\ \A l : D(l) \in Nat /\ W(l) \in Nat
      /\ deposits_allowed \in Nat /\ withdrawals_allowed \in Nat /\ Capacity \in Nat
  BY <1>0, CountsAreNumbers, CapacityFits DEF FieldsOK
<1>4. FieldsOK'
  <2>1. deposits_allowed' \in Nat
    BY <1>0, <1>3
  <2> QED
    BY <1>0, <1>1, <2>1 DEF FieldsOK, account
<1>5. LoadedIsCurrent'
  BY <1>0, <1>1 DEF IndInv, LoadedIsCurrent, account
<1>6. AmountAddsUp'
  <2>1. Units' = Units
    BY <1>2, <1>3 DEF Units
  <2> QED
    BY <1>0, <1>1, <2>1 DEF IndInv, AmountAddsUp, account
<1>7. WithdrawalsAddUp'
  <2>1. withdrawals_allowed + W("locking") + W("changing") + W("posting") + W("done") = D("done")
    BY DEF IndInv, WithdrawalsAddUp
  <2>2. withdrawals_allowed' + W("locking")' + W("changing")' + W("posting")' + W("done")'
          = D("done")'
    BY <1>0, <1>2, <1>3, <2>1
  <2> QED
    BY <2>2 DEF WithdrawalsAddUp
<1>8. DepositsAddUp'
  <2>1. deposits_allowed + D("locking") + D("changing") + D("posting") + D("done")
          = Capacity + W("done")
    BY <1>1 DEF IndInv, DepositsAddUp
  <2>2. deposits_allowed' + D("locking")' + D("changing")' + D("posting")' + D("done")'
          = Capacity' + W("done")'
    BY <1>0, <1>1, <1>2, <1>3, <2>1
  <2> QED
    BY <2>2 DEF DepositsAddUp
<1> QED
  BY <1>1, <1>4, <1>5, <1>6, <1>7, <1>8 DEF IndInv

(* Every step keeps the invariant.                                         *)
LEMMA NextKeepsIndInv == IndInv /\ [Next]_vars => IndInv'
<1> SUFFICES ASSUME IndInv, [Next]_vars PROVE IndInv'
  OBVIOUS
<1>1. CASE main
  BY <1>1, DivisionKeepsIndInv, CreateKeepsIndInv, MainKeepsIndInv DEF main
<1>2. ASSUME NEW t \in Threads, thread(t) PROVE IndInv'
  BY <1>2, WaitDepositKeepsIndInv, WaitWithdrawalKeepsIndInv, LockKeepsIndInv, UnlockKeepsIndInv,
     PostWithdrawalKeepsIndInv, PostDepositKeepsIndInv DEF thread, deposit, withdraw
<1>3. CASE UNCHANGED vars
  BY <1>3 DEF vars, semaphores, account, IndInv, FieldsOK, LoadedIsCurrent, NothingBefore,
              WithdrawalsAddUp, DepositsAddUp, AmountAddsUp, Units, D, W, Of, Capacity,
              NothingWithoutCapacity, PrintedAfterAll
<1> QED
  BY <1>1, <1>2, <1>3 DEF Next

(* It holds in every reachable state.                                      *)
LEMMA IndInvHolds == SafeSpec => []IndInv
  BY InitIsInductive, NextKeepsIndInv, PTL DEF SafeSpec

-----------------------------------------------------------------------------
(* The size of a union of sets with no common element.                     *)
LEMMA DisjointUnion ==
  ASSUME NEW S, IsFiniteSet(S), NEW T, IsFiniteSet(T), S \cap T = {}
  PROVE  /\ IsFiniteSet(S \cup T)
         /\ Cardinality(S) \in Nat /\ Cardinality(T) \in Nat
         /\ Cardinality(S \cup T) = Cardinality(S) + Cardinality(T)
<1>1. /\ IsFiniteSet(S \cup T)
      /\ Cardinality(S \cup T) = Cardinality(S) + Cardinality(T) - Cardinality(S \cap T)
  BY FS_Union
<1>2. Cardinality(S \cap T) = 0
  BY FS_EmptySet
<1>3. Cardinality(S) \in Nat /\ Cardinality(T) \in Nat
  BY FS_CardinalityType
<1> QED
  BY <1>1, <1>2, <1>3

(* The threads on the way, kind by kind and place by place.                *)
LEMMA OnTheWay ==
  Cardinality(At({"locking", "changing", "posting"}))
    = D("locking") + D("changing") + D("posting") + W("locking") + W("changing") + W("posting")
<1> DEFINE Here(l) == Of(Depositors, l) \cup Of(Withdrawers, l)
<1>1. ASSUME NEW l
      PROVE  /\ IsFiniteSet(Here(l)) /\ D(l) \in Nat /\ W(l) \in Nat
             /\ Cardinality(Here(l)) = D(l) + W(l)
             /\ Here(l) = {t \in Threads : thread_pc[t] = l}
  <2>1. IsFiniteSet(Of(Depositors, l)) /\ IsFiniteSet(Of(Withdrawers, l))
        /\ D(l) \in Nat /\ W(l) \in Nat
    BY CountsAreNumbers
  <2>2. Of(Depositors, l) \cap Of(Withdrawers, l) = {}
    BY DEF Of, Withdrawers
  <2>3. /\ IsFiniteSet(Here(l))
        /\ Cardinality(Here(l)) = D(l) + W(l)
    BY <2>1, <2>2, DisjointUnion DEF D, W
  <2>4. Here(l) = {t \in Threads : thread_pc[t] = l}
    BY ThreadsAreFinite DEF Of, Withdrawers
  <2> QED
    BY <2>1, <2>3, <2>4
<1> DEFINE L == Here("locking")
           C == Here("changing")
           P == Here("posting")
<1>2. /\ IsFiniteSet(L) /\ IsFiniteSet(C) /\ IsFiniteSet(P)
      /\ Cardinality(L) = D("locking") + W("locking")
      /\ Cardinality(C) = D("changing") + W("changing")
      /\ Cardinality(P) = D("posting") + W("posting")
      /\ D("locking") \in Nat /\ D("changing") \in Nat /\ D("posting") \in Nat
      /\ W("locking") \in Nat /\ W("changing") \in Nat /\ W("posting") \in Nat
  BY <1>1
<1>3. /\ L \cap C = {} /\ (L \cup C) \cap P = {}
      /\ At({"locking", "changing", "posting"}) = (L \cup C) \cup P
  <2>1. /\ L = {t \in Threads : thread_pc[t] = "locking"}
        /\ C = {t \in Threads : thread_pc[t] = "changing"}
        /\ P = {t \in Threads : thread_pc[t] = "posting"}
    BY <1>1
  <2> HIDE DEF L, C, P
  <2> QED
    BY <2>1 DEF At
<1> HIDE DEF L, C, P
<1>4. IsFiniteSet(L \cup C) /\ Cardinality(L \cup C) = Cardinality(L) + Cardinality(C)
  BY <1>2, <1>3, DisjointUnion
<1>5. Cardinality((L \cup C) \cup P) = Cardinality(L \cup C) + Cardinality(P)
  <2> DEFINE LC == L \cup C
  <2>1. IsFiniteSet(LC) /\ LC \cap P = {}
    BY <1>3, <1>4
  <2> HIDE DEF LC
  <2>2. Cardinality(LC \cup P) = Cardinality(LC) + Cardinality(P)
    BY <1>2, <2>1, DisjointUnion
  <2> QED
    BY <2>2 DEF LC
<1>6. Cardinality((L \cup C) \cup P)
        = D("locking") + D("changing") + D("posting") + W("locking") + W("changing") + W("posting")
  BY <1>2, <1>4, <1>5
<1>7. Cardinality(At({"locking", "changing", "posting"})) = Cardinality((L \cup C) \cup P)
  BY <1>3
<1> QED
  BY <1>6, <1>7, Zenon

(* What the accounting says of the semaphores and of the transactions the  *)
(* balance shows.                                                          *)
LEMMA AccountingBounds ==
  ASSUME IndInv, main_pc # "initialising"
  PROVE  /\ deposits_allowed + withdrawals_allowed
              + Cardinality(At({"locking", "changing", "posting"})) = Capacity
         /\ deposits_allowed \in 0 .. Capacity /\ withdrawals_allowed \in 0 .. Capacity
         /\ Units \in 0 .. Capacity
<1>1. /\ D("locking") \in Nat /\ D("changing") \in Nat /\ D("posting") \in Nat
      /\ W("locking") \in Nat /\ W("changing") \in Nat /\ W("posting") \in Nat
      /\ D("done") \in Nat /\ W("done") \in Nat
      /\ deposits_allowed \in Nat /\ withdrawals_allowed \in Nat /\ Capacity \in Nat
  BY CountsAreNumbers, CapacityFits DEF IndInv, FieldsOK
<1>2. /\ withdrawals_allowed + W("locking") + W("changing") + W("posting") + W("done") = D("done")
      /\ deposits_allowed + D("locking") + D("changing") + D("posting") + D("done")
           = Capacity + W("done")
  BY DEF IndInv, WithdrawalsAddUp, DepositsAddUp
<1>3. Cardinality(At({"locking", "changing", "posting"}))
        = D("locking") + D("changing") + D("posting") + W("locking") + W("changing") + W("posting")
  BY OnTheWay
<1>4. deposits_allowed + withdrawals_allowed
        + Cardinality(At({"locking", "changing", "posting"})) = Capacity
  <2>1. deposits_allowed + withdrawals_allowed
          + (D("locking") + D("changing") + D("posting")
               + W("locking") + W("changing") + W("posting")) = Capacity
    BY <1>1, <1>2
  <2> QED
    BY <1>3, <2>1
<1>5. deposits_allowed \in 0 .. Capacity /\ withdrawals_allowed \in 0 .. Capacity
  BY <1>1, <1>2
<1>6. Units \in 0 .. Capacity
  BY <1>1, <1>2 DEF Units
<1> QED
  BY <1>4, <1>5, <1>6

(* The balance is the capacity in use, in units of the argument (part2.c   *)
(* lines 33, 93 and 120).                                                  *)
LEMMA IndInvBoundsBalance == IndInv => BalanceInBounds
<1> SUFFICES ASSUME IndInv PROVE amount \in 0 .. LIMIT
  BY DEF BalanceInBounds
<1>1. CASE main_pc = "initialising"
  <2>1. amount = 0
    BY <1>1 DEF IndInv, NothingBefore
  <2> QED
    BY <2>1, BankAssumption
<1>2. CASE main_pc # "initialising"
  <2>1. Units \in 0 .. Capacity
    BY <1>2, AccountingBounds
  <2>2. Units * transaction_amount \in 0 .. LIMIT
    BY <2>1, CapacityFits DEF IndInv, FieldsOK
  <2> QED
    BY <2>2 DEF IndInv, AmountAddsUp
<1> QED
  BY <1>1, <1>2

(* Before the division both semaphores are 0, afterwards the accounting    *)
(* bounds them.                                                            *)
LEMMA IndInvBoundsSemaphores == IndInv => TypeOK
<1> SUFFICES ASSUME IndInv PROVE TypeOK
  OBVIOUS
<1>1. deposits_allowed \in 0 .. Capacity /\ withdrawals_allowed \in 0 .. Capacity
  <2>1. CASE main_pc = "initialising"
    <3>1. deposits_allowed = 0 /\ withdrawals_allowed = 0
      BY <2>1 DEF IndInv, NothingBefore
    <3>2. Capacity \in Nat
      BY CapacityFits DEF IndInv, FieldsOK
    <3>3. 0 \in 0 .. Capacity
      BY <3>2
    <3> QED
      BY <3>1, <3>3
  <2>2. CASE main_pc # "initialising"
    BY <2>2, AccountingBounds
  <2> QED
    BY <2>1, <2>2
<1> QED
  BY <1>1 DEF IndInv, FieldsOK, TypeOK, Places

(* Neither semaphore exceeds the capacity, and every variable keeps its    *)
(* type.                                                                   *)
THEOREM TypeCorrect == SafeSpec => []TypeOK
  BY IndInvHolds, IndInvBoundsSemaphores, PTL

(* No overdraft and no balance over the limit, whatever the numbers of     *)
(* threads, the argument and the interleaving (part2.c lines 33 to 131).   *)
THEOREM NoOverdraft == SafeSpec => []BalanceInBounds
  BY IndInvHolds, IndInvBoundsBalance, PTL

(* No unit of capacity is lost or made (part2.c lines 85 to 98 and 112 to  *)
(* 125).                                                                   *)
THEOREM CapacityIsConserved == SafeSpec => []CapacityConserved
<1>1. IndInv => CapacityConserved
  BY AccountingBounds DEF CapacityConserved
<1> QED
  BY <1>1, IndInvHolds, PTL

(* The final amount is printed only if the capacity had room for all: the  *)
(* safety half of EndsExactlyWhenThereIsRoom (part2.c lines 59 to 74).     *)
THEOREM PrintsOnlyWithRoom == SafeSpec => [](main_pc = "printed" => RoomForAll)
<1>1. ASSUME IndInv, main_pc = "printed"
      PROVE  RoomForAll
  <2>1. \A t \in Threads : thread_pc[t] = "done"
    BY <1>1 DEF IndInv, PrintedAfterAll
  <2>2. D("done") = num_deposit_threads /\ W("done") = num_withdraw_threads
    BY <2>1, CountsOfAll
  <2>3. /\ D("locking") = 0 /\ D("changing") = 0 /\ D("posting") = 0
        /\ W("locking") = 0 /\ W("changing") = 0 /\ W("posting") = 0
    <3>1. \A l \in {"locking", "changing", "posting"} : D(l) = 0 /\ W(l) = 0
      BY <2>1, CountsOfAll
    <3> QED
      BY <3>1
  <2>4. /\ withdrawals_allowed \in Nat /\ deposits_allowed \in Nat /\ Capacity \in Nat
        /\ num_deposit_threads \in Nat \ {0} /\ num_withdraw_threads \in Nat
    BY <1>1, CapacityFits, BankAssumption DEF IndInv, FieldsOK
  <2>5. withdrawals_allowed + num_withdraw_threads = num_deposit_threads
    <3>1. withdrawals_allowed + 0 + 0 + 0 + num_withdraw_threads = num_deposit_threads
      BY <1>1, <2>2, <2>3 DEF IndInv, WithdrawalsAddUp
    <3> QED
      BY <2>4, <3>1
  <2>6. deposits_allowed + num_deposit_threads = Capacity + num_withdraw_threads
    <3>1. deposits_allowed + 0 + 0 + 0 + num_deposit_threads = Capacity + num_withdraw_threads
      BY <1>1, <2>2, <2>3 DEF IndInv, DepositsAddUp
    <3> QED
      BY <2>4, <3>1
  <2>7. Capacity # 0
    <3>1. Depositors # {}
      BY <2>4 DEF Depositors
    <3> QED
      BY <1>1, <2>1, <3>1, ThreadsAreFinite DEF IndInv, NothingWithoutCapacity
  <2> QED
    BY <2>4, <2>5, <2>6, <2>7 DEF RoomForAll
<1>2. IndInv => (main_pc = "printed" => RoomForAll)
  BY <1>1
<1> QED
  BY <1>2, IndInvHolds, PTL

-----------------------------------------------------------------------------
(* At the start nothing has been added and nothing printed.                *)
LEMMA InitMapsToInit == Init => Atomic!Init
<1> SUFFICES ASSUME Init PROVE Atomic!Init
  OBVIOUS
<1>1. transaction_amount \in Int
  BY BankAssumption DEF Init
<1>2. \A t \in Threads : Sign(t) * transaction_amount \in Int
  BY <1>1 DEF Sign
<1>3. At({"posting", "done"}) = {}
  BY DEF Init, At
<1> QED
  BY <1>2, <1>3 DEF Init, Atomic!Init

(* The store of a thread is the abstract change: what it adds to is the    *)
(* balance (part2.c lines 93 and 120).                                     *)
LEMMA UnlockIsApply ==
  ASSUME IndInv, NEW t \in Threads, Unlock(t)
  PROVE  Atomic!Apply(t)
<1>1. /\ thread_pc[t] = "changing"
      /\ thread_pc' = [thread_pc EXCEPT ![t] = "posting"]
      /\ thread_pc \in [Threads -> Places]
      /\ UNCHANGED <<transaction_amount, main_pc>>
  BY DEF IndInv, FieldsOK, Unlock, Moves
<1>2. amount' = amount + Sign(t) * transaction_amount
  BY UnlockKeepsIndInv
<1>3. /\ t \notin At({"posting", "done"})
      /\ At({"posting", "done"})' = At({"posting", "done"}) \cup {t}
  BY <1>1 DEF At
<1> QED
  BY <1>1, <1>2, <1>3 DEF Atomic!Apply, Sign

(* The semaphores, the mutex and the creation of threads are not seen.     *)
LEMMA OtherThreadStepsUnseen ==
  ASSUME IndInv, NEW t \in Threads,
         \/ WaitDeposit(t) \/ WaitWithdrawal(t) \/ Lock(t)
         \/ PostWithdrawal(t) \/ PostDeposit(t)
  PROVE  UNCHANGED Atomic!vars
<1>1. UNCHANGED <<transaction_amount, main_pc, amount>>
  BY DEF WaitDeposit, WaitWithdrawal, Lock, PostWithdrawal, PostDeposit, Moves, account
<1>2. PICK from \in Places, to \in Places :
        /\ from \in {"posting", "done"} <=> to \in {"posting", "done"}
        /\ thread_pc[t] = from
        /\ thread_pc' = [thread_pc EXCEPT ![t] = to]
  BY DEF Places, WaitDeposit, WaitWithdrawal, Lock, PostWithdrawal, PostDeposit, Moves
<1>3. At({"posting", "done"})' = At({"posting", "done"})
  BY <1>2 DEF IndInv, FieldsOK, At
<1> QED
  BY <1>1, <1>3 DEF Atomic!vars, Sign

(* Of the steps of main only the last is seen: when every thread has been  *)
(* joined the balance is announced (part2.c lines 33 to 74).               *)
LEMMA MainIsAnnounceOrUnseen ==
  ASSUME IndInv, main
  PROVE  Atomic!Announce \/ UNCHANGED Atomic!vars
<1>1. CASE PrintFinalAmount
  <2>1. /\ UNCHANGED <<transaction_amount, amount, thread_pc>>
        /\ \A t \in Threads : thread_pc[t] = "done"
        /\ main_pc' = "printed"
    BY <1>1 DEF PrintFinalAmount, account, At
  <2>2. At({"posting", "done"}) = Threads /\ At({"posting", "done"})' = At({"posting", "done"})
    BY <2>1 DEF At
  <2> QED
    BY <2>1, <2>2 DEF Atomic!Announce, Sign
<1>2. CASE InitSemaphores \/ DivideByZero \/ CreateFails
  <2>1. /\ UNCHANGED <<transaction_amount, amount, thread_pc>>
        /\ main_pc # "printed" /\ main_pc' # "printed"
    BY <1>2 DEF InitSemaphores, DivideByZero, CreateFails, account
  <2> QED
    BY <2>1 DEF Atomic!vars, Sign, At
<1>3. CASE CreateThread
  <2>1. /\ UNCHANGED <<transaction_amount, amount>>
        /\ main_pc # "printed" /\ main_pc' # "printed"
    BY <1>3 DEF CreateThread, account
  <2>2. At({"posting", "done"})' = At({"posting", "done"})
    BY <1>3 DEF CreateThread, IsNext, IndInv, FieldsOK, At
  <2> QED
    BY <2>1, <2>2 DEF Atomic!vars, Sign
<1> QED
  BY <1>1, <1>2, <1>3 DEF main

(* Every step is an abstract step or is not seen (all of part2.c).         *)
LEMMA NextMapsToNext == IndInv /\ [Next]_vars => [Atomic!Next]_(Atomic!vars)
<1> SUFFICES ASSUME IndInv, [Next]_vars PROVE [Atomic!Next]_(Atomic!vars)
  OBVIOUS
<1>1. CASE main
  BY <1>1, MainIsAnnounceOrUnseen DEF Atomic!Next
<1>2. ASSUME NEW t \in Threads, thread(t) PROVE [Atomic!Next]_(Atomic!vars)
  <2>1. CASE Unlock(t)
    BY <2>1, UnlockIsApply DEF Atomic!Next
  <2>2. CASE ~Unlock(t)
    BY <1>2, <2>2, OtherThreadStepsUnseen DEF thread, deposit, withdraw
  <2> QED
    BY <2>1, <2>2
<1>3. CASE UNCHANGED vars
  BY <1>3 DEF vars, account, Atomic!vars, Sign, At
<1> QED
  BY <1>1, <1>2, <1>3 DEF Next

(* No update is lost and none is made twice, whatever the interleaving of  *)
(* loads and stores, and the final amount is that of all transactions      *)
(* (part2.c lines 59 to 131).                                              *)
THEOREM BalanceIsAtomicSum == SafeSpec => ImplementsAtomicSum
  BY InitMapsToInit, NextMapsToNext, IndInvHolds, PTL
  DEF SafeSpec, ImplementsAtomicSum, Atomic!Spec

-----------------------------------------------------------------------------
(* The mutex alone: part1.c and PLthreads.c.                               *)

(* A thread in its critical section has the mutex, and what it has read of *)
(* the number is still the number: nobody else can have changed it.        *)
LoadedIsTheSum ==
  \A t \in Locked!Threads :
    thread_pc[t] = "changing" => mutex = t /\ loaded[t] = amount

SumInv == Locked!TypeOK /\ LoadedIsTheSum

-----------------------------------------------------------------------------
(* What the assumption of LockedSum says of the program that runs.         *)
LEMMA ThreadsOfProgram ==
  ASSUME Locked!ProgramsOK, program \in Programs
  PROVE  /\ Locked!Threads \subseteq Nat
         /\ program.change \in [Locked!Threads -> Int]
  BY DEF Locked!ProgramsOK, Locked!Threads

(* The initial states (the globals of part1.c, lines 9 and 10).            *)
LEMMA InitIsSumInv == Locked!Init => SumInv
<1> SUFFICES ASSUME Locked!Init PROVE SumInv
  OBVIOUS
<1>1. Locked!TypeOK
  <2>1. amount = 0 /\ loaded = [t \in Locked!Threads |-> 0]
    BY DEF Locked!Init
  <2>2. amount \in Int /\ loaded \in [Locked!Threads -> Int]
    BY <2>1
  <2> QED
    BY <2>2 DEF Locked!Init, Locked!TypeOK
<1>2. LoadedIsTheSum
  BY DEF Locked!Init, LoadedIsTheSum
<1> QED
  BY <1>1, <1>2 DEF SumInv

(* A step of main: it touches neither the number nor the mutex, and makes  *)
(* no thread a thread in its critical section (part1.c lines 33 to 99).    *)
LEMMA MainKeepsSumInv == SumInv /\ Locked!main => SumInv'
<1> SUFFICES ASSUME SumInv, Locked!main PROVE SumInv'
  OBVIOUS
<1> USE DEF SumInv, Locked!TypeOK, LoadedIsTheSum, Locked!Threads
<1>1. ASSUME NEW t \in Locked!Threads, NEW state \in {"locking", "missing"},
             Locked!Creates(t, state)
      PROVE  SumInv'
  BY <1>1 DEF Locked!Creates
<1>2. CASE Locked!CreateThread
  BY <1>1, <1>2 DEF Locked!CreateThread
<1>3. CASE Locked!CreateFails
  BY <1>3 DEF Locked!CreateFails
<1>4. CASE Locked!CreateFailsUnnoticed
  BY <1>1, <1>4 DEF Locked!CreateFailsUnnoticed
<1>5. CASE Locked!JoinAndPrint
  BY <1>5 DEF Locked!JoinAndPrint
<1>6. CASE Locked!JoinMissing
  BY <1>6 DEF Locked!JoinMissing
<1> QED
  BY <1>2, <1>3, <1>4, <1>5, <1>6 DEF Locked!main

(* Locking: the mutex was free, so no other thread is in its critical      *)
(* section (part1.c lines 109 to 116).                                     *)
LEMMA LockKeepsSumInv ==
  ASSUME Locked!ProgramsOK, SumInv, NEW t \in Locked!Threads, Locked!Lock(t)
  PROVE  SumInv'
<1> USE DEF SumInv, Locked!Lock, Locked!Moves
<1>1. Locked!Threads \subseteq Nat /\ Locked!Threads' = Locked!Threads
  BY ThreadsOfProgram DEF Locked!TypeOK, Locked!Threads
<1>2. Locked!TypeOK'
  BY <1>1 DEF Locked!TypeOK
<1>3. Locked!Nobody \notin Locked!Threads
  BY <1>1 DEF Locked!Nobody
<1>4. ASSUME NEW u \in Locked!Threads, thread_pc'[u] = "changing" PROVE u = t
  BY <1>3, <1>4 DEF Locked!TypeOK, LoadedIsTheSum
<1>5. mutex' = t /\ loaded'[t] = amount'
  BY DEF Locked!TypeOK
<1>6. LoadedIsTheSum'
  BY <1>1, <1>4, <1>5 DEF LoadedIsTheSum
<1> QED
  BY <1>2, <1>6

(* Unlocking: the only thread for which the number changes has left its    *)
(* critical section (part1.c lines 116 to 124).                            *)
LEMMA UnlockKeepsSumInv ==
  ASSUME Locked!ProgramsOK, SumInv, NEW t \in Locked!Threads, Locked!Unlock(t)
  PROVE  SumInv'
<1> USE DEF SumInv
<1>0. /\ amount' = loaded[t] + program.change[t]
      /\ loaded' = [loaded EXCEPT ![t] = 0]
      /\ loaded \in [Locked!Threads -> Int]
  BY DEF Locked!Unlock, Locked!TypeOK
<1>1. program.change[t] \in Int /\ Locked!Threads' = Locked!Threads
  BY ThreadsOfProgram DEF Locked!TypeOK, Locked!Threads, Locked!Unlock, Locked!Moves
<1>2. Locked!TypeOK'
  <2>1. amount' \in Int
    BY <1>0, <1>1
  <2>2. loaded' \in [Locked!Threads' -> Int]
    BY <1>0, <1>1
  <2>3. thread_pc' \in [Locked!Threads' -> {"not created", "missing", "locking",
                                           "changing", "done"}]
    BY <1>1 DEF Locked!TypeOK, Locked!Unlock, Locked!Moves
  <2> QED
    BY <2>1, <2>2, <2>3 DEF Locked!TypeOK, Locked!Unlock, Locked!Moves
<1>3. LoadedIsTheSum'
  BY <1>1 DEF Locked!TypeOK, LoadedIsTheSum, Locked!Unlock, Locked!Moves
<1> QED
  BY <1>2, <1>3

(* Every step keeps the invariant (all of part1.c and of PLthreads.c).     *)
LEMMA NextKeepsSumInv ==
  ASSUME Locked!ProgramsOK
  PROVE  SumInv /\ [Locked!Next]_(Locked!vars) => SumInv'
<1> SUFFICES ASSUME SumInv, [Locked!Next]_(Locked!vars) PROVE SumInv'
  OBVIOUS
<1>1. CASE Locked!main
  BY <1>1, MainKeepsSumInv
<1>2. ASSUME NEW t \in Locked!Threads, Locked!thread(t) PROVE SumInv'
  BY <1>2, LockKeepsSumInv, UnlockKeepsSumInv DEF Locked!thread
<1>3. CASE UNCHANGED Locked!vars
  BY <1>3 DEF Locked!vars, SumInv, Locked!TypeOK, LoadedIsTheSum, Locked!Threads
<1> QED
  BY <1>1, <1>2, <1>3 DEF Locked!Next

(* The mutex and what was loaded agree with the number in every reachable  *)
(* state (part1.c lines 104 to 152).                                       *)
LEMMA SumInvHolds ==
  ASSUME Locked!ProgramsOK
  PROVE  Locked!SafeSpec => []SumInv
  BY InitIsSumInv, NextKeepsSumInv, PTL DEF Locked!SafeSpec

-----------------------------------------------------------------------------
(* At the start nothing has been added and nothing printed.                *)
LEMMA InitMapsToInitOfSum ==
  ASSUME Locked!ProgramsOK
  PROVE  Locked!Init => Locked!Atomic!Init
  BY ThreadsOfProgram DEF Locked!Init, Locked!Atomic!Init, Locked!Done, Locked!Threads

(* The store of a thread is the abstract change: what it adds to is the    *)
(* number (part1.c line 116, PLthreads.c line 62).                         *)
LEMMA SumUnlockIsApply ==
  ASSUME SumInv, NEW t \in Locked!Threads, Locked!Unlock(t)
  PROVE  Locked!Atomic!Apply(t)
<1> USE DEF SumInv, Locked!TypeOK, Locked!Unlock, Locked!Moves, Locked!Done, Locked!Threads
<1>1. t \notin Locked!Done /\ Locked!Done' = Locked!Done \cup {t}
  OBVIOUS
<1>2. amount' = amount + program.change[t]
  BY DEF LoadedIsTheSum
<1> QED
  BY <1>1, <1>2 DEF Locked!Atomic!Apply

(* Locking is not seen.                                                    *)
LEMMA SumLockIsUnseen ==
  ASSUME SumInv, NEW t \in Locked!Threads, Locked!Lock(t)
  PROVE  UNCHANGED Locked!Atomic!vars
  BY DEF SumInv, Locked!TypeOK, Locked!Lock, Locked!Moves, Locked!Done,
         Locked!Threads, Locked!Atomic!vars

(* Of the steps of main only the last is seen: when every thread has been  *)
(* joined the number is announced (part1.c lines 75 to 99).                *)
LEMMA SumMainIsAnnounceOrUnseen ==
  ASSUME SumInv, Locked!main
  PROVE  Locked!Atomic!Announce \/ UNCHANGED Locked!Atomic!vars
<1> USE DEF SumInv, Locked!TypeOK, Locked!Done, Locked!Threads, Locked!Atomic!vars
<1>1. ASSUME NEW t \in Locked!Threads, NEW state \in {"locking", "missing"},
             Locked!Creates(t, state)
      PROVE  UNCHANGED Locked!Atomic!vars
  BY <1>1 DEF Locked!Creates
<1>2. CASE Locked!CreateThread
  BY <1>1, <1>2 DEF Locked!CreateThread
<1>3. CASE Locked!CreateFails
  BY <1>3 DEF Locked!CreateFails
<1>4. CASE Locked!CreateFailsUnnoticed
  BY <1>1, <1>4 DEF Locked!CreateFailsUnnoticed
<1>5. CASE Locked!JoinAndPrint
  BY <1>5 DEF Locked!JoinAndPrint, Locked!Atomic!Announce
<1>6. CASE Locked!JoinMissing
  BY <1>6 DEF Locked!JoinMissing
<1> QED
  BY <1>2, <1>3, <1>4, <1>5, <1>6 DEF Locked!main

(* Every step is an abstract step or is not seen (all of part1.c and of    *)
(* PLthreads.c).                                                           *)
LEMMA NextMapsToNextOfSum ==
  SumInv /\ [Locked!Next]_(Locked!vars) => [Locked!Atomic!Next]_(Locked!Atomic!vars)
<1> SUFFICES ASSUME SumInv, [Locked!Next]_(Locked!vars)
             PROVE  [Locked!Atomic!Next]_(Locked!Atomic!vars)
  OBVIOUS
<1>1. CASE Locked!main
  BY <1>1, SumMainIsAnnounceOrUnseen DEF Locked!Atomic!Next
<1>2. ASSUME NEW t \in Locked!Threads, Locked!thread(t) PROVE [Locked!Atomic!Next]_(Locked!Atomic!vars)
  BY <1>2, SumLockIsUnseen, SumUnlockIsApply DEF Locked!thread, Locked!Atomic!Next, Locked!Threads
<1>3. CASE UNCHANGED Locked!vars
  BY <1>3 DEF Locked!vars, Locked!Done, Locked!Threads, Locked!Atomic!vars
<1> QED
  BY <1>1, <1>2, <1>3 DEF Locked!Next

(* No update is lost and none is made twice, whatever the number of        *)
(* threads and what they add, and the number that main prints is the sum   *)
(* (part1.c lines 75 to 152, PLthreads.c lines 38 to 87).                  *)
THEOREM SumIsAtomic ==
  ASSUME Locked!ProgramsOK
  PROVE  Locked!SafeSpec => Locked!ImplementsAtomicSum
<1>1. Locked!Init => Locked!Atomic!Init
  BY InitMapsToInitOfSum
<1>2. SumInv /\ [Locked!Next]_(Locked!vars) => [Locked!Atomic!Next]_(Locked!Atomic!vars)
  BY NextMapsToNextOfSum
<1>3. Locked!SafeSpec => []SumInv
  BY SumInvHolds
<1> QED
  BY <1>1, <1>2, <1>3, PTL
  DEF Locked!SafeSpec, Locked!ImplementsAtomicSum, Locked!Atomic!Spec
=============================================================================
