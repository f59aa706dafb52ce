----------------------------- MODULE SleepingTA -----------------------------
(***************************************************************************)
(* The sleeping TA of Assignment_3/solution/q1.c: one TA thread, a thread  *)
(* per student, a ring of chairs under a mutex, and two semaphores.        *)
(*                                                                         *)
(* An action is what a thread does between two points where another one    *)
(* can get in its way.  A critical section of a student is one action: it  *)
(* writes number_students_waiting and one chair, and the threads that read *)
(* them without the mutex read only the one (the TA) or the other (the     *)
(* student whose chair it is).  The scan of student_already_waiting is one *)
(* read for the same reason: at most one chair can hold the student's      *)
(* number (see OneChairEach).  The TA keeps the mutex while it helps.      *)
(***************************************************************************)
EXTENDS Integers, FiniteSets

CONSTANTS
  NUM_STUDENTS,       \* 5
  NUM_WAITING_CHAIRS  \* 3

ASSUME NumberAssumption ==
  /\ NUM_STUDENTS \in Nat \ {0}
  /\ NUM_WAITING_CHAIRS \in Nat \ {0}

VARIABLES
  students_waiting, ta_available,  \* the values of the semaphores
  mutex,                           \* the thread that holds it, or Nobody
  waiting_room_chairs,             \* the student in each chair, or Nobody
  number_students_waiting,
  next_seat_available,             \* the chair for the next student to come
  next_student_getting_help,       \* the chair of the next student to help
  ta_is_asleep,
  ta_pc,                           \* where the TA thread is
  student_pc,                      \* where each student thread is
  helping                          \* the student last announced, until help ends

semaphores == <<students_waiting, ta_available>>
hallway    == <<waiting_room_chairs, number_students_waiting,
                next_seat_available, next_student_getting_help>>
ta         == <<ta_pc, ta_is_asleep, helping>>
vars       == <<semaphores, mutex, hallway, ta, student_pc>>

Nobody   == 0
TA       == -1
Students == 1 .. NUM_STUDENTS
Chairs   == 0 .. NUM_WAITING_CHAIRS - 1

student_already_waiting(s) == \E c \in Chairs : waiting_room_chairs[c] = s

Init ==
  /\ students_waiting = 0
  /\ ta_available = 1
  /\ mutex = Nobody
  /\ waiting_room_chairs = [c \in Chairs |-> Nobody]
  /\ number_students_waiting = 0
  /\ next_seat_available = 0
  /\ next_student_getting_help = 0
  /\ ta_is_asleep = FALSE
  /\ ta_pc = "looking"
  /\ student_pc = [s \in Students |-> "checking"]
  /\ helping = Nobody

-----------------------------------------------------------------------------
(* The TA thread.                                                          *)
TAMoves(from, to) ==
  /\ ta_pc = from
  /\ ta_pc' = to
  /\ UNCHANGED student_pc

(* The number is read without the mutex.                                   *)
TASeesStudents ==
  /\ TAMoves("looking", "waiting")
  /\ number_students_waiting > 0
  /\ ta_is_asleep' = FALSE
  /\ UNCHANGED <<semaphores, mutex, hallway, helping>>

TASeesNobody ==
  /\ TAMoves("looking", "napping")
  /\ number_students_waiting = 0
  /\ ta_is_asleep' = TRUE
  /\ UNCHANGED <<semaphores, mutex, hallway, helping>>

TAWakes ==
  /\ TAMoves("napping", "looking")
  /\ UNCHANGED <<semaphores, mutex, hallway, ta_is_asleep, helping>>

(* Mutant: the semaphore is tested and not taken.                          *)
TAWaitsWithoutTaking ==
  /\ TAMoves("waiting", "locking")
  /\ students_waiting > 0
  /\ UNCHANGED <<semaphores, mutex, hallway, ta_is_asleep, helping>>

(* sem_wait(&students_waiting)                                             *)
TAWaits ==
  /\ TAMoves("waiting", "locking")
  /\ students_waiting > 0
  /\ students_waiting' = students_waiting - 1
  /\ UNCHANGED <<ta_available, mutex, hallway, ta_is_asleep, helping>>

TALocks ==
  /\ TAMoves("locking", "choosing")
  /\ mutex = Nobody
  /\ mutex' = TA
  /\ UNCHANGED <<semaphores, hallway, ta_is_asleep, helping>>

(* Mutant: the ring of chairs is not advanced.                             *)
TAStartsHelpAtSameChair ==
  /\ TAMoves("choosing", "helping")
  /\ helping' = waiting_room_chairs[next_student_getting_help]
  /\ waiting_room_chairs' =
       [waiting_room_chairs EXCEPT ![next_student_getting_help] = Nobody]
  /\ number_students_waiting' = number_students_waiting - 1
  /\ UNCHANGED <<semaphores, mutex, next_student_getting_help,
                 next_seat_available, ta_is_asleep>>

(* Mutant: the mutex is released before the help.                          *)
TAStartsHelpUnlocked ==
  /\ TAMoves("choosing", "helping")
  /\ helping' = waiting_room_chairs[next_student_getting_help]
  /\ waiting_room_chairs' =
       [waiting_room_chairs EXCEPT ![next_student_getting_help] = Nobody]
  /\ number_students_waiting' = number_students_waiting - 1
  /\ next_student_getting_help' = (next_student_getting_help + 1) % NUM_WAITING_CHAIRS
  /\ mutex' = Nobody
  /\ UNCHANGED <<semaphores, next_seat_available, ta_is_asleep>>

TAStartsHelp ==
  /\ TAMoves("choosing", "helping")
  /\ helping' = waiting_room_chairs[next_student_getting_help]
  /\ waiting_room_chairs' =
       [waiting_room_chairs EXCEPT ![next_student_getting_help] = Nobody]
  /\ number_students_waiting' = number_students_waiting - 1
  /\ next_student_getting_help' = (next_student_getting_help + 1) % NUM_WAITING_CHAIRS
  /\ UNCHANGED <<semaphores, mutex, next_seat_available, ta_is_asleep>>

TAFinishesHelp ==
  /\ TAMoves("helping", "posting")
  /\ mutex' = Nobody
  /\ helping' = Nobody
  /\ UNCHANGED <<semaphores, hallway, ta_is_asleep>>

(* Mutant: the TA does not announce that it is available.                  *)
TADoesNotPost ==
  /\ TAMoves("posting", "looking")
  /\ UNCHANGED <<semaphores, mutex, hallway, ta_is_asleep, helping>>

(* sem_post(&ta_available)                                                 *)
TAPosts ==
  /\ TAMoves("posting", "looking")
  /\ ta_available' = ta_available + 1
  /\ UNCHANGED <<students_waiting, mutex, hallway, ta_is_asleep, helping>>

ta_function ==
  \/ TASeesStudents \/ TASeesNobody \/ TAWakes \/ TAWaits
  \/ TALocks \/ TAStartsHelp \/ TAFinishesHelp \/ TAPosts

-----------------------------------------------------------------------------
(* The thread of student s.                                                *)
Moves(s, from, to) ==
  /\ student_pc[s] = from
  /\ student_pc' = [student_pc EXCEPT ![s] = to]
  /\ UNCHANGED ta

(* Mutant: no check for a chair still taken.                               *)
StartProgrammingAnyway(s) ==
  /\ Moves(s, "checking", "programming")
  /\ UNCHANGED <<semaphores, mutex, hallway>>

(* The spin on student_already_waiting, which changes nothing, ends.       *)
StartProgramming(s) ==
  /\ Moves(s, "checking", "programming")
  /\ ~student_already_waiting(s)
  /\ UNCHANGED <<semaphores, mutex, hallway>>

FinishProgramming(s) ==
  /\ Moves(s, "programming", "locking")
  /\ UNCHANGED <<semaphores, mutex, hallway>>

StudentLocks(s) ==
  /\ Moves(s, "locking", "choosing")
  /\ mutex = Nobody
  /\ mutex' = s
  /\ UNCHANGED <<semaphores, hallway>>

(* Mutant: the next student is given the same chair.                       *)
TakeSameSeat(s) ==
  /\ Moves(s, "choosing", "signalling")
  /\ number_students_waiting < NUM_WAITING_CHAIRS
  /\ waiting_room_chairs' = [waiting_room_chairs EXCEPT ![next_seat_available] = s]
  /\ number_students_waiting' = number_students_waiting + 1
  /\ mutex' = Nobody
  /\ UNCHANGED <<semaphores, next_student_getting_help, next_seat_available>>

TakeSeat(s) ==
  /\ Moves(s, "choosing", "signalling")
  /\ number_students_waiting < NUM_WAITING_CHAIRS
  /\ waiting_room_chairs' = [waiting_room_chairs EXCEPT ![next_seat_available] = s]
  /\ number_students_waiting' = number_students_waiting + 1
  /\ next_seat_available' = (next_seat_available + 1) % NUM_WAITING_CHAIRS
  /\ mutex' = Nobody
  /\ UNCHANGED <<semaphores, next_student_getting_help>>

TryLater(s) ==
  /\ Moves(s, "choosing", "checking")
  /\ number_students_waiting >= NUM_WAITING_CHAIRS
  /\ mutex' = Nobody
  /\ UNCHANGED <<semaphores, hallway>>

(* sem_post(&students_waiting)                                             *)
Signal(s) ==
  /\ Moves(s, "signalling", "waiting")
  /\ students_waiting' = students_waiting + 1
  /\ UNCHANGED <<ta_available, mutex, hallway>>

(* sem_wait(&ta_available)                                                 *)
AwaitTA(s) ==
  /\ Moves(s, "waiting", "checking")
  /\ ta_available > 0
  /\ ta_available' = ta_available - 1
  /\ UNCHANGED <<students_waiting, mutex, hallway>>

student_function(s) ==
  \/ StartProgramming(s) \/ FinishProgramming(s) \/ StudentLocks(s)
  \/ TakeSeat(s) \/ TryLater(s) \/ Signal(s) \/ AwaitTA(s)

Next == ta_function \/ \E s \in Students : student_function(s)

SafeSpec == Init /\ [][Next]_vars

(* The scheduler runs every thread that can run.                           *)
WeakFairness ==
  /\ WF_vars(ta_function)
  /\ \A s \in Students : WF_vars(student_function(s))

WeakSpec == SafeSpec /\ WeakFairness

(* A thread blocked on the mutex or on ta_available, when it keeps being   *)
(* released, gets it some time: the others sleep for random times between  *)
(* two attempts.                                                           *)
Spec ==
  /\ WeakSpec
  /\ SF_vars(TALocks)
  /\ \A s \in Students : SF_vars(StudentLocks(s)) /\ SF_vars(AwaitTA(s))

-----------------------------------------------------------------------------
TypeOK ==
  /\ students_waiting \in 0 .. NUM_WAITING_CHAIRS
  /\ ta_available \in 0 .. NUM_STUDENTS + 1
  /\ mutex \in Students \cup {TA, Nobody}
  /\ waiting_room_chairs \in [Chairs -> Students \cup {Nobody}]
  /\ number_students_waiting \in 0 .. NUM_WAITING_CHAIRS
  /\ next_seat_available \in Chairs
  /\ next_student_getting_help \in Chairs
  /\ ta_is_asleep \in BOOLEAN
  /\ ta_pc \in {"looking", "napping", "waiting", "locking", "choosing", "helping", "posting"}
  /\ student_pc \in [Students -> {"checking", "programming", "locking", "choosing",
                                  "signalling", "waiting"}]
  /\ helping \in Students \cup {Nobody}

At(l) == {s \in Students : student_pc[s] = l}
If(b) == IF b THEN 1 ELSE 0

(* The chair of the student who has waited k turns longer than the next.   *)
ChairOfTurn(k) == (next_student_getting_help + k) % NUM_WAITING_CHAIRS

(* The chairs are a ring: counting from the next student to help, the      *)
(* first number_students_waiting ones are taken and the others are free,   *)
(* so nobody is overwritten by a newcomer and no free chair is passed by.  *)
HallwayIsRing ==
  /\ next_seat_available = ChairOfTurn(number_students_waiting)
  /\ \A k \in Chairs :
       waiting_room_chairs[ChairOfTurn(k)] # Nobody <=> k < number_students_waiting

(* The scan without the mutex keeps a student who still has a chair from   *)
(* coming back for another one.                                            *)
OneChairEach ==
  /\ \A c, d \in Chairs :
       /\ waiting_room_chairs[c] # Nobody
       /\ waiting_room_chairs[c] = waiting_room_chairs[d]
       => c = d
  /\ \A s \in Students :
       student_already_waiting(s) => student_pc[s] \in {"signalling", "waiting", "checking"}

(* A student in the hallway has not yet posted, or the post is in the      *)
(* semaphore, or the TA has it.                                            *)
EverySeatSignalled ==
  number_students_waiting =
    students_waiting + Cardinality(At("signalling"))
      + If(ta_pc \in {"locking", "choosing"})

(* The permits of ta_available: one to begin with and one for each student *)
(* helped, less one for each student who went past sem_wait.               *)
PermitsAddUp ==
  ta_available + number_students_waiting + If(ta_pc \in {"helping", "posting"})
    = 1 + Cardinality(At("signalling") \cup At("waiting"))

(* No signal of either semaphore is lost or counted twice, so that the TA, *)
(* which reads the number without the mutex, finds somebody to help when   *)
(* it has the mutex, and nobody waits for a permit that is never given     *)
(* (q1.c lines 87 to 117 and 154 to 174).                                  *)
SemaphoresAddUp == EverySeatSignalled /\ PermitsAddUp

(* The students in the hallway, in the order the TA will call them.        *)
Queue == [k \in 1 .. number_students_waiting |-> waiting_room_chairs[ChairOfTurn(k - 1)]]

Hallway == INSTANCE WaitingRoom
             WITH Chairs <- NUM_WAITING_CHAIRS, queue <- Queue

(* Two indices, a counter, a mutex and two semaphores make a first come,   *)
(* first served waiting room in which the TA keeps calling students.       *)
ImplementsWaitingRoom == Hallway!Spec

(* A student who took a seat is helped, gets past the semaphore and goes   *)
(* back to programming.                                                    *)
EveryVisitEnds ==
  \A s \in Students : student_pc[s] = "signalling" ~> student_pc[s] = "programming"

(* A student may leave while it is helped: its chair is cleared before the *)
(* help, and the permit it waits for may be the one ta_available begins    *)
(* with, or another student's.  It does not come back for another chair    *)
(* before the help is over, though, because the TA helps with the mutex    *)
(* locked (q1.c lines 96 to 114 and 143 to 174).                           *)
HelpedTakesNoSeat ==
  helping # Nobody =>
    /\ student_pc[helping] # "choosing"
    /\ ~student_already_waiting(helping)
=============================================================================
