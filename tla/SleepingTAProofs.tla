-------------------------- MODULE SleepingTAProofs --------------------------
(***************************************************************************)
(* For every number of students and of chairs: the hallway of q1.c is a    *)
(* ring, a student has one chair, neither semaphore loses or gains a       *)
(* permit, and what the threads do to the hallway is what the waiting room *)
(* promises.                                                               *)
(*                                                                         *)
(* None of the parts is an invariant alone.  The ring stays one when the   *)
(* TA calls a student only because somebody sits there, which the TA knows *)
(* from a semaphore and not from the number; the semaphores keep within    *)
(* their bounds only because of the number.                                *)
(***************************************************************************)
EXTENDS SleepingTA, RingLemmas

(* The type of what is assigned; the values of the semaphores are bounded  *)
(* by the accounting only.                                                 *)
FieldsOK ==
  /\ students_waiting \in Nat
  /\ ta_available \in Nat
  /\ mutex \in Students \cup {TA, Nobody}
  /\ waiting_room_chairs \in [Chairs -> Students \cup {Nobody}]
  /\ number_students_waiting \in 0 .. NUM_WAITING_CHAIRS
  /\ next_seat_available \in Chairs
  /\ next_student_getting_help \in Chairs
  /\ ta_is_asleep \in BOOLEAN
  /\ ta_pc \in {"looking", "napping", "waiting", "locking", "choosing", "helping", "posting"}
  /\ student_pc \in [Students -> {"checking", "programming", "locking", "choosing",
                                  "signalling", "waiting"}]
  /\ helping \in Students \cup {Nobody}

(* The TA has announced a student exactly while it helps one.              *)
HelpsSomebody == helping # Nobody <=> ta_pc = "helping"

IndInv ==
  /\ FieldsOK
  /\ HallwayIsRing
  /\ OneChairEach
  /\ SemaphoresAddUp
  /\ HelpsSomebody

(* Who is between lock and unlock has the mutex.                           *)
MutexIsHeld ==
  /\ ta_pc \in {"choosing", "helping"} => mutex = TA
  /\ \A s \in Students : student_pc[s] = "choosing" => mutex = s

(* The student that is helped has no chair.                                *)
HelpedHasNoChair == helping # Nobody => ~student_already_waiting(helping)

(* What keeps the helped student from the hallway.                         *)
HelpInv == MutexIsHeld /\ HelpedHasNoChair

(* The students at one of a set of places.                                 *)
In(L) == {s \in Students : student_pc[s] \in L}

-----------------------------------------------------------------------------
(* Nobody is not a student, and the students are finitely many.            *)
LEMMA StudentsAreFinite ==
  /\ Nobody \notin Students
  /\ IsFiniteSet(Students) /\ Cardinality(Students) = NUM_STUDENTS
  /\ \A L : IsFiniteSet(In(L)) /\ Cardinality(In(L)) \in 0 .. NUM_STUDENTS
<1>1. Nobody \notin Students
  BY NumberAssumption DEF Nobody, Students
<1>2. IsFiniteSet(Students) /\ Cardinality(Students) = NUM_STUDENTS
  BY FS_Interval, NumberAssumption DEF Students
<1>3. ASSUME NEW L
      PROVE  IsFiniteSet(In(L)) /\ Cardinality(In(L)) \in 0 .. NUM_STUDENTS
  <2>1. In(L) \subseteq Students
    BY DEF In
  <2>2. IsFiniteSet(In(L)) /\ Cardinality(In(L)) <= NUM_STUDENTS
    BY <1>2, <2>1, FS_Subset
  <2>3. Cardinality(In(L)) \in Nat
    BY <2>2, FS_CardinalityType
  <2> QED
    BY <2>2, <2>3, NumberAssumption
<1> QED
  BY <1>1, <1>2, <1>3

(* The two counts of the accounting, in terms of In, and their range.      *)
LEMMA CountsOfIn ==
  /\ At("signalling") = In({"signalling"})
  /\ At("signalling") \cup At("waiting") = In({"signalling", "waiting"})
  /\ Cardinality(At("signalling")) \in Nat
  /\ Cardinality(At("signalling") \cup At("waiting")) \in 0 .. NUM_STUDENTS
<1>1. /\ At("signalling") = In({"signalling"})
      /\ At("signalling") \cup At("waiting") = In({"signalling", "waiting"})
  BY DEF At, In
<1>2. /\ Cardinality(In({"signalling"})) \in 0 .. NUM_STUDENTS
      /\ Cardinality(In({"signalling", "waiting"})) \in 0 .. NUM_STUDENTS
  BY StudentsAreFinite
<1>3. Cardinality(In({"signalling"})) \in Nat
  BY <1>2
<1> QED
  BY <1>1, <1>2, <1>3

(* A student who moves changes the count of a set of places by leaving it  *)
(* and by entering it (the steps of student_function).                     *)
LEMMA MoveCounts ==
  ASSUME FieldsOK, NEW s \in Students, NEW from, NEW to, from # to,
         Moves(s, from, to), NEW L
  PROVE  Cardinality(In(L))' = Cardinality(In(L)) + If(to \in L) - If(from \in L)
<1>0. /\ student_pc[s] = from
      /\ student_pc' = [student_pc EXCEPT ![s] = to]
      /\ DOMAIN student_pc = Students
  BY DEF Moves, FieldsOK
<1>1. IsFiniteSet(In(L)) /\ Cardinality(In(L)) \in Nat
  BY StudentsAreFinite
<1>2. s \in In(L) <=> from \in L
  BY <1>0 DEF In
<1>3. CASE from \in L /\ to \in L
  <2>1. In(L)' = In(L)
    BY <1>0, <1>3 DEF In
  <2> QED
    BY <1>1, <1>3, <2>1 DEF If
<1>4. CASE from \in L /\ to \notin L
  <2>1. In(L)' = In(L) \ {s}
    BY <1>0, <1>4 DEF In
  <2>2. Cardinality(In(L) \ {s}) = Cardinality(In(L)) - 1
    BY <1>1, <1>2, <1>4, FS_RemoveElement
  <2> QED
    BY <1>1, <1>4, <2>1, <2>2 DEF If
<1>5. CASE from \notin L /\ to \in L
  <2>1. In(L)' = In(L) \cup {s}
    BY <1>0, <1>5 DEF In
  <2>2. Cardinality(In(L) \cup {s}) = Cardinality(In(L)) + 1
    BY <1>1, <1>2, <1>5, FS_AddElement
  <2> QED
    BY <1>1, <1>5, <2>1, <2>2 DEF If
<1>6. CASE from \notin L /\ to \notin L
  <2>1. In(L)' = In(L)
    BY <1>0, <1>6 DEF In
  <2> QED
    BY <1>1, <1>6, <2>1 DEF If
<1> QED
  BY <1>3, <1>4, <1>5, <1>6

(* Counting from the next student to help, every chair has one turn, and   *)
(* after all of them it is the first one's turn again.                     *)
LEMMA TurnOfChair ==
  ASSUME next_student_getting_help \in Chairs
  PROVE  /\ \A k \in 0 .. NUM_WAITING_CHAIRS :
              /\ ChairOfTurn(k) \in Chairs
              /\ ChairOfTurn(k) = IF next_student_getting_help + k < NUM_WAITING_CHAIRS
                                  THEN next_student_getting_help + k
                                  ELSE next_student_getting_help + k - NUM_WAITING_CHAIRS
         /\ \A j, k \in Chairs : ChairOfTurn(j) = ChairOfTurn(k) => j = k
         /\ \A c \in Chairs : \E k \in Chairs : ChairOfTurn(k) = c
         /\ ChairOfTurn(0) = next_student_getting_help
         /\ ChairOfTurn(NUM_WAITING_CHAIRS) = next_student_getting_help
<1> DEFINE h == next_student_getting_help
           n == NUM_WAITING_CHAIRS
<1>0. n \in Nat \ {0} /\ h \in 0 .. n - 1 /\ Chairs = 0 .. n - 1
  BY NumberAssumption DEF Chairs
<1>1. ASSUME NEW k \in 0 .. n
      PROVE  ChairOfTurn(k) = IF h + k < n THEN h + k ELSE h + k - n
  <2>1. \A j \in 0 .. n : (h + j) % n = IF h + j < n THEN h + j ELSE h + j - n
    BY <1>0, OffsetInRing
  <2> QED
    BY <2>1 DEF ChairOfTurn
<1>2. ASSUME NEW c \in Chairs
      PROVE  \E k \in Chairs : ChairOfTurn(k) = c
  <2>1. CASE c >= h
    <3>1. c - h \in Chairs /\ c - h \in 0 .. n /\ h + (c - h) = c /\ c < n
      BY <1>0, <2>1
    <3> QED
      BY <1>1, <3>1
  <2>2. CASE c < h
    <3>1. c - h + n \in Chairs
      BY <1>0, <2>2
    <3>2. PICK k \in Chairs : k = c - h + n
      BY <3>1
    <3>3. ~(h + k < n) /\ h + k - n = c /\ k \in 0 .. n
      BY <1>0, <3>2
    <3> QED
      BY <1>1, <3>3
  <2> QED
    BY <1>0, <2>1, <2>2
<1>3. ASSUME NEW k \in 0 .. n
      PROVE  ChairOfTurn(k) \in Chairs
  BY <1>0, <1>1
<1>4. ASSUME NEW j \in Chairs, NEW k \in Chairs, ChairOfTurn(j) = ChairOfTurn(k)
      PROVE  j = k
  <2>1. j \in 0 .. n - 1 /\ k \in 0 .. n - 1 /\ j \in 0 .. n /\ k \in 0 .. n
    BY <1>0
  <2> QED
    BY <1>0, <1>1, <1>4, <2>1
<1>5. ChairOfTurn(0) = h /\ ChairOfTurn(n) = h
  BY <1>0, <1>1
<1> QED
  BY <1>1, <1>2, <1>3, <1>4, <1>5

(* When the TA has called a student everybody is one turn nearer (q1.c     *)
(* line 109).                                                              *)
LEMMA TurnsAdvance ==
  ASSUME next_student_getting_help \in Chairs,
         next_student_getting_help' = (next_student_getting_help + 1) % NUM_WAITING_CHAIRS
  PROVE  /\ next_student_getting_help' \in Chairs
         /\ \A k \in Chairs : ChairOfTurn(k)' = ChairOfTurn(k + 1)
<1> DEFINE h == next_student_getting_help
           n == NUM_WAITING_CHAIRS
<1>0. n \in Nat \ {0} /\ h \in 0 .. n - 1 /\ Chairs = 0 .. n - 1
  BY NumberAssumption DEF Chairs
<1>1. h' = IF h + 1 = n THEN 0 ELSE h + 1
  <2>1. \A x \in 0 .. n - 1 : (x + 1) % n = IF x + 1 = n THEN 0 ELSE x + 1
    BY <1>0, NextIndex
  <2> QED
    BY <1>0, <2>1
<1>2. h' \in 0 .. n - 1
  BY <1>0, <1>1
<1>3. ASSUME NEW k \in Chairs
      PROVE  ChairOfTurn(k)' = ChairOfTurn(k + 1)
  <2>0. k \in 0 .. n - 1 /\ k + 1 \in 0 .. n /\ k \in 0 .. n
    BY <1>0
  <2>1. \A g \in 0 .. n - 1, j \in 0 .. n :
          (g + j) % n = IF g + j < n THEN g + j ELSE g + j - n
    BY <1>0, OffsetInRing
  <2>2. ChairOfTurn(k)' = IF h' + k < n THEN h' + k ELSE h' + k - n
    BY <1>2, <2>0, <2>1 DEF ChairOfTurn
  <2>3. ChairOfTurn(k + 1) = IF h + (k + 1) < n THEN h + (k + 1) ELSE h + (k + 1) - n
    BY <1>0, <2>0, <2>1 DEF ChairOfTurn
  <2> QED
    BY <1>0, <1>1, <2>0, <2>2, <2>3
<1> QED
  BY <1>0, <1>2, <1>3

(* The chair after that of a turn is that of the next turn (q1.c line      *)
(* 167).                                                                   *)
LEMMA SeatAdvances ==
  ASSUME next_student_getting_help \in Chairs, NEW k \in Chairs
  PROVE  (ChairOfTurn(k) + 1) % NUM_WAITING_CHAIRS = ChairOfTurn(k + 1)
<1> DEFINE h == next_student_getting_help
           n == NUM_WAITING_CHAIRS
<1>0. n \in Nat \ {0} /\ h \in 0 .. n - 1 /\ k \in 0 .. n - 1 /\ k + 1 \in 0 .. n
      /\ k \in 0 .. n /\ Chairs = 0 .. n - 1
  BY NumberAssumption DEF Chairs
<1>1. \A x \in 0 .. n - 1 : (x + 1) % n = IF x + 1 = n THEN 0 ELSE x + 1
  BY <1>0, NextIndex
<1>2. /\ ChairOfTurn(k) = IF h + k < n THEN h + k ELSE h + k - n
      /\ ChairOfTurn(k + 1) = IF h + (k + 1) < n THEN h + (k + 1) ELSE h + (k + 1) - n
      /\ ChairOfTurn(k) \in 0 .. n - 1
  BY <1>0, TurnOfChair
<1>3. (ChairOfTurn(k) + 1) % n = IF ChairOfTurn(k) + 1 = n THEN 0 ELSE ChairOfTurn(k) + 1
  BY <1>1, <1>2
<1> HIDE DEF h, n
<1> QED
  BY <1>0, <1>2, <1>3 DEF n

-----------------------------------------------------------------------------
(* The ring once a student has taken the next seat: that chair was free    *)
(* and is the only one to change (q1.c lines 156 to 167).                  *)
LEMMA SeatKeepsRing ==
  ASSUME FieldsOK, HallwayIsRing, NEW s \in Students, TakeSeat(s)
  PROVE  /\ number_students_waiting \in Chairs
         /\ waiting_room_chairs[next_seat_available] = Nobody
         /\ next_seat_available' \in Chairs
         /\ HallwayIsRing'
<1> DEFINE n == number_students_waiting
           h == next_student_getting_help
<1>0. /\ n \in Chairs /\ n + 1 \in 0 .. NUM_WAITING_CHAIRS /\ n' = n + 1
      /\ n \in 0 .. NUM_WAITING_CHAIRS /\ ~(n < n)
      /\ h \in Chairs /\ h' = h
      /\ waiting_room_chairs' = [waiting_room_chairs EXCEPT ![ChairOfTurn(n)] = s]
      /\ next_seat_available' = (ChairOfTurn(n) + 1) % NUM_WAITING_CHAIRS
      /\ DOMAIN waiting_room_chairs = Chairs
  BY NumberAssumption DEF FieldsOK, Chairs, TakeSeat, HallwayIsRing
<1>1. \A k : ChairOfTurn(k)' = ChairOfTurn(k)
  BY <1>0 DEF ChairOfTurn
<1>2. waiting_room_chairs[ChairOfTurn(n)] = Nobody
  BY <1>0 DEF HallwayIsRing
<1>3. next_seat_available' = ChairOfTurn(n + 1) /\ next_seat_available' \in Chairs
  BY <1>0, SeatAdvances, TurnOfChair
<1>4. ASSUME NEW k \in Chairs
      PROVE  waiting_room_chairs'[ChairOfTurn(k)] # Nobody <=> k < n + 1
  <2>0. /\ ChairOfTurn(k) \in Chairs
        /\ ChairOfTurn(n) \in Chairs
        /\ ChairOfTurn(k) = ChairOfTurn(n) => k = n
    <3>1. k \in 0 .. NUM_WAITING_CHAIRS
      BY NumberAssumption DEF Chairs
    <3> QED
      BY <1>0, <3>1, TurnOfChair
  <2>1. CASE k = n
    <3>1. k < n + 1
      BY <1>0, <2>1, NumberAssumption
    <3>2. waiting_room_chairs'[ChairOfTurn(k)] = s
      BY <1>0, <2>0, <2>1
    <3> QED
      BY <3>1, <3>2, StudentsAreFinite
  <2>2. CASE k # n
    <3>1. k < n + 1 <=> k < n
      BY <1>0, <2>2, NumberAssumption DEF Chairs
    <3>2. waiting_room_chairs'[ChairOfTurn(k)] = waiting_room_chairs[ChairOfTurn(k)]
      BY <1>0, <2>0, <2>2
    <3> QED
      BY <3>1, <3>2 DEF HallwayIsRing
  <2> QED
    BY <2>1, <2>2
<1>5. HallwayIsRing'
  BY <1>0, <1>1, <1>3, <1>4 DEF HallwayIsRing
<1>6. next_seat_available = ChairOfTurn(n)
  BY DEF HallwayIsRing
<1> QED
  BY <1>0, <1>2, <1>3, <1>5, <1>6

(* When the TA has the mutex and is to choose, somebody is in the hallway, *)
(* and in the chair it looks at.                                           *)
LEMMA SomebodyToHelp ==
  ASSUME IndInv, ta_pc = "choosing"
  PROVE  /\ number_students_waiting > 0
         /\ waiting_room_chairs[next_student_getting_help] \in Students
<1>1. number_students_waiting > 0
  <2>1. Cardinality(At("signalling")) \in Nat /\ students_waiting \in Nat
    BY StudentsAreFinite, CountsOfIn DEF IndInv, FieldsOK
  <2>2. number_students_waiting = students_waiting + Cardinality(At("signalling")) + 1
    BY DEF IndInv, SemaphoresAddUp, EverySeatSignalled, If
  <2> HIDE DEF IndInv
  <2> QED
    BY <2>1, <2>2
<1>2. 0 \in Chairs /\ ChairOfTurn(0) = next_student_getting_help
  BY TurnOfChair, NumberAssumption DEF Chairs, IndInv, FieldsOK
<1>3. waiting_room_chairs[next_student_getting_help] # Nobody
  BY <1>1, <1>2 DEF IndInv, HallwayIsRing
<1> QED
  BY <1>1, <1>3 DEF IndInv, FieldsOK

(* The ring once the TA has called a student: the first turn ends, and the *)
(* chair that is now last was the first (q1.c lines 102 to 109).           *)
LEMMA HelpKeepsRing ==
  ASSUME IndInv, TAStartsHelp
  PROVE  /\ next_student_getting_help' \in Chairs
         /\ HallwayIsRing'
<1> DEFINE n == number_students_waiting
           h == next_student_getting_help
<1>0. /\ n \in 1 .. NUM_WAITING_CHAIRS /\ n' = n - 1
      /\ h \in Chairs /\ h' = (h + 1) % NUM_WAITING_CHAIRS
      /\ waiting_room_chairs' = [waiting_room_chairs EXCEPT ![h] = Nobody]
      /\ next_seat_available' = next_seat_available
      /\ DOMAIN waiting_room_chairs = Chairs
  <2>1. n > 0
    BY SomebodyToHelp DEF TAStartsHelp, TAMoves
  <2> QED
    BY <2>1, NumberAssumption DEF IndInv, FieldsOK, TAStartsHelp
<1>1. n - 1 \in Chairs /\ (n - 1) + 1 = n
  BY <1>0, NumberAssumption DEF Chairs
<1>2. /\ h' \in Chairs
      /\ \A k \in Chairs : ChairOfTurn(k)' = ChairOfTurn(k + 1)
  BY <1>0, TurnsAdvance
<1>3. next_seat_available' = ChairOfTurn(n)'
  <2>1. PICK last \in Chairs : last = n - 1
    BY <1>1
  <2>2. ChairOfTurn(last)' = ChairOfTurn(last + 1) /\ last + 1 = n /\ n' = last
    BY <1>0, <1>1, <1>2, <2>1
  <2>3. ChairOfTurn(n)' = ChairOfTurn(last)'
    BY <2>2 DEF ChairOfTurn
  <2> QED
    BY <1>0, <2>2, <2>3 DEF IndInv, HallwayIsRing
<1>4. ASSUME NEW k \in Chairs
      PROVE  waiting_room_chairs'[ChairOfTurn(k)'] # Nobody <=> k < n'
  <2>0. ChairOfTurn(k)' = ChairOfTurn(k + 1)
    BY <1>2
  <2>1. CASE k + 1 = NUM_WAITING_CHAIRS
    <3>1. ~(k < n - 1)
      BY <1>0, <2>1, NumberAssumption DEF Chairs
    <3>2. ChairOfTurn(k + 1) = h
      BY <1>0, <2>1, TurnOfChair
    <3> QED
      BY <1>0, <2>0, <3>1, <3>2
  <2>2. CASE k + 1 # NUM_WAITING_CHAIRS
    <3>1. k + 1 \in Chairs /\ k + 1 # 0 /\ 0 \in Chairs
      BY <2>2, NumberAssumption DEF Chairs
    <3>2. k + 1 \in 0 .. NUM_WAITING_CHAIRS
      BY NumberAssumption DEF Chairs
    <3>3. ChairOfTurn(k + 1) # h /\ ChairOfTurn(k + 1) \in Chairs
      BY <1>0, <3>1, <3>2, TurnOfChair
    <3>4. waiting_room_chairs'[ChairOfTurn(k)'] = waiting_room_chairs[ChairOfTurn(k + 1)]
      BY <1>0, <2>0, <3>3
    <3>5. k + 1 < n <=> k < n - 1
      BY <1>0, NumberAssumption DEF Chairs
    <3> QED
      BY <1>0, <3>1, <3>4, <3>5 DEF IndInv, HallwayIsRing
  <2> QED
    BY <2>1, <2>2
<1> QED
  BY <1>2, <1>3, <1>4 DEF HallwayIsRing

-----------------------------------------------------------------------------
(* The initial states: an empty hallway, one permit and nobody on the way  *)
(* to a chair (q1.c lines 30 to 66).                                       *)
LEMMA InitEstablishesIndInv == Init => IndInv
<1> SUFFICES ASSUME Init PROVE IndInv
  OBVIOUS
<1>0. NUM_WAITING_CHAIRS \in Nat \ {0} /\ 0 \in Chairs
  BY NumberAssumption DEF Chairs
<1>1. FieldsOK
  <2>1. /\ waiting_room_chairs \in [Chairs -> Students \cup {Nobody}]
        /\ student_pc \in [Students -> {"checking", "programming", "locking", "choosing",
                                        "signalling", "waiting"}]
    BY DEF Init
  <2>2. number_students_waiting \in 0 .. NUM_WAITING_CHAIRS
    BY <1>0 DEF Init
  <2>3. students_waiting \in Nat /\ ta_available \in Nat
    BY DEF Init
  <2> QED
    BY <1>0, <2>1, <2>2, <2>3 DEF Init, FieldsOK
<1>2. HallwayIsRing
  <2>1. \A k \in Chairs : ChairOfTurn(k) \in Chairs /\ ~(k < 0)
    <3>1. \A k \in Chairs : k \in 0 .. NUM_WAITING_CHAIRS /\ ~(k < 0)
      BY <1>0 DEF Chairs
    <3> QED
      BY <1>0, <3>1, TurnOfChair DEF Init
  <2>2. ChairOfTurn(0) = 0
    BY <1>0, TurnOfChair DEF Init
  <2> QED
    BY <2>1, <2>2 DEF Init, HallwayIsRing
<1>3. OneChairEach
  BY StudentsAreFinite DEF Init, OneChairEach, student_already_waiting
<1>4. SemaphoresAddUp
  <2>1. In({"signalling"}) = {} /\ In({"signalling", "waiting"}) = {}
    BY DEF Init, In
  <2>2. Cardinality(In({"signalling"})) = 0 /\ Cardinality(In({"signalling", "waiting"})) = 0
    BY <2>1, FS_EmptySet
  <2>3. /\ Cardinality(At("signalling")) = 0
        /\ Cardinality(At("signalling") \cup At("waiting")) = 0
    BY <2>2, CountsOfIn
  <2>4. If(ta_pc \in {"locking", "choosing"}) = 0 /\ If(ta_pc \in {"helping", "posting"}) = 0
    BY DEF Init, If
  <2>5. number_students_waiting = 0 /\ students_waiting = 0 /\ ta_available = 1
    BY DEF Init
  <2> QED
    BY <2>3, <2>4, <2>5 DEF SemaphoresAddUp, EverySeatSignalled, PermitsAddUp
<1>5. HelpsSomebody
  BY DEF Init, HelpsSomebody
<1> QED
  BY <1>1, <1>2, <1>3, <1>4, <1>5 DEF IndInv

(* A step that moves no student changes neither count.                     *)
LEMMA CountsStay ==
  ASSUME student_pc' = student_pc
  PROVE  /\ Cardinality(At("signalling")) \in Nat
         /\ Cardinality(At("signalling") \cup At("waiting")) \in Nat
         /\ Cardinality(At("signalling"))' = Cardinality(At("signalling"))
         /\ Cardinality(At("signalling") \cup At("waiting"))'
              = Cardinality(At("signalling") \cup At("waiting"))
<1>1. /\ At("signalling")' = At("signalling")
      /\ (At("signalling") \cup At("waiting"))' = At("signalling") \cup At("waiting")
  BY DEF At
<1>2. Cardinality(At("signalling") \cup At("waiting")) \in Nat
  BY CountsOfIn
<1> QED
  BY <1>1, <1>2, CountsOfIn

(* The same for a student who moves, in terms of both counts.              *)
LEMMA CountsChange ==
  ASSUME FieldsOK, NEW s \in Students, NEW from, NEW to, from # to, Moves(s, from, to)
  PROVE  /\ Cardinality(At("signalling")) \in Nat
         /\ Cardinality(At("signalling") \cup At("waiting")) \in Nat
         /\ Cardinality(At("signalling"))'
              = Cardinality(At("signalling"))
                  + (IF to = "signalling" THEN 1 ELSE 0)
                  - (IF from = "signalling" THEN 1 ELSE 0)
         /\ Cardinality(At("signalling") \cup At("waiting"))'
              = Cardinality(At("signalling") \cup At("waiting"))
                  + (IF to = "signalling" \/ to = "waiting" THEN 1 ELSE 0)
                  - (IF from = "signalling" \/ from = "waiting" THEN 1 ELSE 0)
<1>1. ASSUME NEW L
      PROVE  /\ Cardinality(In(L)) \in Nat
             /\ Cardinality(In(L))' = Cardinality(In(L)) + (IF to \in L THEN 1 ELSE 0)
                                                        - (IF from \in L THEN 1 ELSE 0)
  BY MoveCounts, StudentsAreFinite DEF If
<1>2. (At("signalling") \cup At("waiting"))' = In({"signalling", "waiting"})'
  BY DEF At, In
<1>3. At("signalling")' = In({"signalling"})'
  BY DEF At, In
<1>4. /\ Cardinality(In({"signalling"})) \in Nat
      /\ Cardinality(In({"signalling"}))'
           = Cardinality(In({"signalling"})) + (IF to = "signalling" THEN 1 ELSE 0)
                                             - (IF from = "signalling" THEN 1 ELSE 0)
  BY <1>1
<1>5. /\ Cardinality(In({"signalling", "waiting"})) \in Nat
      /\ Cardinality(In({"signalling", "waiting"}))'
           = Cardinality(In({"signalling", "waiting"}))
               + (IF to = "signalling" \/ to = "waiting" THEN 1 ELSE 0)
               - (IF from = "signalling" \/ from = "waiting" THEN 1 ELSE 0)
  BY <1>1
<1> QED
  BY <1>2, <1>3, <1>4, <1>5, CountsOfIn

(* A step of a student outside the hallway: programming, the mutex, and    *)
(* the way back from a full hallway (q1.c lines 143 to 154 and 179).       *)
LEMMA OutsideKeepsIndInv ==
  ASSUME IndInv, NEW s \in Students,
         StartProgramming(s) \/ FinishProgramming(s) \/ StudentLocks(s) \/ TryLater(s)
  PROVE  IndInv'
<1>0. PICK from \in {"checking", "programming", "locking", "choosing"},
           to \in {"checking", "programming", "locking", "choosing"} :
        /\ from # to
        /\ Moves(s, from, to)
        /\ to = "checking" \/ ~student_already_waiting(s)
  BY DEF IndInv, OneChairEach, StartProgramming, FinishProgramming, StudentLocks, TryLater, Moves
<1>1. UNCHANGED <<semaphores, hallway, ta>> /\ mutex' \in Students \cup {TA, Nobody}
  BY DEF IndInv, FieldsOK, StartProgramming, FinishProgramming, StudentLocks, TryLater, Moves
<1> USE DEF semaphores, hallway, ta
<1>2. FieldsOK'
  BY <1>0, <1>1 DEF IndInv, FieldsOK, Moves
<1>3. HallwayIsRing'
  BY <1>1 DEF IndInv, HallwayIsRing, ChairOfTurn
<1>4. OneChairEach'
  BY <1>0, <1>1 DEF IndInv, FieldsOK, OneChairEach, student_already_waiting, Moves
<1>5. SemaphoresAddUp'
  <2>1. /\ Cardinality(At("signalling"))' = Cardinality(At("signalling"))
        /\ Cardinality(At("signalling") \cup At("waiting"))'
             = Cardinality(At("signalling") \cup At("waiting"))
    <3>1. /\ from # "signalling" /\ from # "waiting"
          /\ to # "signalling" /\ to # "waiting"
      OBVIOUS
    <3>2. /\ Cardinality(At("signalling")) \in Nat
          /\ Cardinality(At("signalling") \cup At("waiting")) \in Nat
          /\ Cardinality(At("signalling"))' = Cardinality(At("signalling")) + 0 - 0
          /\ Cardinality(At("signalling") \cup At("waiting"))'
               = Cardinality(At("signalling") \cup At("waiting")) + 0 - 0
      <4>1. FieldsOK
        BY DEF IndInv
      <4> QED
        BY <1>0, <3>1, <4>1, CountsChange
    <3> QED
      BY <3>2
  <2> QED
    BY <1>1, <2>1 DEF IndInv, SemaphoresAddUp, EverySeatSignalled, PermitsAddUp
<1>6. HelpsSomebody'
  BY <1>1 DEF IndInv, HelpsSomebody
<1> QED
  BY <1>2, <1>3, <1>4, <1>5, <1>6 DEF IndInv

(* A student takes a seat: it has none yet, because with one it would not  *)
(* have come as far as the mutex (q1.c lines 156 to 169).                  *)
LEMMA TakeSeatKeepsIndInv ==
  ASSUME IndInv, NEW s \in Students, TakeSeat(s)
  PROVE  IndInv'
<1>0. /\ FieldsOK /\ HallwayIsRing /\ OneChairEach
      /\ Moves(s, "choosing", "signalling")
      /\ number_students_waiting' = number_students_waiting + 1
      /\ waiting_room_chairs' = [waiting_room_chairs EXCEPT ![next_seat_available] = s]
      /\ mutex' = Nobody
      /\ UNCHANGED <<students_waiting, ta_available, next_student_getting_help, ta>>
  BY DEF IndInv, TakeSeat, Moves, semaphores
<1>1. /\ number_students_waiting \in Chairs
      /\ waiting_room_chairs[next_seat_available] = Nobody
      /\ next_seat_available' \in Chairs
      /\ HallwayIsRing'
  BY <1>0, SeatKeepsRing
<1>2. FieldsOK'
  <2>1. number_students_waiting' \in 0 .. NUM_WAITING_CHAIRS
    BY <1>0, <1>1, NumberAssumption DEF Chairs
  <2>2. waiting_room_chairs' \in [Chairs -> Students \cup {Nobody}]
    BY <1>0 DEF FieldsOK
  <2>3. student_pc' \in [Students -> {"checking", "programming", "locking", "choosing",
                                     "signalling", "waiting"}]
    BY <1>0 DEF FieldsOK, Moves
  <2> QED
    BY <1>0, <1>1, <2>1, <2>2, <2>3 DEF FieldsOK, ta
<1>3. OneChairEach'
  <2>1. /\ student_pc[s] = "choosing"
        /\ student_pc' = [student_pc EXCEPT ![s] = "signalling"]
        /\ student_pc'[s] = "signalling"
        /\ next_seat_available \in Chairs
        /\ waiting_room_chairs \in [Chairs -> Students \cup {Nobody}]
    BY <1>0 DEF Moves, FieldsOK
  <2>2. \A c \in Chairs : waiting_room_chairs[c] # s
    BY <1>0, <2>1 DEF OneChairEach, student_already_waiting
  <2>3. \A c \in Chairs : waiting_room_chairs'[c]
                            = IF c = next_seat_available THEN s ELSE waiting_room_chairs[c]
    BY <1>0, <2>1
  <2>4. \A c, d \in Chairs :
          /\ waiting_room_chairs'[c] # Nobody
          /\ waiting_room_chairs'[c] = waiting_room_chairs'[d]
          => c = d
    BY <1>0, <2>2, <2>3 DEF OneChairEach
  <2>5. ASSUME NEW t \in Students, student_already_waiting(t)'
        PROVE  student_pc'[t] \in {"signalling", "waiting", "checking"}
    <3>1. CASE t = s
      BY <2>1, <3>1
    <3>2. CASE t # s
      <4>1. student_already_waiting(t)
        BY <2>3, <2>5, <3>2 DEF student_already_waiting
      <4>2. student_pc'[t] = student_pc[t]
        BY <2>1, <3>2
      <4> QED
        BY <1>0, <4>1, <4>2 DEF OneChairEach
    <3> QED
      BY <3>1, <3>2
  <2> QED
    BY <2>4, <2>5 DEF OneChairEach
<1>4. SemaphoresAddUp'
  <2>1. /\ Cardinality(At("signalling")) \in Nat
        /\ Cardinality(At("signalling") \cup At("waiting")) \in Nat
        /\ Cardinality(At("signalling"))' = Cardinality(At("signalling")) + 1 - 0
        /\ Cardinality(At("signalling") \cup At("waiting"))'
             = Cardinality(At("signalling") \cup At("waiting")) + 1 - 0
    BY <1>0, CountsChange
  <2>2. /\ If(ta_pc \in {"locking", "choosing"})' = If(ta_pc \in {"locking", "choosing"})
        /\ If(ta_pc \in {"helping", "posting"})' = If(ta_pc \in {"helping", "posting"})
        /\ If(ta_pc \in {"locking", "choosing"}) \in Nat
        /\ If(ta_pc \in {"helping", "posting"}) \in Nat
        /\ number_students_waiting \in Nat /\ students_waiting \in Nat /\ ta_available \in Nat
    BY <1>0 DEF If, ta, FieldsOK
  <2>3. EverySeatSignalled'
    BY <1>0, <2>1, <2>2 DEF IndInv, SemaphoresAddUp, EverySeatSignalled
  <2>4. PermitsAddUp'
    BY <1>0, <2>1, <2>2 DEF IndInv, SemaphoresAddUp, PermitsAddUp
  <2> QED
    BY <2>3, <2>4 DEF SemaphoresAddUp
<1>5. HelpsSomebody'
  BY <1>0 DEF IndInv, HelpsSomebody, ta
<1> QED
  BY <1>1, <1>2, <1>3, <1>4, <1>5 DEF IndInv

(* The two semaphore calls of a student: the seat taken becomes a permit   *)
(* of students_waiting, and a permit of ta_available lets the student go,  *)
(* who may still have the chair (q1.c lines 172 and 174).                  *)
LEMMA SemaphoreKeepsIndInv ==
  ASSUME IndInv, NEW s \in Students, Signal(s) \/ AwaitTA(s)
  PROVE  IndInv'
<1>0. /\ FieldsOK
      /\ UNCHANGED <<mutex, hallway, ta>>
      /\ student_pc' \in [Students -> {"checking", "programming", "locking", "choosing",
                                      "signalling", "waiting"}]
      /\ \A t \in Students : \/ student_pc'[t] = student_pc[t]
                             \/ student_pc'[t] \in {"waiting", "checking"}
  BY DEF IndInv, FieldsOK, Signal, AwaitTA, Moves
<1> USE DEF hallway, ta
<1>1. FieldsOK'
  <2>1. students_waiting' \in Nat /\ ta_available' \in Nat
    BY <1>0 DEF FieldsOK, Signal, AwaitTA
  <2> QED
    BY <1>0, <2>1 DEF FieldsOK
<1>2. HallwayIsRing'
  BY <1>0 DEF IndInv, HallwayIsRing, ChairOfTurn
<1>3. OneChairEach'
  BY <1>0 DEF IndInv, OneChairEach, student_already_waiting
<1>4. SemaphoresAddUp'
  <2>0. /\ If(ta_pc \in {"locking", "choosing"})' = If(ta_pc \in {"locking", "choosing"})
        /\ If(ta_pc \in {"helping", "posting"})' = If(ta_pc \in {"helping", "posting"})
        /\ If(ta_pc \in {"locking", "choosing"}) \in Nat
        /\ If(ta_pc \in {"helping", "posting"}) \in Nat
        /\ number_students_waiting \in Nat /\ students_waiting \in Nat /\ ta_available \in Nat
    BY <1>0 DEF If, FieldsOK
  <2>1. CASE Signal(s)
    <3>1. /\ Cardinality(At("signalling")) \in Nat
          /\ Cardinality(At("signalling") \cup At("waiting")) \in Nat
          /\ Cardinality(At("signalling"))' = Cardinality(At("signalling")) + 0 - 1
          /\ Cardinality(At("signalling") \cup At("waiting"))'
               = Cardinality(At("signalling") \cup At("waiting")) + 1 - 1
      BY <1>0, <2>1, CountsChange DEF Signal
    <3>2. students_waiting' = students_waiting + 1 /\ ta_available' = ta_available
      BY <2>1 DEF Signal
    <3> QED
      BY <1>0, <2>0, <3>1, <3>2 DEF IndInv, SemaphoresAddUp, EverySeatSignalled, PermitsAddUp
  <2>2. CASE AwaitTA(s)
    <3>1. /\ Cardinality(At("signalling")) \in Nat
          /\ Cardinality(At("signalling") \cup At("waiting")) \in Nat
          /\ Cardinality(At("signalling"))' = Cardinality(At("signalling")) + 0 - 0
          /\ Cardinality(At("signalling") \cup At("waiting"))'
               = Cardinality(At("signalling") \cup At("waiting")) + 0 - 1
      BY <1>0, <2>2, CountsChange DEF AwaitTA
    <3>2. students_waiting' = students_waiting /\ ta_available' = ta_available - 1
      BY <2>2 DEF AwaitTA
    <3> QED
      BY <1>0, <2>0, <3>1, <3>2 DEF IndInv, SemaphoresAddUp, EverySeatSignalled, PermitsAddUp
  <2> QED
    BY <2>1, <2>2
<1>5. HelpsSomebody'
  BY <1>0 DEF IndInv, HelpsSomebody
<1> QED
  BY <1>1, <1>2, <1>3, <1>4, <1>5 DEF IndInv

(* The TA calls a student: the permit it took of students_waiting is spent *)
(* on the chair it frees, in one piece (q1.c lines 102 to 109).            *)
LEMMA StartHelpKeepsIndInv ==
  ASSUME IndInv, TAStartsHelp
  PROVE  IndInv'
<1>0. /\ FieldsOK /\ OneChairEach
      /\ ta_pc = "choosing" /\ ta_pc' = "helping"
      /\ helping' = waiting_room_chairs[next_student_getting_help]
      /\ number_students_waiting' = number_students_waiting - 1
      /\ waiting_room_chairs' =
           [waiting_room_chairs EXCEPT ![next_student_getting_help] = Nobody]
      /\ UNCHANGED <<semaphores, mutex, next_seat_available, ta_is_asleep, student_pc>>
  BY DEF IndInv, TAStartsHelp, TAMoves
<1>1. /\ number_students_waiting > 0
      /\ waiting_room_chairs[next_student_getting_help] \in Students
  BY <1>0, SomebodyToHelp
<1>2. /\ next_student_getting_help' \in Chairs
      /\ HallwayIsRing'
  BY HelpKeepsRing
<1>3. FieldsOK'
  <2>1. number_students_waiting' \in 0 .. NUM_WAITING_CHAIRS
    BY <1>0, <1>1, NumberAssumption DEF FieldsOK
  <2>2. waiting_room_chairs' \in [Chairs -> Students \cup {Nobody}]
    BY <1>0 DEF FieldsOK
  <2> QED
    BY <1>0, <1>1, <1>2, <2>1, <2>2 DEF FieldsOK, semaphores
<1>4. OneChairEach'
  <2>1. \A c \in Chairs : \/ waiting_room_chairs'[c] = waiting_room_chairs[c]
                          \/ waiting_room_chairs'[c] = Nobody
    BY <1>0 DEF FieldsOK
  <2> QED
    BY <1>0, <2>1, StudentsAreFinite DEF OneChairEach, student_already_waiting
<1>5. SemaphoresAddUp'
  <2>1. /\ If(ta_pc \in {"locking", "choosing"}) = 1
        /\ If(ta_pc \in {"locking", "choosing"})' = 0
        /\ If(ta_pc \in {"helping", "posting"}) = 0
        /\ If(ta_pc \in {"helping", "posting"})' = 1
    BY <1>0 DEF If
  <2>2. /\ Cardinality(At("signalling")) \in Nat
        /\ Cardinality(At("signalling") \cup At("waiting")) \in Nat
        /\ Cardinality(At("signalling"))' = Cardinality(At("signalling"))
        /\ Cardinality(At("signalling") \cup At("waiting"))'
             = Cardinality(At("signalling") \cup At("waiting"))
    BY <1>0, CountsStay
  <2>3. number_students_waiting \in Nat /\ students_waiting \in Nat /\ ta_available \in Nat
    BY <1>0 DEF FieldsOK
  <2> QED
    BY <1>0, <2>1, <2>2, <2>3
       DEF IndInv, SemaphoresAddUp, EverySeatSignalled, PermitsAddUp, semaphores
<1>6. HelpsSomebody'
  BY <1>0, <1>1, StudentsAreFinite DEF HelpsSomebody
<1> QED
  BY <1>2, <1>3, <1>4, <1>5, <1>6 DEF IndInv

(* The other steps of the TA leave the hallway alone; what it takes from   *)
(* one semaphore and gives to the other is counted by its place (q1.c      *)
(* lines 87 to 96, 114 to 128).                                            *)
LEMMA OtherTAStepsKeepIndInv ==
  ASSUME IndInv,
         \/ TASeesStudents \/ TASeesNobody \/ TAWakes \/ TAWaits
         \/ TALocks \/ TAFinishesHelp \/ TAPosts
  PROVE  IndInv'
<1>0. /\ FieldsOK
      /\ UNCHANGED <<hallway, student_pc>>
      /\ mutex' \in Students \cup {TA, Nobody}
      /\ ta_is_asleep' \in BOOLEAN
      /\ ta_pc' \in {"looking", "napping", "waiting", "locking", "choosing", "helping", "posting"}
      /\ students_waiting' \in Nat /\ ta_available' \in Nat
      /\ helping' \in Students \cup {Nobody}
  <2> USE DEF IndInv, FieldsOK, TAMoves, semaphores
  <2>1. CASE TASeesStudents \/ TASeesNobody \/ TAWakes
    BY <2>1 DEF TASeesStudents, TASeesNobody, TAWakes
  <2>2. CASE TAWaits
    <3>1. students_waiting' \in Nat
      BY <2>2 DEF TAWaits
    <3> QED
      BY <2>2, <3>1 DEF TAWaits
  <2>3. CASE TALocks \/ TAFinishesHelp
    BY <2>3 DEF TALocks, TAFinishesHelp
  <2>4. CASE TAPosts
    <3>1. ta_available' \in Nat
      BY <2>4 DEF TAPosts
    <3> QED
      BY <2>4, <3>1 DEF TAPosts
  <2> QED
    BY <2>1, <2>2, <2>3, <2>4
<1> USE DEF hallway
<1>1. FieldsOK'
  BY <1>0 DEF FieldsOK
<1>2. HallwayIsRing'
  BY <1>0 DEF IndInv, HallwayIsRing, ChairOfTurn
<1>3. OneChairEach'
  BY <1>0 DEF IndInv, OneChairEach, student_already_waiting
<1>4. SemaphoresAddUp'
  <2>1. /\ students_waiting' + If(ta_pc \in {"locking", "choosing"})'
             = students_waiting + If(ta_pc \in {"locking", "choosing"})
        /\ ta_available' + If(ta_pc \in {"helping", "posting"})'
             = ta_available + If(ta_pc \in {"helping", "posting"})
        /\ If(ta_pc \in {"locking", "choosing"}) \in Nat
        /\ If(ta_pc \in {"locking", "choosing"})' \in Nat
        /\ If(ta_pc \in {"helping", "posting"}) \in Nat
        /\ If(ta_pc \in {"helping", "posting"})' \in Nat
    <3>1. CASE TASeesStudents \/ TASeesNobody \/ TAWakes \/ TALocks \/ TAFinishesHelp
      BY <1>0, <3>1 DEF If, TAMoves, TASeesStudents, TASeesNobody, TAWakes, TALocks,
                        TAFinishesHelp, semaphores, FieldsOK
    <3>2. CASE TAWaits
      BY <1>0, <3>2 DEF If, TAMoves, TAWaits, FieldsOK
    <3>3. CASE TAPosts
      BY <1>0, <3>3 DEF If, TAMoves, TAPosts, FieldsOK
    <3> QED
      BY <3>1, <3>2, <3>3
  <2>2. /\ Cardinality(At("signalling")) \in Nat
        /\ Cardinality(At("signalling") \cup At("waiting")) \in Nat
        /\ Cardinality(At("signalling"))' = Cardinality(At("signalling"))
        /\ Cardinality(At("signalling") \cup At("waiting"))'
             = Cardinality(At("signalling") \cup At("waiting"))
    BY <1>0, CountsStay
  <2>3. /\ number_students_waiting' = number_students_waiting
        /\ number_students_waiting \in Nat /\ students_waiting \in Nat /\ ta_available \in Nat
    BY <1>0 DEF FieldsOK
  <2>4. students_waiting' \in Nat /\ ta_available' \in Nat
    BY <1>0
  <2>5. EverySeatSignalled /\ PermitsAddUp
    BY DEF IndInv, SemaphoresAddUp
  <2>6. EverySeatSignalled'
    BY <2>1, <2>2, <2>3, <2>4, <2>5 DEF EverySeatSignalled
  <2>7. PermitsAddUp'
    BY <2>1, <2>2, <2>3, <2>4, <2>5 DEF PermitsAddUp
  <2> QED
    BY <2>6, <2>7 DEF SemaphoresAddUp
<1>5. HelpsSomebody'
  BY DEF IndInv, HelpsSomebody, TAMoves, TASeesStudents, TASeesNobody, TAWakes, TAWaits, TALocks,
         TAFinishesHelp, TAPosts
<1> QED
  BY <1>1, <1>2, <1>3, <1>4, <1>5 DEF IndInv

(* Every step keeps the invariant.                                         *)
LEMMA NextKeepsIndInv == IndInv /\ [Next]_vars => IndInv'
<1> SUFFICES ASSUME IndInv, [Next]_vars PROVE IndInv'
  OBVIOUS
<1>1. CASE ta_function
  BY <1>1, StartHelpKeepsIndInv, OtherTAStepsKeepIndInv DEF ta_function
<1>2. ASSUME NEW s \in Students, student_function(s) PROVE IndInv'
  BY <1>2, OutsideKeepsIndInv, TakeSeatKeepsIndInv, SemaphoreKeepsIndInv DEF student_function
<1>3. CASE UNCHANGED vars
  BY <1>3 DEF vars, semaphores, hallway, ta, IndInv, FieldsOK, HallwayIsRing, ChairOfTurn,
              OneChairEach, student_already_waiting, SemaphoresAddUp, EverySeatSignalled,
              PermitsAddUp, At, HelpsSomebody
<1> QED
  BY <1>1, <1>2, <1>3 DEF Next

(* It holds in every reachable state.                                      *)
LEMMA IndInvHolds == SafeSpec => []IndInv
  BY InitEstablishesIndInv, NextKeepsIndInv, PTL DEF SafeSpec

-----------------------------------------------------------------------------
(* The semaphores never exceed the number of chairs and of students: their *)
(* bounds follow from the accounting.                                      *)
LEMMA IndInvBoundsSemaphores == IndInv => TypeOK
<1> SUFFICES ASSUME IndInv PROVE TypeOK
  OBVIOUS
<1> DEFINE signalling == Cardinality(At("signalling"))
           both       == Cardinality(At("signalling") \cup At("waiting"))
<1>1. signalling \in Nat /\ both \in 0 .. NUM_STUDENTS
  BY CountsOfIn
<1>2. /\ If(ta_pc \in {"locking", "choosing"}) \in Nat
      /\ If(ta_pc \in {"helping", "posting"}) \in Nat
  BY DEF If
<1>3. /\ students_waiting \in Nat /\ ta_available \in Nat
      /\ number_students_waiting \in 0 .. NUM_WAITING_CHAIRS
      /\ number_students_waiting = students_waiting + signalling
                                     + If(ta_pc \in {"locking", "choosing"})
      /\ ta_available + number_students_waiting + If(ta_pc \in {"helping", "posting"})
           = 1 + both
  BY DEF IndInv, FieldsOK, SemaphoresAddUp, EverySeatSignalled, PermitsAddUp
<1>4. students_waiting \in 0 .. NUM_WAITING_CHAIRS /\ ta_available \in 0 .. NUM_STUDENTS + 1
  <2> HIDE DEF signalling, both
  <2> QED
    BY <1>1, <1>2, <1>3, NumberAssumption
<1> QED
  BY <1>4 DEF IndInv, FieldsOK, TypeOK

(* Both semaphores stay within the bounds that the chairs and the students *)
(* give them, and every variable keeps its type.                           *)
THEOREM TypeCorrect == SafeSpec => []TypeOK
  BY IndInvHolds, IndInvBoundsSemaphores, PTL

(* Counting from the next student to help, the chairs taken come first, so *)
(* no newcomer overwrites a student and no student is passed by (q1.c      *)
(* lines 102 to 109 and 156 to 167).                                       *)
THEOREM RingIsKept == SafeSpec => []HallwayIsRing
  BY IndInvHolds, PTL DEF IndInv

(* The unlocked scan of student_already_waiting keeps every student from a *)
(* second chair (q1.c lines 143 and 188 to 199).                           *)
THEOREM NoSecondChair == SafeSpec => []OneChairEach
  BY IndInvHolds, PTL DEF IndInv

(* No signal of either semaphore is lost or counted twice (q1.c lines 87   *)
(* to 115 and 154 to 174).                                                 *)
THEOREM NoSignalLost == SafeSpec => []SemaphoresAddUp
  BY IndInvHolds, PTL DEF IndInv

-----------------------------------------------------------------------------
(* Nobody, the TA and the students are different owners of the mutex.      *)
LEMMA OwnersDiffer == TA # Nobody /\ TA \notin Students /\ Nobody \notin Students
  BY NumberAssumption DEF TA, Nobody, Students

(* At the start nobody is helped, and nobody has the mutex.                *)
LEMMA InitEstablishesHelpInv == Init => HelpInv
  BY DEF Init, HelpInv, MutexIsHeld, HelpedHasNoChair

(* Calling a student clears the only chair it has (q1.c lines 102 to 104). *)
LEMMA StartHelpKeepsHelpInv ==
  ASSUME IndInv, HelpInv, TAStartsHelp
  PROVE  HelpInv'
<1> DEFINE h == next_student_getting_help
<1>0. /\ ta_pc = "choosing" /\ mutex' = mutex /\ student_pc' = student_pc
      /\ helping' = waiting_room_chairs[h]
      /\ waiting_room_chairs' = [waiting_room_chairs EXCEPT ![h] = Nobody]
  BY DEF TAStartsHelp, TAMoves
<1>1. MutexIsHeld'
  BY <1>0 DEF HelpInv, MutexIsHeld
<1>2. /\ waiting_room_chairs \in [Chairs -> Students \cup {Nobody}]
      /\ h \in Chairs
  BY DEF IndInv, FieldsOK
<1> HIDE DEF h
<1>3. ASSUME helping' # Nobody, NEW c \in Chairs, waiting_room_chairs'[c] = helping'
      PROVE  FALSE
  <2>1. c # h
    BY <1>0, <1>2, <1>3
  <2>2. waiting_room_chairs[c] = waiting_room_chairs[h] /\ waiting_room_chairs[c] # Nobody
    BY <1>0, <1>2, <1>3, <2>1
  <2> QED
    BY <1>2, <2>1, <2>2 DEF IndInv, OneChairEach
<1> QED
  BY <1>1, <1>3 DEF HelpInv, HelpedHasNoChair, student_already_waiting

(* The other steps of the TA call nobody, and it lets the mutex go when it *)
(* has finished (q1.c line 114).                                           *)
LEMMA OtherTAStepsKeepHelpInv ==
  ASSUME IndInv, HelpInv,
         \/ TASeesStudents \/ TASeesNobody \/ TAWakes \/ TAWaits
         \/ TALocks \/ TAFinishesHelp \/ TAPosts
  PROVE  HelpInv'
<1>1. /\ student_pc' = student_pc /\ waiting_room_chairs' = waiting_room_chairs
      /\ helping' = helping \/ helping' = Nobody
  BY DEF TASeesStudents, TASeesNobody, TAWakes, TAWaits, TALocks, TAFinishesHelp, TAPosts,
         TAMoves, hallway
<1>2. HelpedHasNoChair'
  BY <1>1 DEF HelpInv, HelpedHasNoChair, student_already_waiting
<1>3. CASE TALocks
  <2>1. mutex = Nobody /\ mutex' = TA
    BY <1>3 DEF TALocks
  <2>2. MutexIsHeld'
    BY <1>1, <2>1, OwnersDiffer DEF HelpInv, MutexIsHeld
  <2> QED
    BY <1>2, <2>2 DEF HelpInv
<1>4. CASE TAFinishesHelp
  <2>1. ta_pc = "helping" /\ ta_pc' = "posting"
    BY <1>4 DEF TAFinishesHelp, TAMoves
  <2>2. MutexIsHeld'
    BY <1>1, <2>1, OwnersDiffer DEF HelpInv, MutexIsHeld
  <2> QED
    BY <1>2, <2>2 DEF HelpInv
<1>5. CASE TASeesStudents \/ TASeesNobody \/ TAWakes \/ TAWaits \/ TAPosts
  <2>1. mutex' = mutex /\ ta_pc' \in {"waiting", "napping", "looking", "locking"}
    BY <1>5 DEF TASeesStudents, TASeesNobody, TAWakes, TAWaits, TAPosts, TAMoves
  <2>2. MutexIsHeld'
    BY <1>1, <2>1 DEF HelpInv, MutexIsHeld
  <2> QED
    BY <1>2, <2>2 DEF HelpInv
<1> QED
  BY <1>3, <1>4, <1>5

(* A student takes a seat with the mutex, so nobody is being helped then   *)
(* (q1.c lines 154 to 179).                                                *)
LEMMA StudentKeepsHelpInv ==
  ASSUME IndInv, HelpInv, NEW s \in Students, student_function(s)
  PROVE  HelpInv'
<1>0. /\ ta_pc' = ta_pc /\ helping' = helping
      /\ student_pc \in [Students -> {"checking", "programming", "locking", "choosing",
                                      "signalling", "waiting"}]
  BY DEF student_function, StartProgramming, FinishProgramming, StudentLocks, TakeSeat,
         TryLater, Signal, AwaitTA, Moves, ta, IndInv, FieldsOK
<1>1. CASE StudentLocks(s)
  <2>1. /\ mutex = Nobody /\ mutex' = s
        /\ student_pc' = [student_pc EXCEPT ![s] = "choosing"]
        /\ waiting_room_chairs' = waiting_room_chairs
    BY <1>1 DEF StudentLocks, Moves, hallway
  <2>2. MutexIsHeld'
    BY <1>0, <2>1, OwnersDiffer DEF HelpInv, MutexIsHeld
  <2> QED
    BY <1>0, <2>1, <2>2 DEF HelpInv, HelpedHasNoChair, student_already_waiting
<1>2. CASE TakeSeat(s) \/ TryLater(s)
  <2>1. /\ student_pc[s] = "choosing" /\ mutex' = Nobody
        /\ student_pc' = [student_pc EXCEPT ![s] = "signalling"]
           \/ student_pc' = [student_pc EXCEPT ![s] = "checking"]
    BY <1>2 DEF TakeSeat, TryLater, Moves
  <2>2. mutex = s /\ ta_pc \notin {"choosing", "helping"}
    BY <2>1, OwnersDiffer DEF HelpInv, MutexIsHeld
  <2>3. \A t \in Students : student_pc'[t] # "choosing"
    BY <1>0, <2>1, <2>2 DEF HelpInv, MutexIsHeld
  <2>4. MutexIsHeld'
    BY <1>0, <2>2, <2>3 DEF MutexIsHeld
  <2>5. helping = Nobody
    BY <2>2 DEF IndInv, HelpsSomebody
  <2> QED
    BY <1>0, <2>4, <2>5 DEF HelpInv, HelpedHasNoChair
<1>3. CASE StartProgramming(s) \/ FinishProgramming(s) \/ Signal(s) \/ AwaitTA(s)
  <2>1. /\ mutex' = mutex /\ waiting_room_chairs' = waiting_room_chairs
        /\ \E to \in {"programming", "locking", "waiting", "checking"} :
             student_pc' = [student_pc EXCEPT ![s] = to]
    BY <1>3 DEF StartProgramming, FinishProgramming, Signal, AwaitTA, Moves, hallway
  <2>2. MutexIsHeld'
    BY <1>0, <2>1 DEF HelpInv, MutexIsHeld
  <2> QED
    BY <1>0, <2>1, <2>2 DEF HelpInv, HelpedHasNoChair, student_already_waiting
<1> QED
  BY <1>1, <1>2, <1>3 DEF student_function

(* Every step keeps who has the mutex and who is helped apart from the     *)
(* hallway (q1.c lines 77 to 184).                                         *)
LEMMA NextKeepsHelpInv == IndInv /\ HelpInv /\ [Next]_vars => HelpInv'
<1> SUFFICES ASSUME IndInv, HelpInv, [Next]_vars PROVE HelpInv'
  OBVIOUS
<1>1. CASE ta_function
  BY <1>1, StartHelpKeepsHelpInv, OtherTAStepsKeepHelpInv DEF ta_function
<1>2. ASSUME NEW s \in Students, student_function(s) PROVE HelpInv'
  BY <1>2, StudentKeepsHelpInv
<1>3. CASE UNCHANGED vars
  BY <1>3 DEF vars, ta, hallway, HelpInv, MutexIsHeld, HelpedHasNoChair,
              student_already_waiting
<1> QED
  BY <1>1, <1>2, <1>3 DEF Next

(* A student that leaves while it is being helped does not take another    *)
(* chair before the help is over (q1.c lines 96 to 114 and 143 to 174).    *)
THEOREM HelpedStaysOut == SafeSpec => []HelpedTakesNoSeat
<1>1. IndInv /\ HelpInv => HelpedTakesNoSeat
  <2> SUFFICES ASSUME IndInv, HelpInv, helping # Nobody
               PROVE  student_pc[helping] # "choosing" /\ ~student_already_waiting(helping)
    BY DEF HelpedTakesNoSeat
  <2>1. helping \in Students /\ mutex = TA
    BY DEF IndInv, FieldsOK, HelpsSomebody, HelpInv, MutexIsHeld
  <2> QED
    BY <2>1, OwnersDiffer DEF HelpInv, MutexIsHeld, HelpedHasNoChair
<1> QED
  BY <1>1, InitEstablishesHelpInv, NextKeepsHelpInv, IndInvHolds, PTL DEF SafeSpec

-----------------------------------------------------------------------------
(* The queue of the waiting room is a sequence of students, as long as the *)
(* number says.                                                            *)
QueueOK ==
  /\ Queue \in Seq(Students)
  /\ Len(Queue) = number_students_waiting

(* The turns of the queue are those of chairs that are taken.              *)
LEMMA QueueElements ==
  ASSUME IndInv, NEW k \in 1 .. number_students_waiting
  PROVE  /\ k - 1 \in Chairs
         /\ ChairOfTurn(k - 1) \in Chairs
         /\ waiting_room_chairs[ChairOfTurn(k - 1)] \in Students
         /\ Queue[k] = waiting_room_chairs[ChairOfTurn(k - 1)]
<1>0. number_students_waiting \in 0 .. NUM_WAITING_CHAIRS
  BY NumberAssumption DEF IndInv, FieldsOK
<1>1. k - 1 \in Chairs /\ k - 1 \in 0 .. NUM_WAITING_CHAIRS /\ k - 1 < number_students_waiting
  BY <1>0, NumberAssumption DEF Chairs
<1>2. ChairOfTurn(k - 1) \in Chairs
  BY <1>1, TurnOfChair DEF IndInv, FieldsOK
<1>3. waiting_room_chairs[ChairOfTurn(k - 1)] # Nobody
  BY <1>1 DEF IndInv, HallwayIsRing
<1> QED
  BY <1>1, <1>2, <1>3 DEF IndInv, FieldsOK, Queue

(* The reachable states have such a queue.                                 *)
LEMMA QueueType == IndInv => QueueOK
<1> SUFFICES ASSUME IndInv PROVE QueueOK
  OBVIOUS
<1>0. number_students_waiting \in Nat
  BY NumberAssumption DEF IndInv, FieldsOK
<1>1. Queue \in [1 .. number_students_waiting -> Students]
  BY QueueElements DEF Queue
<1> QED
  BY <1>0, <1>1 DEF QueueOK

(* An empty hallway is an empty queue.                                     *)
LEMMA InitMapsToInit == Init => Hallway!Init
<1> SUFFICES ASSUME Init PROVE Hallway!Init
  OBVIOUS
<1>1. Queue \in Seq(Students) /\ Len(Queue) = 0
  BY InitEstablishesIndInv, QueueType DEF Init, QueueOK
<1>2. Queue = <<>>
  BY <1>1, EmptySeq
<1> QED
  BY <1>2 DEF Init, Hallway!Init

(* A step that leaves the hallway and helping alone is not seen.           *)
LEMMA HallwayUnseen ==
  ASSUME UNCHANGED <<hallway, helping>>
  PROVE  UNCHANGED Hallway!vars
  BY DEF hallway, Queue, ChairOfTurn, Hallway!vars

(* To take the seat the ring gives is to join the end of the queue (q1.c   *)
(* lines 156 to 169).                                                      *)
LEMMA TakeSeatIsArrive ==
  ASSUME IndInv, NEW s \in Students, TakeSeat(s)
  PROVE  Hallway!Arrive(s)
<1> DEFINE n == number_students_waiting
<1>0. /\ FieldsOK /\ HallwayIsRing /\ OneChairEach
      /\ student_pc[s] = "choosing"
      /\ n < NUM_WAITING_CHAIRS /\ n' = n + 1 /\ n \in Nat
      /\ next_seat_available = ChairOfTurn(n)
      /\ waiting_room_chairs' = [waiting_room_chairs EXCEPT ![next_seat_available] = s]
      /\ UNCHANGED <<next_student_getting_help, helping>>
  BY NumberAssumption DEF IndInv, FieldsOK, HallwayIsRing, TakeSeat, Moves, ta
<1>1. /\ Queue \in Seq(Students) /\ Len(Queue) = n
      /\ \A k \in 1 .. n : /\ k - 1 \in Chairs
                          /\ ChairOfTurn(k - 1) \in Chairs
                          /\ Queue[k] = waiting_room_chairs[ChairOfTurn(k - 1)]
  BY QueueType, QueueElements DEF QueueOK
<1>2. Queue' \in Seq(Students) /\ Len(Queue') = n + 1
  <2>1. IndInv'
    BY TakeSeatKeepsIndInv
  <2>2. QueueOK'
    BY <2>1, QueueType, PTL
  <2> QED
    BY <1>0, <2>2 DEF QueueOK
<1>3. /\ n \in Chairs
      /\ waiting_room_chairs[ChairOfTurn(n)] = Nobody
  BY <1>0, SeatKeepsRing
<1>4. ~Hallway!Seated(s)
  <2>1. \A c \in Chairs : waiting_room_chairs[c] # s
    BY <1>0 DEF OneChairEach, student_already_waiting
  <2> QED
    BY <1>1, <2>1 DEF Hallway!Seated
<1>5. ASSUME NEW k \in 1 .. n + 1
      PROVE  Queue'[k] = IF k = n + 1 THEN s ELSE Queue[k]
  <2>1. Queue'[k] = waiting_room_chairs'[ChairOfTurn(k - 1)]
    BY <1>0 DEF Queue, ChairOfTurn
  <2>2. CASE k = n + 1
    <3>1. k - 1 = n
      BY <1>0, <2>2
    <3>2. next_seat_available \in DOMAIN waiting_room_chairs
      BY <1>0 DEF FieldsOK
    <3> QED
      BY <1>0, <2>1, <2>2, <3>1, <3>2
  <2>3. CASE k # n + 1
    <3>1. k \in 1 .. n /\ k - 1 # n
      BY <1>0, <2>3
    <3>2. ChairOfTurn(k - 1) # ChairOfTurn(n)
      BY <1>0, <1>1, <1>3, <3>1, TurnOfChair DEF FieldsOK
    <3> QED
      BY <1>0, <1>1, <2>1, <2>3, <3>1, <3>2 DEF FieldsOK
  <2> QED
    BY <2>2, <2>3
<1>6. Queue' = Append(Queue, s)
  <2>1. /\ Append(Queue, s) \in Seq(Students)
        /\ Len(Append(Queue, s)) = n + 1
        /\ \A k \in 1 .. n : Append(Queue, s)[k] = Queue[k]
        /\ Append(Queue, s)[n + 1] = s
    BY <1>1, AppendProperties
  <2>2. \A k \in 1 .. n + 1 : Queue'[k] = Append(Queue, s)[k]
    BY <1>0, <1>5, <2>1
  <2> QED
    BY <1>2, <2>1, <2>2, SeqEqual
<1> QED
  BY <1>0, <1>1, <1>4, <1>6 DEF Hallway!Arrive

(* The student the TA calls is the head of the queue, and the ring moves   *)
(* on to the tail (q1.c lines 102 to 109).                                 *)
LEMMA StartHelpIsStartHelp ==
  ASSUME IndInv, TAStartsHelp
  PROVE  Hallway!StartHelp
<1> DEFINE n == number_students_waiting
           h == next_student_getting_help
<1>0. /\ h \in Chairs /\ h' = (h + 1) % NUM_WAITING_CHAIRS
      /\ waiting_room_chairs \in [Chairs -> Students \cup {Nobody}]
      /\ waiting_room_chairs' = [waiting_room_chairs EXCEPT ![h] = Nobody]
      /\ helping = Nobody
      /\ helping' = waiting_room_chairs[h]
      /\ n' = n - 1 /\ n \in Nat /\ n > 0
  BY SomebodyToHelp, NumberAssumption
     DEF IndInv, FieldsOK, HelpsSomebody, TAStartsHelp, TAMoves
<1>1. /\ Queue \in Seq(Students) /\ Len(Queue) = n
      /\ \A k \in 1 .. n : /\ k - 1 \in Chairs
                          /\ ChairOfTurn(k - 1) \in Chairs
                          /\ Queue[k] = waiting_room_chairs[ChairOfTurn(k - 1)]
  BY QueueType, QueueElements DEF QueueOK
<1>2. Queue' \in Seq(Students) /\ Len(Queue') = n - 1
  <2>1. IndInv'
    BY StartHelpKeepsIndInv
  <2>2. QueueOK'
    BY <2>1, QueueType, PTL
  <2> QED
    BY <1>0, <2>2 DEF QueueOK
<1>3. ChairOfTurn(0) = h /\ 0 \in Chairs
  BY <1>0, TurnOfChair, NumberAssumption DEF Chairs
<1>4. Queue # <<>> /\ Head(Queue) = helping'
  <2>1. 1 \in 1 .. n /\ 1 - 1 = 0
    BY <1>0
  <2>2. Queue[1] = waiting_room_chairs[h]
    BY <1>1, <1>3, <2>1
  <2>3. Queue # <<>>
    BY <1>0, <1>1, EmptySeq
  <2> QED
    BY <1>0, <1>1, <2>2, <2>3
<1>5. ASSUME NEW k \in 1 .. n - 1
      PROVE  Queue'[k] = Queue[k + 1]
  <2>1. k + 1 \in 1 .. n /\ (k + 1) - 1 = k /\ (k - 1) + 1 = k /\ k \in 1 .. n /\ k # 0
    BY <1>0
  <2>2. k - 1 \in Chairs /\ k \in Chairs /\ ChairOfTurn(k) \in Chairs
        /\ Queue[k + 1] = waiting_room_chairs[ChairOfTurn(k)]
    BY <1>1, <2>1
  <2>3. PICK j \in Chairs : j = k - 1
    BY <2>2
  <2>4. ChairOfTurn(j)' = ChairOfTurn(k)
    BY <1>0, <2>1, <2>3, TurnsAdvance
  <2>5. Queue'[k] = waiting_room_chairs'[ChairOfTurn(j)']
    BY <1>0, <2>3 DEF Queue, ChairOfTurn
  <2>6. ChairOfTurn(k) # h
    BY <1>0, <1>3, <2>1, <2>2, TurnOfChair
  <2> QED
    BY <1>0, <2>2, <2>4, <2>5, <2>6
<1>6. Queue' = Tail(Queue)
  <2>1. /\ Tail(Queue) \in Seq(Students)
        /\ Len(Tail(Queue)) = n - 1
        /\ \A k \in 1 .. n - 1 : Tail(Queue)[k] = Queue[k + 1]
    BY <1>1, <1>4, HeadTailProperties
  <2>2. \A k \in 1 .. n - 1 : Queue'[k] = Tail(Queue)[k]
    BY <1>5, <2>1
  <2> QED
    BY <1>2, <2>1, <2>2, SeqEqual
<1> QED
  BY <1>0, <1>4, <1>6 DEF Hallway!StartHelp

(* The end of the help frees the TA for the next student (q1.c line 114).  *)
LEMMA FinishHelpIsFinishHelp ==
  ASSUME IndInv, TAFinishesHelp
  PROVE  Hallway!FinishHelp
<1>1. helping # Nobody /\ helping' = Nobody
  BY DEF IndInv, HelpsSomebody, TAFinishesHelp, TAMoves
<1>2. Queue' = Queue
  BY DEF TAFinishesHelp, hallway, Queue, ChairOfTurn
<1> QED
  BY <1>1, <1>2 DEF Hallway!FinishHelp

(* Every step of the TA and of the students is a step of the waiting room  *)
(* or is not seen there.                                                   *)
LEMMA NextMapsToNext == IndInv /\ [Next]_vars => [Hallway!Next]_(Hallway!vars)
<1> SUFFICES ASSUME IndInv, [Next]_vars PROVE [Hallway!Next]_(Hallway!vars)
  OBVIOUS
<1>1. CASE TAStartsHelp
  BY <1>1, StartHelpIsStartHelp DEF Hallway!Next
<1>2. CASE TAFinishesHelp
  BY <1>2, FinishHelpIsFinishHelp DEF Hallway!Next
<1>3. CASE TASeesStudents \/ TASeesNobody \/ TAWakes \/ TAWaits \/ TALocks \/ TAPosts
  <2>1. UNCHANGED <<hallway, helping>>
    BY <1>3 DEF TASeesStudents, TASeesNobody, TAWakes, TAWaits, TALocks, TAPosts
  <2> QED
    BY <2>1, HallwayUnseen
<1>4. ASSUME NEW s \in Students, TakeSeat(s)
      PROVE  [Hallway!Next]_(Hallway!vars)
  BY <1>4, TakeSeatIsArrive DEF Hallway!Next
<1>5. ASSUME NEW s \in Students,
             \/ StartProgramming(s) \/ FinishProgramming(s) \/ StudentLocks(s)
             \/ TryLater(s) \/ Signal(s) \/ AwaitTA(s)
      PROVE  UNCHANGED Hallway!vars
  <2>1. UNCHANGED <<hallway, helping>>
    BY <1>5 DEF StartProgramming, FinishProgramming, StudentLocks, TryLater, Signal, AwaitTA,
                Moves, ta
  <2> QED
    BY <2>1, HallwayUnseen
<1>6. CASE UNCHANGED vars
  BY <1>6, HallwayUnseen DEF vars, ta
<1> QED
  BY <1>1, <1>2, <1>3, <1>4, <1>5, <1>6 DEF Next, ta_function, student_function

(* The safety half of ImplementsWaitingRoom: students are helped one at a  *)
(* time, each after those who sat down before, and nobody enters or leaves *)
(* the queue otherwise (q1.c lines 77 to 182).                             *)
THEOREM HelpedInOrder == SafeSpec => Hallway!SafeSpec
  BY InitMapsToInit, NextMapsToNext, IndInvHolds, PTL DEF SafeSpec, Hallway!SafeSpec
=============================================================================
