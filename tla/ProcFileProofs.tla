--------------------------- MODULE ProcFileProofs ---------------------------
(***************************************************************************)
(* For any number of readers, any tick rate and any width of an unsigned   *)
(* long: a line of /proc/seconds has the seconds since loading at some     *)
(* moment of the read that got it, although jiffies wraps and the readers  *)
(* are not synchronised, and a session alone with the module's one flag    *)
(* gets one line.                                                          *)
(*                                                                         *)
(* Neither is inductive.  For the seconds the proof follows a read from    *)
(* its beginning (ReadsTimed), through the reading of the clock            *)
(* (ClockRead), with a start_jiffies that does not change under it: the    *)
(* module is reloaded only when nobody has the file open (ModuleOK).  For  *)
(* the session it follows the flag along with the reader.                  *)
(***************************************************************************)
EXTENDS ProcFile, RingLemmas

(* A reader in proc_read or on its way there, whose line is yet to come.   *)
Inside == {"checking", "setting", "timing", "answering", "greeting"}

(* start_jiffies is the clock at loaded_at, and the file is there and open *)
(* only while the module is loaded.                                        *)
ModuleOK ==
  /\ loaded_at # Unset => /\ loaded_at <= uptime
                          /\ start_jiffies = (FirstJiffies + loaded_at) % ULONG
  /\ module_pc = "starting" => loaded_at = Unset
  /\ module_pc = "not loaded" =>
       /\ ~ entry
       /\ \A r \in Readers : reader_pc[r] \in {"closed", "orphaned"}

(* A read that began after start_jiffies was set did so after loaded_at.   *)
ReadsTimed ==
  \A r \in Readers :
    /\ reader_pc[r] \in Inside => line[r] = None
    /\ since[r] # Unset
         /\ (reader_pc[r] \in Inside \/ (reader_pc[r] = "open" /\ line[r] # None))
         => loaded_at # Unset /\ loaded_at <= since[r] /\ since[r] <= uptime

(* What a reader has read of jiffies was the clock at a moment of its read.*)
ClockRead ==
  \A r \in Readers :
    reader_pc[r] = "answering" /\ since[r] # Unset =>
      \E u \in since[r] .. uptime : reading[r] = (FirstJiffies + u) % ULONG

(* A clean session is alone, and completed tells the first read of it from *)
(* the second.                                                             *)
CleanSession ==
  \A r \in Readers : clean[r] =>
    /\ \A u \in Readers \ {r} : reader_pc[u] = "closed"
    /\ reader_pc[r] \in {"open", "checking"} => got[r] = completed
    /\ reader_pc[r] = "setting" => got[r] = 0 /\ completed = 0
    /\ reader_pc[r] \in {"timing", "answering", "greeting"} => got[r] = 0 /\ completed = 1
    /\ reader_pc[r] = "clearing" => got[r] = 1 /\ completed = 1

(* The two halves of TypeOK: what there is once, and what each reader has. *)
ScalarsOK ==
  /\ program \in Programs
  /\ uptime \in 0 .. MaxTicks
  /\ module_pc \in {"not loaded", "starting", "loaded"}
  /\ entry \in BOOLEAN
  /\ start_jiffies \in 0 .. ULONG - 1
  /\ completed \in {0, 1}
  /\ loaded_at \in 0 .. MaxTicks \cup {Unset}

ReadersOK ==
  /\ reader_pc \in [Readers -> {"closed", "open", "orphaned", "checking", "clearing",
                                "setting", "timing", "answering", "greeting"}]
  /\ reading \in [Readers -> 0 .. ULONG - 1]
  /\ got \in [Readers -> 0 .. 2]
  /\ since \in [Readers -> 0 .. MaxTicks \cup {Unset}]
  /\ line \in [Readers -> Int]
  /\ clean \in [Readers -> BOOLEAN]

IndInv ==
  /\ ScalarsOK
  /\ ReadersOK
  /\ ModuleOK
  /\ ReadsTimed
  /\ ClockRead
  /\ AnswersSecondsSinceLoading
  /\ CleanSession

-----------------------------------------------------------------------------
LEMMA InitEstablishesIndInv == Init => IndInv
<1> SUFFICES ASSUME Init PROVE IndInv
  OBVIOUS
<1>1. ScalarsOK
  <2>1. /\ program \in Programs /\ uptime = 0 /\ module_pc = "not loaded" /\ entry = FALSE
        /\ start_jiffies = 0 /\ completed = 0 /\ loaded_at = Unset
    BY DEF Init
  <2>2. 0 \in 0 .. MaxTicks /\ 0 \in 0 .. ULONG - 1
    BY ProcAssumption
  <2> QED
    BY <2>1, <2>2 DEF ScalarsOK
<1>2. ReadersOK
  <2>1. 0 \in 0 .. ULONG - 1 /\ None \in Int
    BY ProcAssumption DEF None
  <2>2. reader_pc \in [Readers -> {"closed", "open", "orphaned", "checking", "clearing",
                                   "setting", "timing", "answering", "greeting"}]
    BY DEF Init
  <2>3. reading \in [Readers -> 0 .. ULONG - 1] /\ got \in [Readers -> 0 .. 2]
    <3>1. reading = [r \in Readers |-> 0] /\ got = [r \in Readers |-> 0]
      BY DEF Init
    <3> QED
      BY <2>1, <3>1
  <2>4. since \in [Readers -> 0 .. MaxTicks \cup {Unset}]
    <3>1. since = [r \in Readers |-> Unset]
      BY DEF Init
    <3> QED
      BY <3>1
  <2>5. line \in [Readers -> Int] /\ clean \in [Readers -> BOOLEAN]
    BY <2>1 DEF Init
  <2> QED
    BY <2>2, <2>3, <2>4, <2>5 DEF ReadersOK
<1>3. ModuleOK
  BY DEF Init, ModuleOK
<1>4. ReadsTimed /\ ClockRead /\ CleanSession
  BY DEF Init, ReadsTimed, ClockRead, CleanSession, Inside
<1>5. AnswersSecondsSinceLoading
  BY DEF Init, AnswersSecondsSinceLoading
<1> QED
  BY <1>1, <1>2, <1>3, <1>4, <1>5 DEF IndInv

(* The clock, as jiffies gives it, is in the range of an unsigned long.    *)
LEMMA ClockInRange ==
  ASSUME NEW u \in Nat
  PROVE  (FirstJiffies + u) % ULONG \in 0 .. ULONG - 1
<1>1. ULONG \in Nat \ {0} /\ FirstJiffies + u \in Int
  BY ProcAssumption
<1> QED
  BY <1>1, Division

(* The moments, in arithmetic: no moment of the clock is Unset.            *)
LEMMA Moments ==
  ASSUME IndInv
  PROVE  /\ uptime \in Nat
         /\ loaded_at # Unset => loaded_at \in Nat
         /\ \A r \in Readers : since[r] # Unset => since[r] \in Nat
<1>1. uptime \in 0 .. MaxTicks /\ loaded_at \in 0 .. MaxTicks \cup {Unset}
  BY DEF IndInv, ScalarsOK
<1>2. since \in [Readers -> 0 .. MaxTicks \cup {Unset}]
  BY DEF IndInv, ReadersOK
<1>3. \A x \in 0 .. MaxTicks : x \in Nat
  BY ProcAssumption
<1> QED
  BY <1>1, <1>2, <1>3

(* Time passes: a moment of a read remains one.                            *)
LEMMA TickKeepsIndInv ==
  ASSUME IndInv, Tick
  PROVE  IndInv'
<1>0. /\ uptime \in Nat /\ uptime' = uptime + 1 /\ uptime < MaxTicks /\ MaxTicks \in Nat
      /\ UNCHANGED <<program, module, completed, reader_pc, session, answer>>
  BY Moments, ProcAssumption DEF Tick
<1> USE DEF module, session, answer
<1>1. ScalarsOK' /\ ReadersOK'
  <2>1. uptime' \in 0 .. MaxTicks
    BY <1>0
  <2> QED
    BY <2>1, <1>0 DEF IndInv, ScalarsOK, ReadersOK
<1>2. ModuleOK'
  <2>0. loaded_at # Unset => loaded_at <= uptime
    BY DEF IndInv, ModuleOK
  <2>1. loaded_at # Unset => loaded_at <= uptime + 1
    BY <1>0, <2>0, Moments
  <2> QED
    BY <1>0, <2>1 DEF IndInv, ModuleOK
<1>3. ReadsTimed'
  BY <1>0, Moments DEF IndInv, ReadsTimed
<1>4. ClockRead'
  <2> SUFFICES ASSUME NEW r \in Readers, reader_pc[r] = "answering", since[r] # Unset
               PROVE  \E u \in since[r] .. uptime + 1 : reading[r] = (FirstJiffies + u) % ULONG
    BY <1>0 DEF ClockRead
  <2>1. PICK u \in since[r] .. uptime : reading[r] = (FirstJiffies + u) % ULONG
    BY DEF IndInv, ClockRead
  <2>2. u \in since[r] .. uptime + 1
    BY <1>0, Moments
  <2> QED
    BY <2>1, <2>2
<1>5. AnswersSecondsSinceLoading'
  <2> SUFFICES ASSUME NEW r \in Readers, reader_pc[r] = "open", line[r] # None,
                      since[r] # Unset, (uptime + 1) - loaded_at < ULONG
               PROVE  \E u \in since[r] .. uptime + 1 : line[r] = (u - loaded_at) \div HZ
    BY <1>0 DEF AnswersSecondsSinceLoading
  <2>1. loaded_at \in Nat /\ since[r] \in Nat
    BY Moments DEF IndInv, ReadsTimed
  <2>2. uptime - loaded_at < ULONG
    BY <2>1, <1>0, ProcAssumption
  <2>3. PICK u \in since[r] .. uptime : line[r] = (u - loaded_at) \div HZ
    BY <2>2 DEF IndInv, AnswersSecondsSinceLoading
  <2>4. u \in since[r] .. uptime + 1
    BY <1>0, <2>1
  <2> QED
    BY <2>3, <2>4
<1>6. CleanSession'
  BY <1>0 DEF IndInv, CleanSession
<1> QED
  BY <1>1, <1>2, <1>3, <1>4, <1>5, <1>6 DEF IndInv

-----------------------------------------------------------------------------
(* Loading and removing the module: nobody has the file open, or nobody    *)
(* keeps it open.                                                          *)
LEMMA LoadKeepsIndInv ==
  ASSUME IndInv, NEW next \in {"starting", "loaded"}, Load(next)
  PROVE  IndInv'
<1>1. \A r \in Readers : reader_pc[r] \in {"closed", "orphaned"}
  BY DEF IndInv, ModuleOK, Load
<1>2. /\ module_pc' = next /\ entry' \in BOOLEAN /\ start_jiffies' = 0 /\ completed' = 0
      /\ loaded_at' = Unset
      /\ UNCHANGED <<program, uptime, reader_pc, got, clean, reading, since, line>>
  BY DEF Load, session, answer
<1>3. ScalarsOK'
  <2>1. 0 \in 0 .. ULONG - 1
    BY ProcAssumption
  <2> QED
    BY <1>2, <2>1 DEF IndInv, ScalarsOK
<1>4. ReadersOK'
  BY <1>2 DEF IndInv, ReadersOK
<1>5. ModuleOK'
  BY <1>2 DEF ModuleOK
<1>6. ReadsTimed' /\ ClockRead'
  BY <1>1, <1>2 DEF ReadsTimed, ClockRead, Inside
<1>7. AnswersSecondsSinceLoading'
  BY <1>1, <1>2 DEF AnswersSecondsSinceLoading
<1>8. CleanSession'
  BY <1>1, <1>2 DEF IndInv, CleanSession
<1> QED
  BY <1>3, <1>4, <1>5, <1>6, <1>7, <1>8 DEF IndInv

(* start_jiffies is set: the reads that have begun do not count, as they   *)
(* began without it.                                                       *)
LEMMA SetStartKeepsIndInv ==
  ASSUME IndInv, SetStart
  PROVE  IndInv'
<1>1. loaded_at = Unset
  BY DEF IndInv, ModuleOK, SetStart
<1>2. /\ module_pc' = "loaded"
      /\ start_jiffies' = (FirstJiffies + uptime) % ULONG
      /\ loaded_at' = uptime
      /\ UNCHANGED <<program, uptime, entry, completed, reader_pc, got, clean,
                     reading, since, line>>
  BY DEF SetStart, session, answer, jiffies
<1>3. \A r \in Readers :
        ~ (since[r] # Unset
           /\ (reader_pc[r] \in Inside \/ (reader_pc[r] = "open" /\ line[r] # None)))
  BY <1>1 DEF IndInv, ReadsTimed
<1>4. ScalarsOK'
  <2>1. start_jiffies' \in 0 .. ULONG - 1
    BY <1>2, Moments, ClockInRange
  <2> QED
    BY <1>2, <2>1 DEF IndInv, ScalarsOK
<1>5. ReadersOK'
  BY <1>2 DEF IndInv, ReadersOK
<1>6. ModuleOK'
  <2>1. uptime <= uptime
    BY Moments
  <2> QED
    BY <1>2, <2>1 DEF ModuleOK
<1>7. ReadsTimed'
  BY <1>2, <1>3 DEF IndInv, ReadsTimed
<1>8. ClockRead'
  BY <1>2 DEF IndInv, ClockRead
<1>9. AnswersSecondsSinceLoading'
  BY <1>2, <1>3 DEF AnswersSecondsSinceLoading
<1>10. CleanSession'
  BY <1>2 DEF IndInv, CleanSession
<1> QED
  BY <1>4, <1>5, <1>6, <1>7, <1>8, <1>9, <1>10 DEF IndInv

LEMMA ExitKeepsIndInv ==
  ASSUME IndInv, proc_exit
  PROVE  IndInv'
<1>1. /\ module_pc' = "not loaded" /\ entry' = FALSE
      /\ reader_pc' = [r \in Readers |-> IF reader_pc[r] = "closed" THEN "closed"
                                         ELSE "orphaned"]
      /\ UNCHANGED <<program, uptime, start_jiffies, loaded_at, completed, got, clean,
                     reading, since, line>>
  BY DEF proc_exit, session, answer
<1>2. \A r \in Readers : /\ reader_pc'[r] \in {"closed", "orphaned"}
                         /\ reader_pc[r] = "closed" => reader_pc'[r] = "closed"
  BY <1>1
<1>3. ScalarsOK'
  BY <1>1 DEF IndInv, ScalarsOK
<1>4. ReadersOK'
  <2>1. reader_pc' \in [Readers -> {"closed", "open", "orphaned", "checking", "clearing",
                                    "setting", "timing", "answering", "greeting"}]
    BY <1>1
  <2> QED
    BY <1>1, <2>1 DEF IndInv, ReadersOK
<1>5. ModuleOK'
  BY <1>1, <1>2 DEF IndInv, ModuleOK
<1>6. ReadsTimed' /\ ClockRead'
  BY <1>2 DEF ReadsTimed, ClockRead, Inside
<1>7. AnswersSecondsSinceLoading'
  BY <1>2 DEF AnswersSecondsSinceLoading
<1>8. CleanSession'
  BY <1>1, <1>2 DEF IndInv, CleanSession
<1> QED
  BY <1>3, <1>4, <1>5, <1>6, <1>7, <1>8 DEF IndInv

-----------------------------------------------------------------------------
(* What a step of one reader leaves of the others and of the module.       *)
LEMMA OneReaderMoves ==
  ASSUME IndInv, NEW r \in Readers, NEW from, NEW to, Moves(r, from, to),
         to \in {"closed", "open", "checking", "clearing", "setting", "timing",
                 "answering", "greeting"},
         completed' \in {0, 1},
         to = "closed" \/ from \notin {"closed", "orphaned"} \/ entry
  PROVE  /\ ScalarsOK' /\ ModuleOK'
         /\ reader_pc' \in [Readers -> {"closed", "open", "orphaned", "checking", "clearing",
                                        "setting", "timing", "answering", "greeting"}]
         /\ reader_pc[r] = from /\ reader_pc'[r] = to
         /\ \A q \in Readers \ {r} : reader_pc'[q] = reader_pc[q]
         /\ UNCHANGED <<uptime, loaded_at, start_jiffies, program>>
<1>1. /\ reader_pc[r] = from
      /\ reader_pc' = [reader_pc EXCEPT ![r] = to]
      /\ UNCHANGED <<program, uptime, module_pc, entry, start_jiffies, loaded_at>>
  BY DEF Moves, module
<1>2. reader_pc \in [Readers -> {"closed", "open", "orphaned", "checking", "clearing",
                                 "setting", "timing", "answering", "greeting"}]
  BY DEF IndInv, ReadersOK
<1>3. /\ reader_pc' \in [Readers -> {"closed", "open", "orphaned", "checking", "clearing",
                                     "setting", "timing", "answering", "greeting"}]
      /\ reader_pc'[r] = to
      /\ \A q \in Readers \ {r} : reader_pc'[q] = reader_pc[q]
  BY <1>1, <1>2
<1>4. ScalarsOK'
  BY <1>1 DEF IndInv, ScalarsOK
<1>5. ModuleOK'
  <2>1. module_pc = "not loaded" => \A q \in Readers : reader_pc'[q] \in {"closed", "orphaned"}
    <3>1. CASE to = "closed"
      BY <1>3, <3>1 DEF IndInv, ModuleOK
    <3>2. CASE from \notin {"closed", "orphaned"} \/ entry
      BY <1>1, <3>2 DEF IndInv, ModuleOK
    <3> QED
      BY <3>1, <3>2
  <2> QED
    BY <1>1, <2>1 DEF IndInv, ModuleOK
<1> QED
  BY <1>1, <1>3, <1>4, <1>5

(* A step that gets no answer, begins no read and reads no clock.          *)
LEMMA PlainStepKeepsReads ==
  ASSUME IndInv, NEW r \in Readers, NEW from, NEW to, Moves(r, from, to),
         \/ to = "closed"
         \/ from \in Inside /\ to \in {"clearing", "setting", "timing", "greeting"},
         completed' \in {0, 1},
         UNCHANGED <<session, answer>>
  PROVE  /\ ScalarsOK' /\ ReadersOK' /\ ModuleOK' /\ ReadsTimed' /\ ClockRead'
         /\ AnswersSecondsSinceLoading'
<1>0. /\ to \in {"closed", "open", "checking", "clearing", "setting", "timing",
                 "answering", "greeting"}
      /\ to # "open" /\ to # "answering"
      /\ to \in Inside => from \in Inside
      /\ to = "closed" \/ from \notin {"closed", "orphaned"} \/ entry
  BY DEF Inside
<1>1. /\ ScalarsOK' /\ ModuleOK'
      /\ reader_pc' \in [Readers -> {"closed", "open", "orphaned", "checking", "clearing",
                                     "setting", "timing", "answering", "greeting"}]
      /\ reader_pc[r] = from /\ reader_pc'[r] = to
      /\ \A q \in Readers \ {r} : reader_pc'[q] = reader_pc[q]
      /\ UNCHANGED <<uptime, loaded_at, start_jiffies, program>>
  BY <1>0, OneReaderMoves
<1>2. UNCHANGED <<got, clean, reading, since, line>>
  BY DEF session, answer
<1>3. ReadersOK'
  BY <1>1, <1>2 DEF IndInv, ReadersOK
<1>4. ReadsTimed'
  <2> SUFFICES ASSUME NEW q \in Readers
               PROVE  /\ reader_pc'[q] \in Inside => line[q] = None
                      /\ since[q] # Unset
                           /\ (reader_pc'[q] \in Inside
                               \/ (reader_pc'[q] = "open" /\ line[q] # None))
                           => loaded_at # Unset /\ loaded_at <= since[q] /\ since[q] <= uptime
    BY <1>1, <1>2 DEF ReadsTimed
  <2>1. /\ reader_pc'[q] \in Inside => reader_pc[q] \in Inside
        /\ reader_pc'[q] = "open" => reader_pc[q] = "open"
    BY <1>0, <1>1
  <2> QED
    BY <2>1 DEF IndInv, ReadsTimed
<1>5. ClockRead'
  BY <1>0, <1>1, <1>2 DEF IndInv, ClockRead
<1>6. AnswersSecondsSinceLoading'
  BY <1>0, <1>1, <1>2 DEF IndInv, AnswersSecondsSinceLoading
<1> QED
  BY <1>1, <1>3, <1>4, <1>5, <1>6

(* A program that stops reading, whether it gives up or is given zero      *)
(* bytes or an error.                                                      *)
LEMMA ClosingKeepsIndInv ==
  ASSUME IndInv, NEW r \in Readers, GiveUp(r) \/ ReadFails(r) \/ Clear(r)
  PROVE  IndInv'
<1>1. PICK from : Moves(r, from, "closed")
  BY DEF GiveUp, ReadFails, Clear
<1>2. UNCHANGED <<session, answer>> /\ completed' \in {0, 1}
  BY DEF GiveUp, ReadFails, Clear, IndInv, ScalarsOK
<1>3. /\ ScalarsOK' /\ ReadersOK' /\ ModuleOK' /\ ReadsTimed' /\ ClockRead'
      /\ AnswersSecondsSinceLoading'
  BY <1>1, <1>2, PlainStepKeepsReads
<1>4. /\ reader_pc[r] = from /\ reader_pc'[r] = "closed"
      /\ \A q \in Readers \ {r} : reader_pc'[q] = reader_pc[q]
  BY <1>1, <1>2, OneReaderMoves
<1>5. CleanSession'
  <2> SUFFICES ASSUME NEW q \in Readers, clean[q]
               PROVE  /\ \A u \in Readers \ {q} : reader_pc'[u] = "closed"
                      /\ reader_pc'[q] \in {"open", "checking"} => got[q] = completed'
                      /\ reader_pc'[q] = "setting" => got[q] = 0 /\ completed' = 0
                      /\ reader_pc'[q] \in {"timing", "answering", "greeting"}
                           => got[q] = 0 /\ completed' = 1
                      /\ reader_pc'[q] = "clearing" => got[q] = 1 /\ completed' = 1
    BY <1>2 DEF CleanSession, session
  <2>1. \A u \in Readers \ {q} : reader_pc[u] = "closed"
    BY DEF IndInv, CleanSession
  <2>2. CASE q = r
    BY <2>1, <2>2, <1>4
  <2>3. CASE q # r
    <3>1. reader_pc[r] = "closed"
      BY <2>1, <2>3
    <3> QED
      BY <3>1 DEF GiveUp, ReadFails, Clear, Moves
  <2> QED
    BY <2>2, <2>3
<1> QED
  BY <1>3, <1>5 DEF IndInv

(* The two branches on completed, and raising it.                          *)
LEMMA FlagStepKeepsIndInv ==
  ASSUME IndInv, NEW r \in Readers, FindCompleted(r) \/ FindFresh(r) \/ SetFlag(r)
  PROVE  IndInv'
<1>1. PICK from \in {"checking", "setting"},
           to \in {"clearing", "setting", "timing", "greeting"} : Moves(r, from, to)
  BY DEF FindCompleted, FindFresh, SetFlag
<1>2. UNCHANGED <<session, answer>> /\ completed' \in {0, 1}
  BY DEF FindCompleted, FindFresh, SetFlag, IndInv, ScalarsOK
<1>3. from \in Inside /\ from \notin {"closed", "orphaned"}
  BY DEF Inside
<1>4. /\ ScalarsOK' /\ ReadersOK' /\ ModuleOK' /\ ReadsTimed' /\ ClockRead'
      /\ AnswersSecondsSinceLoading'
  BY <1>1, <1>2, <1>3, PlainStepKeepsReads
<1>5. /\ reader_pc[r] = from /\ reader_pc'[r] = to
      /\ \A q \in Readers \ {r} : reader_pc'[q] = reader_pc[q]
  BY <1>1, <1>2, <1>3, OneReaderMoves
<1>6. CleanSession'
  <2> SUFFICES ASSUME NEW q \in Readers, clean[q]
               PROVE  /\ \A u \in Readers \ {q} : reader_pc'[u] = "closed"
                      /\ reader_pc'[q] \in {"open", "checking"} => got[q] = completed'
                      /\ reader_pc'[q] = "setting" => got[q] = 0 /\ completed' = 0
                      /\ reader_pc'[q] \in {"timing", "answering", "greeting"}
                           => got[q] = 0 /\ completed' = 1
                      /\ reader_pc'[q] = "clearing" => got[q] = 1 /\ completed' = 1
    BY <1>2 DEF CleanSession, session
  <2>1. /\ \A u \in Readers \ {q} : reader_pc[u] = "closed"
        /\ reader_pc[q] \in {"open", "checking"} => got[q] = completed
        /\ reader_pc[q] = "setting" => got[q] = 0 /\ completed = 0
    BY DEF IndInv, CleanSession
  <2>2. q = r
    BY <2>1, <1>5
  <2>3. CASE FindCompleted(r)
    <3>1. reader_pc[r] = "checking" /\ reader_pc'[r] = "clearing" /\ completed = 1 /\ completed' = 1
      BY <2>3, <1>2, OneReaderMoves DEF FindCompleted
    <3> QED
      BY <3>1, <2>1, <2>2, <1>5
  <2>4. CASE FindFresh(r)
    <3>1. reader_pc[r] = "checking" /\ reader_pc'[r] = "setting" /\ completed = 0 /\ completed' = 0
      BY <2>4, <1>2, OneReaderMoves DEF FindFresh
    <3> QED
      BY <3>1, <2>1, <2>2, <1>5
  <2>5. CASE SetFlag(r)
    <3>1. reader_pc[r] = "setting" /\ reader_pc'[r] \in {"timing", "greeting"} /\ completed' = 1
      BY <2>5, <1>2, OneReaderMoves DEF SetFlag
    <3> QED
      BY <3>1, <2>1, <2>2, <1>5
  <2> QED
    BY <2>3, <2>4, <2>5
<1> QED
  BY <1>4, <1>6 DEF IndInv

(* The clean session of a reader that moves, if the flag is followed.      *)
LEMMA CleanSessionMoves ==
  ASSUME IndInv, NEW r \in Readers, NEW from, NEW to, Moves(r, from, to),
         from # "closed", reader_pc'[r] = to,
         \A q \in Readers \ {r} : reader_pc'[q] = reader_pc[q],
         UNCHANGED clean,
         clean[r] =>
           /\ to \in {"open", "checking"} => got'[r] = completed'
           /\ to = "setting" => got'[r] = 0 /\ completed' = 0
           /\ to \in {"timing", "answering", "greeting"} => got'[r] = 0 /\ completed' = 1
           /\ to = "clearing" => got'[r] = 1 /\ completed' = 1
  PROVE  CleanSession'
<1> SUFFICES ASSUME NEW q \in Readers, clean[q]
             PROVE  /\ \A u \in Readers \ {q} : reader_pc'[u] = "closed"
                    /\ reader_pc'[q] \in {"open", "checking"} => got'[q] = completed'
                    /\ reader_pc'[q] = "setting" => got'[q] = 0 /\ completed' = 0
                    /\ reader_pc'[q] \in {"timing", "answering", "greeting"}
                         => got'[q] = 0 /\ completed' = 1
                    /\ reader_pc'[q] = "clearing" => got'[q] = 1 /\ completed' = 1
  BY DEF CleanSession
<1>1. \A u \in Readers \ {q} : reader_pc[u] = "closed"
  BY DEF IndInv, CleanSession
<1>2. reader_pc[r] # "closed"
  BY DEF Moves
<1>3. q = r
  BY <1>1, <1>2
<1> QED
  BY <1>1, <1>3

(* A program that opens the file begins a clean session exactly when it is *)
(* alone and the flag is down.                                             *)
LEMMA OpenKeepsIndInv ==
  ASSUME IndInv, NEW r \in Readers, Open(r)
  PROVE  IndInv'
<1>1. /\ ScalarsOK' /\ ModuleOK'
      /\ reader_pc' \in [Readers -> {"closed", "open", "orphaned", "checking", "clearing",
                                     "setting", "timing", "answering", "greeting"}]
      /\ reader_pc[r] = "closed" /\ reader_pc'[r] = "open"
      /\ \A q \in Readers \ {r} : reader_pc'[q] = reader_pc[q]
      /\ UNCHANGED <<uptime, loaded_at, start_jiffies, program>>
  <2>1. entry /\ Moves(r, "closed", "open") /\ completed' \in {0, 1}
    BY DEF Open, IndInv, ScalarsOK
  <2> QED
    BY <2>1, OneReaderMoves
<1>2. /\ got' = [got EXCEPT ![r] = 0]
      /\ line' = [line EXCEPT ![r] = None]
      /\ clean' = [q \in Readers |->
                     q = r /\ completed = 0 /\ \A u \in Readers \ {r} : reader_pc[u] = "closed"]
      /\ UNCHANGED <<completed, reading, since>>
  BY DEF Open
<1>3. got \in [Readers -> 0 .. 2] /\ line \in [Readers -> Int]
  BY DEF IndInv, ReadersOK
<1>4. ReadersOK'
  <2>1. got' \in [Readers -> 0 .. 2]
    BY <1>2, <1>3
  <2>2. line' \in [Readers -> Int]
    BY <1>2, <1>3 DEF None
  <2>3. clean' \in [Readers -> BOOLEAN]
    BY <1>2
  <2> QED
    BY <1>1, <1>2, <2>1, <2>2, <2>3 DEF IndInv, ReadersOK
<1>5. line'[r] = None /\ \A q \in Readers \ {r} : line'[q] = line[q]
  BY <1>2, <1>3
<1>6. ReadsTimed'
  <2> SUFFICES ASSUME NEW q \in Readers
               PROVE  /\ reader_pc'[q] \in Inside => line'[q] = None
                      /\ since[q] # Unset
                           /\ (reader_pc'[q] \in Inside
                               \/ (reader_pc'[q] = "open" /\ line'[q] # None))
                           => loaded_at # Unset /\ loaded_at <= since[q] /\ since[q] <= uptime
    BY <1>1, <1>2 DEF ReadsTimed
  <2>1. CASE q = r
    BY <2>1, <1>1, <1>5 DEF Inside
  <2>2. CASE q # r
    BY <2>2, <1>1, <1>5 DEF IndInv, ReadsTimed
  <2> QED
    BY <2>1, <2>2
<1>7. ClockRead'
  BY <1>1, <1>2 DEF IndInv, ClockRead
<1>8. AnswersSecondsSinceLoading'
  BY <1>1, <1>2, <1>5 DEF IndInv, AnswersSecondsSinceLoading
<1>9. CleanSession'
  <2>1. \A q \in Readers : clean'[q] =>
          q = r /\ completed = 0 /\ \A u \in Readers \ {r} : reader_pc[u] = "closed"
    BY <1>2
  <2>2. got'[r] = 0
    BY <1>2, <1>3
  <2> QED
    BY <1>1, <1>2, <2>1, <2>2 DEF CleanSession
<1> QED
  BY <1>1, <1>4, <1>6, <1>7, <1>8, <1>9 DEF IndInv

(* A read begins: it is timed from here on, unless the module is still     *)
(* starting.                                                               *)
LEMMA ReadKeepsIndInv ==
  ASSUME IndInv, NEW r \in Readers, Read(r)
  PROVE  IndInv'
<1>1. /\ ScalarsOK' /\ ModuleOK'
      /\ reader_pc' \in [Readers -> {"closed", "open", "orphaned", "checking", "clearing",
                                     "setting", "timing", "answering", "greeting"}]
      /\ reader_pc[r] = "open" /\ reader_pc'[r] = "checking"
      /\ \A q \in Readers \ {r} : reader_pc'[q] = reader_pc[q]
      /\ UNCHANGED <<uptime, loaded_at, start_jiffies, program>>
  <2>1. Moves(r, "open", "checking") /\ completed' \in {0, 1}
    BY DEF Read, IndInv, ScalarsOK
  <2> QED
    BY <2>1, OneReaderMoves
<1>2. /\ line' = [line EXCEPT ![r] = None]
      /\ since' = [since EXCEPT ![r] = IF loaded_at # Unset THEN uptime ELSE Unset]
      /\ UNCHANGED <<completed, got, clean, reading>>
  BY DEF Read, session
<1>3. line \in [Readers -> Int] /\ since \in [Readers -> 0 .. MaxTicks \cup {Unset}]
      /\ uptime \in 0 .. MaxTicks
  BY DEF IndInv, ReadersOK, ScalarsOK
<1>4. ReadersOK'
  <2>1. line' \in [Readers -> Int]
    BY <1>2, <1>3 DEF None
  <2>2. since' \in [Readers -> 0 .. MaxTicks \cup {Unset}]
    BY <1>2, <1>3
  <2> QED
    BY <1>1, <1>2, <2>1, <2>2 DEF IndInv, ReadersOK
<1>5. /\ line'[r] = None /\ \A q \in Readers \ {r} : line'[q] = line[q]
      /\ since'[r] # Unset => loaded_at # Unset /\ since'[r] = uptime
      /\ \A q \in Readers \ {r} : since'[q] = since[q]
  BY <1>2, <1>3
<1>6. ReadsTimed'
  <2> SUFFICES ASSUME NEW q \in Readers
               PROVE  /\ reader_pc'[q] \in Inside => line'[q] = None
                      /\ since'[q] # Unset
                           /\ (reader_pc'[q] \in Inside
                               \/ (reader_pc'[q] = "open" /\ line'[q] # None))
                           => loaded_at # Unset /\ loaded_at <= since'[q] /\ since'[q] <= uptime
    BY <1>1 DEF ReadsTimed
  <2>1. CASE q = r
    <3>1. loaded_at # Unset => loaded_at <= uptime
      BY DEF IndInv, ModuleOK
    <3>2. uptime <= uptime
      BY Moments
    <3> QED
      BY <2>1, <3>1, <3>2, <1>5
  <2>2. CASE q # r
    BY <2>2, <1>1, <1>5 DEF IndInv, ReadsTimed
  <2> QED
    BY <2>1, <2>2
<1>7. ClockRead'
  BY <1>1, <1>2, <1>5 DEF IndInv, ClockRead
<1>8. AnswersSecondsSinceLoading'
  BY <1>1, <1>5 DEF IndInv, AnswersSecondsSinceLoading
<1>9. CleanSession'
  <2>1. clean[r] => got[r] = completed
    BY <1>1 DEF IndInv, CleanSession
  <2>2. Moves(r, "open", "checking")
    BY DEF Read
  <2> QED
    BY <1>1, <1>2, <2>1, <2>2, CleanSessionMoves
<1> QED
  BY <1>1, <1>4, <1>6, <1>7, <1>8, <1>9 DEF IndInv

(* The clock is read at a moment of the read: now.                         *)
LEMMA ReadJiffiesKeepsIndInv ==
  ASSUME IndInv, NEW r \in Readers, ReadJiffies(r)
  PROVE  IndInv'
<1>1. /\ ScalarsOK' /\ ModuleOK'
      /\ reader_pc' \in [Readers -> {"closed", "open", "orphaned", "checking", "clearing",
                                     "setting", "timing", "answering", "greeting"}]
      /\ reader_pc[r] = "timing" /\ reader_pc'[r] = "answering"
      /\ \A q \in Readers \ {r} : reader_pc'[q] = reader_pc[q]
      /\ UNCHANGED <<uptime, loaded_at, start_jiffies, program>>
  <2>1. Moves(r, "timing", "answering") /\ completed' \in {0, 1}
    BY DEF ReadJiffies, IndInv, ScalarsOK
  <2> QED
    BY <2>1, OneReaderMoves
<1>2. /\ reading' = [reading EXCEPT ![r] = (FirstJiffies + uptime) % ULONG]
      /\ UNCHANGED <<completed, got, clean, since, line>>
  BY DEF ReadJiffies, session, jiffies
<1>3. reading \in [Readers -> 0 .. ULONG - 1]
  BY DEF IndInv, ReadersOK
<1>4. ReadersOK'
  <2>1. (FirstJiffies + uptime) % ULONG \in 0 .. ULONG - 1
    BY Moments, ClockInRange
  <2>2. reading' \in [Readers -> 0 .. ULONG - 1]
    BY <1>2, <1>3, <2>1
  <2> QED
    BY <1>1, <1>2, <2>2 DEF IndInv, ReadersOK
<1>5. ReadsTimed'
  <2> SUFFICES ASSUME NEW q \in Readers
               PROVE  /\ reader_pc'[q] \in Inside => line[q] = None
                      /\ since[q] # Unset
                           /\ (reader_pc'[q] \in Inside
                               \/ (reader_pc'[q] = "open" /\ line[q] # None))
                           => loaded_at # Unset /\ loaded_at <= since[q] /\ since[q] <= uptime
    BY <1>1, <1>2 DEF ReadsTimed
  <2>1. /\ reader_pc'[q] \in Inside => reader_pc[q] \in Inside
        /\ reader_pc'[q] = "open" => reader_pc[q] = "open"
    BY <1>1 DEF Inside
  <2> QED
    BY <2>1 DEF IndInv, ReadsTimed
<1>6. ClockRead'
  <2> SUFFICES ASSUME NEW q \in Readers, reader_pc'[q] = "answering", since[q] # Unset
               PROVE  \E u \in since[q] .. uptime : reading'[q] = (FirstJiffies + u) % ULONG
    BY <1>1, <1>2 DEF ClockRead
  <2>1. CASE q = r
    <3>1. reader_pc[r] \in Inside
      BY <1>1 DEF Inside
    <3>2. since[q] <= uptime
      BY <3>1, <2>1 DEF IndInv, ReadsTimed
    <3>3. uptime \in since[q] .. uptime
      BY <3>2, Moments
    <3>4. reading'[q] = (FirstJiffies + uptime) % ULONG
      BY <2>1, <1>2, <1>3
    <3> QED
      BY <3>3, <3>4
  <2>2. CASE q # r
    <3>1. reading'[q] = reading[q] /\ reader_pc[q] = "answering"
      BY <2>2, <1>1, <1>2, <1>3
    <3> QED
      BY <3>1 DEF IndInv, ClockRead
  <2> QED
    BY <2>1, <2>2
<1>7. AnswersSecondsSinceLoading'
  BY <1>1, <1>2 DEF IndInv, AnswersSecondsSinceLoading
<1>8. CleanSession'
  <2>1. clean[r] => got[r] = 0 /\ completed = 1
    BY <1>1 DEF IndInv, CleanSession
  <2>2. Moves(r, "timing", "answering")
    BY DEF ReadJiffies
  <2> QED
    BY <1>1, <1>2, <2>1, <2>2, CleanSessionMoves
<1> QED
  BY <1>1, <1>4, <1>5, <1>6, <1>7, <1>8 DEF IndInv

(* Two readings of the clock that wraps, less than a round apart: their    *)
(* difference is that of the moments (seconds.c lines 94 to 96).           *)
LEMMA ElapsedIsRight ==
  ASSUME NEW l \in Nat, NEW u \in Nat, l <= u, u - l < ULONG,
         start_jiffies = (FirstJiffies + l) % ULONG
  PROVE  elapsed_time((FirstJiffies + u) % ULONG) = (u - l) \div HZ
<1>1. ULONG \in Nat \ {0} /\ FirstJiffies + l \in Int /\ u - l \in 0 .. ULONG - 1
  BY ProcAssumption
<1>2. (((FirstJiffies + l + (u - l)) % ULONG) - ((FirstJiffies + l) % ULONG)) % ULONG = u - l
  BY <1>1, DifferenceOfReadings
<1>3. FirstJiffies + l + (u - l) = FirstJiffies + u
  BY ProcAssumption
<1> QED
  BY <1>2, <1>3 DEF elapsed_time

(* The line is computed.                                                   *)
LEMMA AnswerKeepsIndInv ==
  ASSUME IndInv, NEW r \in Readers, Answer(r)
  PROVE  IndInv'
<1>1. /\ ScalarsOK' /\ ModuleOK'
      /\ reader_pc' \in [Readers -> {"closed", "open", "orphaned", "checking", "clearing",
                                     "setting", "timing", "answering", "greeting"}]
      /\ reader_pc[r] = "answering" /\ reader_pc'[r] = "open"
      /\ \A q \in Readers \ {r} : reader_pc'[q] = reader_pc[q]
      /\ UNCHANGED <<uptime, loaded_at, start_jiffies, program>>
  <2>1. Moves(r, "answering", "open") /\ completed' \in {0, 1}
    BY DEF Answer, IndInv, ScalarsOK
  <2> QED
    BY <2>1, OneReaderMoves
<1>2. /\ got' = [got EXCEPT ![r] = IF @ = 2 THEN 2 ELSE @ + 1]
      /\ line' = [line EXCEPT ![r] = elapsed_time(reading[r])]
      /\ reading' = [reading EXCEPT ![r] = 0]
      /\ UNCHANGED <<completed, since, clean>>
  BY DEF Answer, OneMoreLine
<1>3. /\ got \in [Readers -> 0 .. 2] /\ line \in [Readers -> Int]
      /\ reading \in [Readers -> 0 .. ULONG - 1] /\ start_jiffies \in 0 .. ULONG - 1
  BY DEF IndInv, ReadersOK, ScalarsOK
<1>4. elapsed_time(reading[r]) \in Int
  <2>1. PICK x \in Int : x = reading[r] - start_jiffies
    BY <1>3, ProcAssumption
  <2>2. x % ULONG \in Int
    BY ProcAssumption, Division
  <2>3. (x % ULONG) \div HZ \in Int
    BY <2>2, ProcAssumption, Division
  <2> QED
    BY <2>1, <2>3 DEF elapsed_time
<1>5. ReadersOK'
  <2>1. got' \in [Readers -> 0 .. 2]
    BY <1>2, <1>3
  <2>2. line' \in [Readers -> Int]
    BY <1>2, <1>3, <1>4
  <2>3. reading' \in [Readers -> 0 .. ULONG - 1]
    <3>1. 0 \in 0 .. ULONG - 1
      BY ProcAssumption
    <3> QED
      BY <1>2, <1>3, <3>1
  <2> QED
    BY <1>1, <1>2, <2>1, <2>2, <2>3 DEF IndInv, ReadersOK
<1>6. /\ line'[r] = elapsed_time(reading[r])
      /\ \A q \in Readers \ {r} : line'[q] = line[q] /\ reading'[q] = reading[q]
  BY <1>2, <1>3
<1>7. since[r] # Unset => loaded_at # Unset /\ loaded_at <= since[r] /\ since[r] <= uptime
  BY <1>1 DEF IndInv, ReadsTimed, Inside
<1>8. ReadsTimed'
  <2> SUFFICES ASSUME NEW q \in Readers
               PROVE  /\ reader_pc'[q] \in Inside => line'[q] = None
                      /\ since[q] # Unset
                           /\ (reader_pc'[q] \in Inside
                               \/ (reader_pc'[q] = "open" /\ line'[q] # None))
                           => loaded_at # Unset /\ loaded_at <= since[q] /\ since[q] <= uptime
    BY <1>1, <1>2 DEF ReadsTimed
  <2>1. CASE q = r
    BY <2>1, <1>1, <1>7 DEF Inside
  <2>2. CASE q # r
    BY <2>2, <1>1, <1>6 DEF IndInv, ReadsTimed
  <2> QED
    BY <2>1, <2>2
<1>9. ClockRead'
  BY <1>1, <1>2, <1>6 DEF IndInv, ClockRead
<1>10. AnswersSecondsSinceLoading'
  <2> SUFFICES ASSUME NEW q \in Readers, reader_pc'[q] = "open", line'[q] # None,
                      since[q] # Unset, uptime - loaded_at < ULONG
               PROVE  \E u \in since[q] .. uptime : line'[q] = (u - loaded_at) \div HZ
    BY <1>1, <1>2 DEF AnswersSecondsSinceLoading
  <2>1. CASE q = r
    <3>1. PICK u \in since[r] .. uptime : reading[r] = (FirstJiffies + u) % ULONG
      BY <2>1, <1>1 DEF IndInv, ClockRead
    <3>2. /\ loaded_at \in Nat /\ since[r] \in Nat /\ uptime \in Nat
          /\ loaded_at <= since[r]
      BY <2>1, <1>7, Moments
    <3>3. u \in Nat /\ loaded_at <= u /\ u - loaded_at < ULONG
      BY <3>2, ProcAssumption
    <3>4. start_jiffies = (FirstJiffies + loaded_at) % ULONG
      BY <2>1, <1>7 DEF IndInv, ModuleOK
    <3>5. elapsed_time(reading[r]) = (u - loaded_at) \div HZ
      BY <3>1, <3>2, <3>3, <3>4, ElapsedIsRight
    <3> QED
      BY <2>1, <3>5, <1>6
  <2>2. CASE q # r
    BY <2>2, <1>1, <1>6 DEF IndInv, AnswersSecondsSinceLoading
  <2> QED
    BY <2>1, <2>2
<1>11. CleanSession'
  <2>1. clean[r] => got[r] = 0 /\ completed = 1
    BY <1>1 DEF IndInv, CleanSession
  <2>2. clean[r] => got'[r] = 1
    BY <2>1, <1>2, <1>3
  <2>3. Moves(r, "answering", "open")
    BY DEF Answer
  <2> QED
    BY <1>1, <1>2, <2>1, <2>2, <2>3, CleanSessionMoves
<1> QED
  BY <1>1, <1>5, <1>8, <1>9, <1>10, <1>11 DEF IndInv

(* The line of hello has no number.                                        *)
LEMMA GreetKeepsIndInv ==
  ASSUME IndInv, NEW r \in Readers, Greet(r)
  PROVE  IndInv'
<1>1. /\ ScalarsOK' /\ ModuleOK'
      /\ reader_pc' \in [Readers -> {"closed", "open", "orphaned", "checking", "clearing",
                                     "setting", "timing", "answering", "greeting"}]
      /\ reader_pc[r] = "greeting" /\ reader_pc'[r] = "open"
      /\ \A q \in Readers \ {r} : reader_pc'[q] = reader_pc[q]
      /\ UNCHANGED <<uptime, loaded_at, start_jiffies, program>>
  <2>1. Moves(r, "greeting", "open") /\ completed' \in {0, 1}
    BY DEF Greet, IndInv, ScalarsOK
  <2> QED
    BY <2>1, OneReaderMoves
<1>2. /\ got' = [got EXCEPT ![r] = IF @ = 2 THEN 2 ELSE @ + 1]
      /\ UNCHANGED <<completed, clean, reading, since, line>>
  BY DEF Greet, OneMoreLine, answer
<1>3. got \in [Readers -> 0 .. 2]
  BY DEF IndInv, ReadersOK
<1>4. ReadersOK'
  <2>1. got' \in [Readers -> 0 .. 2]
    BY <1>2, <1>3
  <2> QED
    BY <1>1, <1>2, <2>1 DEF IndInv, ReadersOK
<1>5. line[r] = None
  BY <1>1 DEF IndInv, ReadsTimed, Inside
<1>6. ReadsTimed'
  <2> SUFFICES ASSUME NEW q \in Readers
               PROVE  /\ reader_pc'[q] \in Inside => line[q] = None
                      /\ since[q] # Unset
                           /\ (reader_pc'[q] \in Inside
                               \/ (reader_pc'[q] = "open" /\ line[q] # None))
                           => loaded_at # Unset /\ loaded_at <= since[q] /\ since[q] <= uptime
    BY <1>1, <1>2 DEF ReadsTimed
  <2>1. CASE q = r
    BY <2>1, <1>1, <1>5 DEF Inside
  <2>2. CASE q # r
    BY <2>2, <1>1 DEF IndInv, ReadsTimed
  <2> QED
    BY <2>1, <2>2
<1>7. ClockRead'
  BY <1>1, <1>2 DEF IndInv, ClockRead
<1>8. AnswersSecondsSinceLoading'
  BY <1>1, <1>2, <1>5 DEF IndInv, AnswersSecondsSinceLoading
<1>9. CleanSession'
  <2>1. clean[r] => got[r] = 0 /\ completed = 1
    BY <1>1 DEF IndInv, CleanSession
  <2>2. clean[r] => got'[r] = 1
    BY <2>1, <1>2, <1>3
  <2>3. Moves(r, "greeting", "open")
    BY DEF Greet
  <2> QED
    BY <1>1, <1>2, <2>1, <2>2, <2>3, CleanSessionMoves
<1> QED
  BY <1>1, <1>4, <1>6, <1>7, <1>8, <1>9 DEF IndInv

-----------------------------------------------------------------------------
LEMMA NextKeepsIndInv == IndInv /\ [Next]_vars => IndInv'
<1> SUFFICES ASSUME IndInv, [Next]_vars PROVE IndInv'
  OBVIOUS
<1>1. CASE Tick
  BY <1>1, TickKeepsIndInv
<1>2. CASE LoadSeconds \/ LoadHello
  BY <1>2, LoadKeepsIndInv DEF LoadSeconds, LoadHello
<1>3. CASE SetStart
  BY <1>3, SetStartKeepsIndInv
<1>4. CASE proc_exit
  BY <1>4, ExitKeepsIndInv
<1>5. ASSUME NEW r \in Readers,
             Open(r) \/ GiveUp(r) \/ Read(r) \/ ReadFails(r) \/ proc_read(r)
      PROVE  IndInv'
  BY <1>5, OpenKeepsIndInv, ClosingKeepsIndInv, ReadKeepsIndInv, FlagStepKeepsIndInv,
     ReadJiffiesKeepsIndInv, AnswerKeepsIndInv, GreetKeepsIndInv DEF proc_read
<1>6. CASE UNCHANGED vars
  <2>1. UNCHANGED <<program, uptime, module_pc, entry, start_jiffies, loaded_at, completed,
                    reader_pc, got, clean, reading, since, line>>
    BY <1>6 DEF vars, module, session, answer
  <2>2. ScalarsOK' /\ ReadersOK'
    BY <2>1 DEF IndInv, ScalarsOK, ReadersOK
  <2>3. ModuleOK' /\ ReadsTimed' /\ ClockRead'
    BY <2>1 DEF IndInv, ModuleOK, ReadsTimed, ClockRead
  <2>4. AnswersSecondsSinceLoading' /\ CleanSession'
    BY <2>1 DEF IndInv, AnswersSecondsSinceLoading, CleanSession
  <2> QED
    BY <2>2, <2>3, <2>4 DEF IndInv
<1> QED
  BY <1>1, <1>2, <1>3, <1>4, <1>5, <1>6 DEF Next

LEMMA IndInvHolds == SafeSpec => []IndInv
BY InitEstablishesIndInv, NextKeepsIndInv, PTL DEF SafeSpec

(* The flag, the clock and what the readers have stay in their ranges.     *)
THEOREM TypeCorrect == SafeSpec => []TypeOK
<1>1. IndInv => TypeOK
  BY DEF IndInv, ScalarsOK, ReadersOK, TypeOK
<1> QED
  BY <1>1, IndInvHolds, PTL

(* The number in a line of /proc/seconds is the seconds from loading to a  *)
(* moment of the read that got it, whatever the other readers, the removal *)
(* of the module and the wrapping of jiffies do (seconds.c lines 47 and 94 *)
(* to 96).                                                                 *)
THEOREM SecondsAreRight == SafeSpec => []AnswersSecondsSinceLoading
<1>1. IndInv => AnswersSecondsSinceLoading
  BY DEF IndInv
<1> QED
  BY <1>1, IndInvHolds, PTL

(* A step that returns zero to a clean session does so after one line and  *)
(* leaves the flag down for the next (seconds.c lines 83 to 88).           *)
LEMMA CleanSessionStep ==
  ASSUME IndInv, [Next]_vars, NEW r \in Readers, clean[r],
         reader_pc[r] = "clearing", reader_pc'[r] = "closed"
  PROVE  got[r] = 1 /\ completed' = 0
<1>1. /\ got[r] = 1
      /\ \A u \in Readers \ {r} : reader_pc[u] = "closed"
  BY DEF IndInv, CleanSession
<1>2. reader_pc \in [Readers -> {"closed", "open", "orphaned", "checking", "clearing",
                                 "setting", "timing", "answering", "greeting"}]
  BY DEF IndInv, ReadersOK
<1>3. ~ UNCHANGED reader_pc
  OBVIOUS
<1>4. ~ (Tick \/ LoadSeconds \/ LoadHello \/ SetStart \/ proc_exit \/ UNCHANGED vars)
  <2>1. ~ proc_exit
    BY DEF proc_exit
  <2> QED
    BY <1>3, <2>1 DEF Tick, LoadSeconds, LoadHello, Load, SetStart, vars
<1>5. PICK q \in Readers : Open(q) \/ GiveUp(q) \/ Read(q) \/ ReadFails(q) \/ proc_read(q)
  BY <1>4 DEF Next
<1>6. PICK from, to : Moves(q, from, to)
  BY <1>5 DEF Open, GiveUp, Read, ReadFails, proc_read, FindCompleted, Clear, FindFresh,
              SetFlag, ReadJiffies, Answer, Greet
<1>7. q = r
  <2>1. reader_pc' = [reader_pc EXCEPT ![q] = to]
    BY <1>6 DEF Moves
  <2> QED
    BY <2>1, <1>2
<1>8. Clear(r)
  BY <1>5, <1>7 DEF Open, GiveUp, Read, ReadFails, proc_read, FindCompleted, FindFresh,
                    SetFlag, ReadJiffies, Answer, Greet, Moves
<1> QED
  BY <1>1, <1>8 DEF Clear

THEOREM CleanSessionsGetOneLine == SafeSpec => CleanSessionGetsOneLine
<1>1. IndInv /\ [Next]_vars =>
        [\A r \in Readers :
           (clean[r] /\ reader_pc[r] = "clearing" /\ reader_pc'[r] = "closed") =>
             (got[r] = 1 /\ completed' = 0)]_vars
  BY CleanSessionStep
<1> QED
  BY <1>1, IndInvHolds, PTL DEF SafeSpec, CleanSessionGetsOneLine
=============================================================================
