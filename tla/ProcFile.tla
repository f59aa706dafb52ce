------------------------------- MODULE ProcFile -------------------------------
(***************************************************************************)
(* The kernel modules of Assignment 1, solution/seconds.c and hello in     *)
(* newKernel/ (oldKernel/ is the same code for another kernel interface):  *)
(* a file in /proc that is made when the module is loaded and is read by   *)
(* any number of programs.  A program reads until it is given zero bytes;  *)
(* the module tells the first read of a session from the second by one     *)
(* static flag, completed.                                                 *)
(*                                                                         *)
(* An action is a step of one processor between two accesses to what the   *)
(* readers share.  later_jiffies is written by the readers and used by the *)
(* one that wrote it: the kernel is built with optimisation, which keeps   *)
(* the value in a register (reading).  What the kernel does with files in  *)
(* /proc is external: removal waits for the reads that are in progress,    *)
(* and reads of a file that was removed fail.                              *)
(***************************************************************************)
EXTENDS Integers

CONSTANTS
  Readers,
  Programs,      \* the modules to look at, of "seconds" and "hello"
  HZ,            \* ticks in a second
  ULONG,         \* how many values an unsigned long has
  FirstJiffies,  \* jiffies at boot: the kernel starts it shortly before it wraps
  MaxTicks       \* bound: how long the machine runs

ASSUME ProcAssumption ==
  /\ Programs \subseteq {"seconds", "hello"}
  /\ HZ \in Nat \ {0}
  /\ ULONG \in Nat \ {0}
  /\ FirstJiffies \in 0 .. ULONG - 1
  /\ MaxTicks \in Nat

VARIABLES
  program,
  uptime,         \* ticks since boot
  module_pc,      \* where the module is
  entry,          \* whether the file is in /proc
  start_jiffies, completed,
  reader_pc,      \* where each reader is
  reading,        \* what each has read of the clock
  got,            \* the lines each has got in its session: 0, 1, or 2 for more
  loaded_at,      \* the moment start_jiffies is for
  since,          \* when each began its last read, Unset if that was too early
  line,           \* the seconds in the last line of each, or None
  clean           \* whether each session began alone, with the flag down, and
                  \* has stayed alone

module  == <<module_pc, entry, start_jiffies, loaded_at>>
session == <<got, clean>>
answer  == <<reading, since, line>>
vars    == <<program, uptime, module, completed, reader_pc, session, answer>>

None  == -1
Unset == -2

jiffies == (FirstJiffies + uptime) % ULONG

Init ==
  /\ program \in Programs
  /\ uptime = 0
  /\ module_pc = "not loaded"
  /\ entry = FALSE
  /\ start_jiffies = 0
  /\ completed = 0
  /\ reader_pc = [r \in Readers |-> "closed"]
  /\ reading = [r \in Readers |-> 0]
  /\ got = [r \in Readers |-> 0]
  /\ loaded_at = Unset
  /\ since = [r \in Readers |-> Unset]
  /\ line = [r \in Readers |-> None]
  /\ clean = [r \in Readers |-> FALSE]

Tick ==
  /\ uptime < MaxTicks
  /\ uptime' = uptime + 1
  /\ UNCHANGED <<program, module, completed, reader_pc, session, answer>>

-----------------------------------------------------------------------------
(* Loading: fresh static variables, and the file, unless proc_create fails,*)
(* which proc_init ignores.  The file can be opened from here on.          *)
Load(next) ==
  /\ module_pc = "not loaded"
  /\ module_pc' = next
  /\ entry' \in BOOLEAN
  /\ start_jiffies' = 0
  /\ completed' = 0
  /\ loaded_at' = Unset
  /\ UNCHANGED <<program, uptime, reader_pc, session, answer>>

LoadSeconds == program = "seconds" /\ Load("starting")
LoadHello   == program = "hello" /\ Load("loaded")

SetStart ==
  /\ module_pc = "starting"
  /\ module_pc' = "loaded"
  /\ start_jiffies' = jiffies
  /\ loaded_at' = uptime
  /\ UNCHANGED <<program, uptime, entry, completed, reader_pc, session, answer>>

(* Nobody is inside proc_read; who has the file open is left without it.   *)
proc_exit ==
  /\ module_pc = "loaded"
  /\ \A r \in Readers : reader_pc[r] \in {"closed", "open", "orphaned"}
  /\ module_pc' = "not loaded"
  /\ entry' = FALSE
  /\ reader_pc' = [r \in Readers |-> IF reader_pc[r] = "closed" THEN "closed"
                                     ELSE "orphaned"]
  /\ UNCHANGED <<program, uptime, start_jiffies, loaded_at, completed, session, answer>>

-----------------------------------------------------------------------------
(* The reading program.                                                    *)
Moves(r, from, to) ==
  /\ reader_pc[r] = from
  /\ reader_pc' = [reader_pc EXCEPT ![r] = to]
  /\ UNCHANGED <<program, uptime, module>>

Open(r) ==
  /\ entry
  /\ Moves(r, "closed", "open")
  /\ got' = [got EXCEPT ![r] = 0]
  /\ line' = [line EXCEPT ![r] = None]
  /\ clean' = [q \in Readers |->
                 q = r /\ completed = 0 /\ \A u \in Readers \ {r} : reader_pc[u] = "closed"]
  /\ UNCHANGED <<completed, reading, since>>

Read(r) ==
  /\ Moves(r, "open", "checking")
  /\ line' = [line EXCEPT ![r] = None]
  /\ since' = [since EXCEPT ![r] = IF loaded_at # Unset THEN uptime ELSE Unset]
  /\ UNCHANGED <<completed, session, reading>>

(* A program that is killed, or reads no further than the line.            *)
GiveUp(r) ==
  /\ Moves(r, "open", "closed")
  /\ UNCHANGED <<completed, session, answer>>

ReadFails(r) ==
  /\ Moves(r, "orphaned", "closed")
  /\ UNCHANGED <<completed, session, answer>>

-----------------------------------------------------------------------------
(* proc_read, for seconds up to Answer, for hello up to Greet.             *)
FindCompleted(r) ==
  /\ completed = 1
  /\ Moves(r, "checking", "clearing")
  /\ UNCHANGED <<completed, session, answer>>

FindFresh(r) ==
  /\ completed = 0
  /\ Moves(r, "checking", "setting")
  /\ UNCHANGED <<completed, session, answer>>

(* Mutant: the flag stays up.                                              *)
ReturnZero(r) ==
  /\ Moves(r, "clearing", "closed")
  /\ UNCHANGED <<completed, session, answer>>

(* Zero is returned and ends the session.                                  *)
Clear(r) ==
  /\ Moves(r, "clearing", "closed")
  /\ completed' = 0
  /\ UNCHANGED <<session, answer>>

(* Mutant: the flag is not put up.                                         *)
Pass(r) ==
  /\ Moves(r, "setting", IF program = "seconds" THEN "timing" ELSE "greeting")
  /\ UNCHANGED <<completed, session, answer>>

SetFlag(r) ==
  /\ Moves(r, "setting", IF program = "seconds" THEN "timing" ELSE "greeting")
  /\ completed' = 1
  /\ UNCHANGED <<session, answer>>

ReadJiffies(r) ==
  /\ Moves(r, "timing", "answering")
  /\ reading' = [reading EXCEPT ![r] = jiffies]
  /\ UNCHANGED <<completed, session, since, line>>

OneMoreLine(r) == got' = [got EXCEPT ![r] = IF @ = 2 THEN 2 ELSE @ + 1]

(* Mutant: the difference is that of integers.                             *)
ElapsedWithoutWrap(later) == (later - start_jiffies) \div HZ

elapsed_time(later) == ((later - start_jiffies) % ULONG) \div HZ

(* What was read of the clock is of no use after the line and is forgotten.*)
Answer(r) ==
  /\ Moves(r, "answering", "open")
  /\ OneMoreLine(r)
  /\ line' = [line EXCEPT ![r] = elapsed_time(reading[r])]
  /\ reading' = [reading EXCEPT ![r] = 0]
  /\ UNCHANGED <<completed, since, clean>>

Greet(r) ==
  /\ Moves(r, "greeting", "open")
  /\ OneMoreLine(r)
  /\ UNCHANGED <<completed, answer, clean>>

proc_read(r) ==
  \/ FindCompleted(r) \/ Clear(r)
  \/ FindFresh(r) \/ SetFlag(r) \/ ReadJiffies(r) \/ Answer(r) \/ Greet(r)

Next ==
  \/ Tick \/ LoadSeconds \/ LoadHello \/ SetStart \/ proc_exit
  \/ \E r \in Readers : Open(r) \/ GiveUp(r) \/ Read(r) \/ ReadFails(r) \/ proc_read(r)

SafeSpec == Init /\ [][Next]_vars

(* A program that has the file open reads on, and a read gets its turn;    *)
(* nobody need open the file, and nobody need load the module or wait.     *)
Spec ==
  /\ SafeSpec
  /\ \A r \in Readers : WF_vars(Read(r) \/ ReadFails(r) \/ proc_read(r))

-----------------------------------------------------------------------------
TypeOK ==
  /\ program \in Programs
  /\ uptime \in 0 .. MaxTicks
  /\ module_pc \in {"not loaded", "starting", "loaded"}
  /\ entry \in BOOLEAN
  /\ start_jiffies \in 0 .. ULONG - 1
  /\ completed \in {0, 1}
  /\ reader_pc \in [Readers -> {"closed", "open", "orphaned", "checking", "clearing",
                                "setting", "timing", "answering", "greeting"}]
  /\ reading \in [Readers -> 0 .. ULONG - 1]
  /\ got \in [Readers -> 0 .. 2]
  /\ loaded_at \in 0 .. MaxTicks \cup {Unset}
  /\ since \in [Readers -> 0 .. MaxTicks \cup {Unset}]
  /\ line \in [Readers -> Int]
  /\ clean \in [Readers -> BOOLEAN]

(* A line has the seconds since loading, counted at some moment of its     *)
(* read, whatever other readers do, and when jiffies wraps in between.     *)
(* Excepted are a read that began before start_jiffies was set and a       *)
(* module that has been loaded for longer than an unsigned long can tell   *)
(* (seconds.c lines 47 and 94 to 96).                                      *)
AnswersSecondsSinceLoading ==
  \A r \in Readers :
    /\ reader_pc[r] = "open" /\ line[r] # None /\ since[r] # Unset
    /\ uptime - loaded_at < ULONG
    => \E u \in since[r] .. uptime : line[r] = (u - loaded_at) \div HZ

(* A session that found the flag down and had no company gets one line and *)
(* leaves the flag down (lines 83 to 88).                                  *)
CleanSessionGetsOneLine ==
  [][\A r \in Readers :
       (clean[r] /\ reader_pc[r] = "clearing" /\ reader_pc'[r] = "closed") =>
         (got[r] = 1 /\ completed' = 0)]_vars

(* The comment before proc_read, "it ultimately returns 0": it does for a  *)
(* reader that is alone from some moment on, whatever state those before   *)
(* it left (lines 63 to 88).                                               *)
SessionEndsWhenAlone ==
  \A r \in Readers :
    <>[](\A q \in Readers \ {r} : reader_pc[q] = "closed") => []<>(reader_pc[r] = "closed")
=============================================================================
