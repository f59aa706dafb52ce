---------------------------- MODULE ShellProofs ----------------------------
(***************************************************************************)
(* For every size of the history and of args and every set of lines: the   *)
(* types of the shell of shell.c, the commands it waits for, the command   *)
(* it starts, and that the ring with its two indices and two counters is a *)
(* log of the last commands.                                               *)
(*                                                                         *)
(* The log is read off the ring by a computed start, which is the oldest   *)
(* command only because history_count follows the total and the write      *)
(* index follows history_count until the ring is full (CountersAgree).     *)
(* That ! ! runs what it has just entered needs the slots in use to hold   *)
(* nothing add_to_history refuses (OnlyCommandsKept).  What is awaited     *)
(* depends on what get_args found, which is kept with the child that was   *)
(* started (WaitsForForeground).                                           *)
(***************************************************************************)
EXTENDS Shell, RingLemmas

(* history_count and the write index follow the number of commands: while  *)
(* the ring is not full it is filled from slot 0.                          *)
CountersAgree ==
  /\ history_count = IF total_command_count < HISTORY_SIZE THEN total_command_count
                     ELSE HISTORY_SIZE
  /\ history_count < HISTORY_SIZE => history_next = history_count

(* The slots in use hold commands, so that ! ! enters what it repeats.     *)
OnlyCommandsKept ==
  \A i \in 0 .. HISTORY_SIZE - 1 : i < history_count => history[i] \notin {Empty, History, Last}

(* A child that get_args found no ampersand for.                           *)
Foreground(p) == proc[p] # "free" /\ ~EndsInAmpersand(Taken(runs[p]))

(* The shell waits exactly when there is such a child, and for that child. *)
WaitsForForeground ==
  /\ \A p \in PIDS : Foreground(p) => pc = "waiting" /\ pid = p
  /\ pc = "waiting" => pid \in PIDS /\ Foreground(pid)

(* TypeOK in two halves, each with what it needs to be kept.               *)
HistoryOK ==
  /\ history \in [0 .. HISTORY_SIZE - 1 -> AllLines]
  /\ history_count \in 0 .. HISTORY_SIZE
  /\ history_next \in 0 .. HISTORY_SIZE - 1
  /\ total_command_count \in 0 .. INT_MAX
  /\ CountersAgree
  /\ OnlyCommandsKept

ChildrenOK ==
  /\ pc \in {"reaping", "reading", "waiting", "ended"}
  /\ input \in {"open", "closed"}
  /\ commands \in AllLines
  /\ has_ampersand \in BOOLEAN
  /\ proc \in [PIDS -> {"free", "running", "zombie"}]
  /\ runs \in [PIDS -> AllLines]
  /\ pid \in PIDS \cup {NoPid}
  /\ WaitsForForeground

IndInv == HistoryOK /\ ChildrenOK

-----------------------------------------------------------------------------
(* Lines and their words.  (That "" is a string the provers do not know.)  *)
Fields == STRING \cup {""}

LEMMA WordsType ==
  ASSUME NEW line \in Seq(Fields)
  PROVE  Words(line) \subseteq 1 .. Len(line) /\ Words(line) \in SUBSET Nat
<1>1. PICK n \in Nat : n = Len(line) /\ DOMAIN line = 1 .. n
  BY LenProperties
<1>2. Words(line) \subseteq DOMAIN line
  BY DEF Words
<1> QED
  BY <1>1, <1>2

(* The first word of a line that has one.                                  *)
LEMMA FirstWord ==
  ASSUME NEW line \in Seq(Fields), Words(line) # {}
  PROVE  \E m \in Words(line) :
           /\ \A j \in Words(line) : m <= j
           /\ Cut(line) = SubSeq(line, 1, m)
<1> DEFINE m == CHOOSE i \in Words(line) : \A j \in Words(line) : i <= j
<1>1. \E i \in Words(line) : \A j \in Words(line) : i <= j
  BY WordsType, MinIsFirst
<1>2. m \in Words(line) /\ \A j \in Words(line) : m <= j
  BY <1>1
<1>3. Cut(line) = SubSeq(line, 1, m)
  BY DEF Cut
<1> QED
  BY <1>2, <1>3

(* strtok leaves a line alone that it has cut before.                      *)
LEMMA CutOfCut ==
  ASSUME NEW line \in Seq(Fields)
  PROVE  Cut(line) \in Seq(Fields) /\ Cut(Cut(line)) = Cut(line)
<1>1. CASE Words(line) = {}
  BY <1>1 DEF Cut
<1>2. CASE Words(line) # {}
  <2>1. PICK m \in Words(line) : /\ \A j \in Words(line) : m <= j
                                 /\ Cut(line) = SubSeq(line, 1, m)
    BY <1>2, FirstWord
  <2> DEFINE c == Cut(line)
  <2>2. m \in 1 .. Len(line) /\ Len(line) \in Nat /\ DOMAIN line = 1 .. Len(line)
    BY WordsType, LenProperties
  <2>3. \A i \in 1 .. m : line[i] \in Fields
    BY <2>2, ElementOfSeq
  <2>4. /\ c \in Seq(Fields) /\ Len(c) = m
        /\ \A i \in 1 .. m : c[i] = line[i]
    BY <2>1, <2>2, <2>3, SubSeqProperties
  <2>5. DOMAIN c = 1 .. m
    BY <2>4, LenProperties
  <2> HIDE DEF c
  <2>6. \A i \in Nat : i \in Words(c) <=> i \in 1 .. m /\ i \in Words(line)
    <3>1. \A i : i \in Words(c) <=> i \in DOMAIN c /\ c[i] # ""
      BY Zenon DEF Words
    <3>2. \A i : i \in Words(line) <=> i \in DOMAIN line /\ line[i] # ""
      BY Zenon DEF Words
    <3>3. 1 .. m \subseteq DOMAIN line
      BY <2>2
    <3> QED
      BY <3>1, <3>2, <3>3, <2>4, <2>5, Zenon
  <2>7. Words(c) = {m}
    <3>1. Words(c) \in SUBSET Nat
      BY <2>4, WordsType
    <3>2. \A i \in Words(c) : i = m
      BY <2>1, <2>2, <2>6, <3>1
    <3>3. m \in Words(c)
      BY <2>2, <2>6
    <3> QED
      BY <3>2, <3>3
  <2>8. Cut(c) = SubSeq(c, 1, m)
    BY <2>4, <2>7, FirstWord
  <2>9. SubSeq(c, 1, m) = c
    BY <2>4, SubSeqFull
  <2> QED
    BY <2>4, <2>8, <2>9 DEF c
<1> QED
  BY <1>1, <1>2

(* The empty line has no word, and what a user may type is a line.         *)
LEMMA EmptyHasNoWord == Words(Empty) = {} /\ Empty \in Seq(Fields)
<1>1. DOMAIN Empty = 1 .. 1 /\ Empty[1] = ""
  BY DEF Empty
<1>2. \A i \in 1 .. 1 : i = 1
  OBVIOUS
<1>3. \A i \in DOMAIN Empty : ~(Empty[i] # "")
  BY <1>1, <1>2
<1>4. Words(Empty) = {}
  BY <1>3, Zenon DEF Words
<1>5. "" \in Fields
  BY DEF Fields
<1>6. <<"">> \in Seq(Fields)
  <2>1. ASSUME NEW S, NEW f \in S PROVE <<f>> \in Seq(S)
    OBVIOUS
  <2> QED
    BY <1>5, <2>1, Zenon
<1> QED
  BY <1>4, <1>6 DEF Empty

(* What is typed is a sequence of fields.                                  *)
LEMMA LinesAreSequences == Lines \subseteq Seq(Fields)
<1> SUFFICES ASSUME NEW line \in Lines PROVE line \in Seq(Fields)
  OBVIOUS
<1>1. STRING \subseteq Fields
  BY DEF Fields
<1>2. line \in Seq(STRING)
  BY ShellAssumption
<1> QED
  BY <1>1, <1>2, SeqMonotonic

(* What a line may be stays one when it is cut.                            *)
LEMMA LinesAreCut ==
  ASSUME NEW line \in AllLines
  PROVE  line \in Seq(Fields) /\ Cut(line) \in AllLines
<1>1. Lines \subseteq Seq(Fields)
  BY LinesAreSequences
<1>2. CASE line \in Lines
  BY <1>1, <1>2 DEF AllLines
<1>3. ASSUME NEW l \in Lines, line = Cut(l)
      PROVE  line \in Seq(Fields) /\ Cut(line) \in AllLines
  BY <1>1, <1>3, CutOfCut DEF AllLines
<1>4. CASE line = Empty
  BY <1>4, EmptyHasNoWord DEF Cut, AllLines
<1> QED
  BY <1>2, <1>3, <1>4 DEF AllLines

(* Where args has room for all the tokens of a line it gets them all.      *)
LEMMA AllTokensTaken ==
  ASSUME NEW line \in Seq(Fields)
  PROVE  /\ Len(Tokens(line)) \in Nat
         /\ Len(Tokens(line)) < ARGUMENT_SIZE => Taken(line) = Tokens(line)
<1> DEFINE W == Words(line)
           n == Cardinality(W)
           Word(k) == line[CHOOSE i \in W : Cardinality({j \in W : j <= i}) = k]
           S == {Word(k) : k \in 1 .. n}
<1>1. Tokens(line) = [k \in 1 .. n |-> Word(k)]
  BY DEF Tokens
<1>2. n \in Nat
  <2>1. Len(line) \in Nat
    BY LenProperties
  <2>2. IsFiniteSet(1 .. Len(line))
    BY <2>1, FS_Interval
  <2>3. W \subseteq 1 .. Len(line)
    BY WordsType
  <2> QED
    BY <2>2, <2>3, FS_Subset, FS_CardinalityType
<1>3. Tokens(line) \in [1 .. n -> S]
  BY <1>1
<1> HIDE DEF n, S
<1>4. Tokens(line) \in Seq(S) /\ Len(Tokens(line)) = n
  BY <1>2, <1>3
<1>5. SubSeq(Tokens(line), 1, Len(Tokens(line))) = Tokens(line)
  BY <1>4, SubSeqFull
<1> QED
  BY <1>2, <1>4, <1>5 DEF Taken

-----------------------------------------------------------------------------
(* The history.                                                            *)
(* The assumption without the lines.                                       *)
LEMMA SizesArePositive ==
  HISTORY_SIZE \in Nat \ {0, 1} /\ ARGUMENT_SIZE \in Nat \ {0, 1} /\ INT_MAX \in Nat
BY ShellAssumption

(* Nothing is remembered at first.                                         *)
LEMMA InitHistory == Init => HistoryOK
<1> SUFFICES ASSUME Init PROVE HistoryOK
  OBVIOUS
<1>1. Empty \in AllLines
  BY DEF AllLines
<1>2. history = [i \in 0 .. HISTORY_SIZE - 1 |-> Empty]
  BY DEF Init
<1>3. history_count = 0 /\ history_next = 0 /\ total_command_count = 0
  BY DEF Init
<1>4. history \in [0 .. HISTORY_SIZE - 1 -> AllLines]
  BY <1>1, <1>2
<1>5. CountersAgree
  BY <1>3, SizesArePositive DEF CountersAgree
<1>6. OnlyCommandsKept
  BY <1>3 DEF OnlyCommandsKept
<1> QED
  BY <1>3, <1>4, <1>5, <1>6, SizesArePositive DEF HistoryOK

(* ! ! finds a command in the last slot that was written.                  *)
LEMMA LastIsACommand ==
  ASSUME HistoryOK, history_count > 0
  PROVE  /\ last_index \in 0 .. HISTORY_SIZE - 1
         /\ history[last_index] \in AllLines \ {Empty, History, Last}
<1> DEFINE n == HISTORY_SIZE
<1>1. n \in Nat \ {0} /\ history_next \in 0 .. n - 1 /\ history_count \in 1 .. n
  BY SizesArePositive DEF HistoryOK
<1>2. (history_next - 1 + n) % n = IF history_next = 0 THEN n - 1 ELSE history_next - 1
  BY <1>1, BackInRing
<1>3. last_index \in 0 .. n - 1 /\ last_index < history_count
  <2>1. history_count < n => history_next = history_count
    BY DEF HistoryOK, CountersAgree
  <2> QED
    BY <1>1, <1>2, <2>1 DEF last_index
<1> QED
  BY <1>3 DEF HistoryOK, OnlyCommandsKept

(* A command is written to the next slot, and that is the last one then.   *)
LEMMA AddKeepsHistory ==
  ASSUME HistoryOK, NEW line \in AllLines \ {Empty, History, Last}, add_to_history(line)
  PROVE  /\ HistoryOK'
         /\ history'[last_index'] = line
         /\ total_command_count' = total_command_count + 1
<1> DEFINE n == HISTORY_SIZE
<1>1. /\ n \in Nat \ {0, 1} /\ INT_MAX \in Nat
      /\ history_next \in 0 .. n - 1 /\ history_count \in 0 .. n
      /\ total_command_count \in 0 .. INT_MAX
      /\ history \in [0 .. n - 1 -> AllLines]
  BY SizesArePositive DEF HistoryOK
<1>2. /\ total_command_count < INT_MAX
      /\ history' = [history EXCEPT ![history_next] = line]
      /\ history_next' = (history_next + 1) % n
      /\ history_count' = IF history_count < n THEN history_count + 1 ELSE history_count
      /\ total_command_count' = total_command_count + 1
  BY DEF add_to_history
<1>3. history_next' = IF history_next + 1 = n THEN 0 ELSE history_next + 1
  BY <1>1, <1>2, NextIndex
<1>4. last_index' = history_next
  <2>1. PICK x \in 0 .. n - 1 : x = history_next'
    BY <1>1, <1>3
  <2>2. (x - 1 + n) % n = IF x < 1 THEN x - 1 + n ELSE x - 1
    BY <1>1, BackInRing
  <2> QED
    BY <1>1, <1>3, <2>1, <2>2 DEF last_index
<1>5. CountersAgree'
  <2>1. /\ history_count = IF total_command_count < n THEN total_command_count ELSE n
        /\ history_count < n => history_next = history_count
    BY DEF HistoryOK, CountersAgree
  <2> QED
    BY <1>1, <1>2, <1>3, <2>1 DEF CountersAgree
<1>6. OnlyCommandsKept'
  <2> SUFFICES ASSUME NEW i \in 0 .. n - 1, i < history_count'
               PROVE  history'[i] \notin {Empty, History, Last}
    BY DEF OnlyCommandsKept
  <2>1. CASE i = history_next
    BY <2>1, <1>1, <1>2
  <2>2. CASE i # history_next
    <3>1. i < history_count
      BY <1>1, <1>2, <2>2 DEF HistoryOK, CountersAgree
    <3> QED
      BY <3>1, <2>2, <1>1, <1>2 DEF HistoryOK, OnlyCommandsKept
  <2> QED
    BY <2>1, <2>2
<1>7. history' \in [0 .. n - 1 -> AllLines] /\ history'[history_next] = line
  BY <1>1, <1>2
<1> QED
  BY <1>1, <1>2, <1>3, <1>4, <1>5, <1>6, <1>7 DEF HistoryOK

-----------------------------------------------------------------------------
(* The children.                                                           *)
(* Nor is there a child.                                                   *)
LEMMA InitChildren == Init => ChildrenOK
<1> SUFFICES ASSUME Init PROVE ChildrenOK
  OBVIOUS
<1>1. Empty \in AllLines
  BY DEF AllLines
<1>2. pc = "reaping" /\ input = "open" /\ pid = NoPid
  BY DEF Init
<1>3. commands = Empty
  BY DEF Init
<1>4. has_ampersand \in BOOLEAN
  BY Zenon DEF Init
<1>5. proc = [p \in PIDS |-> "free"]
  BY DEF Init
<1>6. runs = [p \in PIDS |-> Empty]
  BY DEF Init
<1>7. /\ proc \in [PIDS -> {"free", "running", "zombie"}]
      /\ \A p \in PIDS : proc[p] = "free"
  BY <1>5
<1>8. runs \in [PIDS -> AllLines]
  BY <1>1, <1>6
<1>9. WaitsForForeground
  BY <1>2, <1>7 DEF WaitsForForeground, Foreground
<1> QED
  BY <1>1, <1>2, <1>3, <1>4, <1>7, <1>8, <1>9 DEF ChildrenOK

(* The child that fork starts is the only one the shell may have to wait   *)
(* for, and it waits for it unless get_args has found an ampersand.  Where *)
(* fork fails nothing is waited for.                                       *)
LEMMA ExecuteKeepsChildren ==
  ASSUME ChildrenOK, pc = "reading", input' \in {"open", "closed"},
         NEW line \in AllLines, execute_command(line)
  PROVE  /\ ChildrenOK'
         /\ \A p \in PIDS : proc[p] = "free" /\ proc'[p] = "running" => runs'[p] = line
<1> DEFINE ampersand == EndsInAmpersand(Taken(line))
<1>0. ampersand \in BOOLEAN
  BY DEF EndsInAmpersand
<1> HIDE DEF ampersand
<1>1. /\ commands' = Cut(line) /\ has_ampersand' = ampersand
      /\ pc' = IF pid' # NoPid /\ ~has_ampersand' THEN "waiting" ELSE "reaping"
  BY DEF execute_command, get_args, ampersand
<1>2. commands' \in AllLines
  BY <1>1, LinesAreCut
<1>3. has_ampersand' \in BOOLEAN /\ (has_ampersand' <=> ampersand)
  BY <1>0, <1>1, Zenon
<1>4. pc' \in {"reaping", "waiting"} /\ (pc' = "waiting" <=> pid' # NoPid /\ ~ampersand)
  BY <1>1, <1>3
<1>5. /\ proc \in [PIDS -> {"free", "running", "zombie"}]
      /\ runs \in [PIDS -> AllLines]
      /\ \A p \in PIDS : ~Foreground(p)
  BY DEF ChildrenOK, WaitsForForeground
<1>6. ASSUME NEW p \in PIDS, proc[p] = "free", pid' = p,
             proc' = [proc EXCEPT ![p] = "running"], runs' = [runs EXCEPT ![p] = line]
      PROVE  /\ pid' \in PIDS
             /\ proc' \in [PIDS -> {"free", "running", "zombie"}]
             /\ runs' \in [PIDS -> AllLines]
             /\ WaitsForForeground'
             /\ \A q \in PIDS : proc[q] = "free" /\ proc'[q] = "running" => runs'[q] = line
  <2>1. /\ proc' \in [PIDS -> {"free", "running", "zombie"}]
        /\ runs' \in [PIDS -> AllLines]
        /\ proc'[p] = "running" /\ runs'[p] = line
        /\ \A q \in PIDS : q # p => proc'[q] = proc[q] /\ runs'[q] = runs[q]
    BY <1>5, <1>6
  <2>2. p # NoPid
    BY ShellAssumption DEF NoPid
  <2>3. Foreground(p)' <=> ~ampersand
    BY <2>1 DEF Foreground, ampersand
  <2>4. \A q \in PIDS : q # p => ~Foreground(q)'
    BY <1>5, <2>1 DEF Foreground
  <2>5. WaitsForForeground'
    BY <1>4, <1>6, <2>2, <2>3, <2>4 DEF WaitsForForeground
  <2> QED
    BY <1>6, <2>1, <2>5
<1>7. CASE pid' = NoPid /\ UNCHANGED <<proc, runs>>
  <2>1. \A q \in PIDS : ~Foreground(q)'
    BY <1>5, <1>7 DEF Foreground
  <2>2. WaitsForForeground'
    BY <1>4, <1>7, <2>1 DEF WaitsForForeground
  <2> QED
    BY <1>2, <1>3, <1>4, <1>5, <1>7, <2>2 DEF ChildrenOK
<1>8. \/ \E p \in PIDS : /\ proc[p] = "free" /\ pid' = p
                         /\ proc' = [proc EXCEPT ![p] = "running"]
                         /\ runs' = [runs EXCEPT ![p] = line]
      \/ pid' = NoPid /\ UNCHANGED <<proc, runs>>
  <2>1. Fork(line)
    BY Zenon DEF execute_command
  <2> QED
    BY <2>1 DEF Fork
<1>9. CASE \E p \in PIDS : /\ proc[p] = "free" /\ pid' = p
                           /\ proc' = [proc EXCEPT ![p] = "running"]
                           /\ runs' = [runs EXCEPT ![p] = line]
  <2>1. /\ pid' \in PIDS
        /\ proc' \in [PIDS -> {"free", "running", "zombie"}]
        /\ runs' \in [PIDS -> AllLines]
        /\ WaitsForForeground'
        /\ \A q \in PIDS : proc[q] = "free" /\ proc'[q] = "running" => runs'[q] = line
    BY <1>6, <1>9, Zenon
  <2> QED
    BY <1>2, <1>3, <1>4, <2>1 DEF ChildrenOK
<1> QED
  BY <1>7, <1>8, <1>9

(* A child that is gone is not waited for any more.                        *)
LEMMA ReleaseKeepsChildren ==
  ASSUME ChildrenOK, NEW p \in PIDS, Release(p),
         UNCHANGED <<input, commands, has_ampersand, pid>>,
         \/ pc = "reaping" /\ pc' = pc
         \/ pc = "waiting" /\ pid = p /\ pc' = "reaping"
  PROVE  ChildrenOK' /\ \A q \in PIDS : ~(proc[q] = "free" /\ proc'[q] = "running")
<1>1. /\ proc \in [PIDS -> {"free", "running", "zombie"}]
      /\ runs \in [PIDS -> AllLines]
      /\ commands \in AllLines /\ has_ampersand \in BOOLEAN /\ input \in {"open", "closed"}
      /\ pid \in PIDS \cup {NoPid}
      /\ WaitsForForeground
  BY DEF ChildrenOK
<1>2. /\ proc' = [proc EXCEPT ![p] = "free"]
      /\ runs' = [runs EXCEPT ![p] = Empty]
  BY DEF Release
<1>3. Empty \in AllLines
  BY DEF AllLines
<1>4. /\ proc' \in [PIDS -> {"free", "running", "zombie"}]
      /\ runs' \in [PIDS -> AllLines]
      /\ proc'[p] = "free"
      /\ \A q \in PIDS : q # p => proc'[q] = proc[q] /\ runs'[q] = runs[q]
  BY <1>1, <1>2, <1>3
<1>5. /\ ~Foreground(p)'
      /\ \A q \in PIDS : q # p => (Foreground(q)' <=> Foreground(q))
  BY <1>4 DEF Foreground
<1>6. pc' = "reaping" /\ \A q \in PIDS : q # p => ~Foreground(q)
  BY <1>1 DEF WaitsForForeground
<1>7. WaitsForForeground'
  BY <1>5, <1>6 DEF WaitsForForeground
<1>8. pid' = pid /\ commands' = commands /\ input' = input
  OBVIOUS
<1>9. has_ampersand' \in BOOLEAN
  BY <1>1, Zenon
<1> QED
  BY <1>1, <1>4, <1>6, <1>7, <1>8, <1>9 DEF ChildrenOK

(* A zombie is still there to be waited for.                               *)
LEMMA ChildEndsKeepsChildren ==
  ASSUME ChildrenOK, ChildEnds
  PROVE  ChildrenOK' /\ \A q \in PIDS : ~(proc[q] = "free" /\ proc'[q] = "running")
<1>1. /\ proc \in [PIDS -> {"free", "running", "zombie"}]
      /\ runs \in [PIDS -> AllLines]
      /\ commands \in AllLines /\ has_ampersand \in BOOLEAN /\ input \in {"open", "closed"}
      /\ pid \in PIDS \cup {NoPid} /\ pc \in {"reaping", "reading", "waiting", "ended"}
      /\ WaitsForForeground
  BY DEF ChildrenOK
<1>2. PICK p \in PIDS : proc[p] = "running" /\ proc' = [proc EXCEPT ![p] = "zombie"]
  BY DEF ChildEnds
<1>3. runs' = runs /\ pc' = pc /\ pid' = pid /\ commands' = commands /\ input' = input
  BY DEF ChildEnds
<1>4. has_ampersand' \in BOOLEAN
  BY <1>1, Zenon DEF ChildEnds
<1>5. /\ proc' \in [PIDS -> {"free", "running", "zombie"}]
      /\ \A q \in PIDS : /\ proc'[q] = "free" <=> proc[q] = "free"
                         /\ proc'[q] = "running" => proc[q] = "running"
  BY <1>1, <1>2
<1>6. \A q \in PIDS : Foreground(q)' <=> Foreground(q)
  BY <1>3, <1>5 DEF Foreground
<1>7. WaitsForForeground'
  BY <1>1, <1>3, <1>6 DEF WaitsForForeground
<1> QED
  BY <1>1, <1>3, <1>4, <1>5, <1>7 DEF ChildrenOK

-----------------------------------------------------------------------------
(* The steps.  What fgets hands over is a line, and it leaves the loop in  *)
(* the same iteration.                                                     *)
LEMMA FetchType ==
  ASSUME ChildrenOK, NEW line, Fetch(line)
  PROVE  pc = "reading" /\ input' \in {"open", "closed"} /\ line \in AllLines
BY DEF Fetch, ChildrenOK, AllLines

(* ! ! enters and runs a command the history has, any other line that is   *)
(* not for the shell itself enters and runs itself.                        *)
LEMMA EntersWhatItRuns ==
  ASSUME IndInv, execute_last_command \/ Execute
  PROVE  \E line \in AllLines \ {Empty, History, Last} :
           /\ add_to_history(line)
           /\ execute_command(line)
           /\ pc = "reading" /\ input' \in {"open", "closed"} /\ printed' = printed
<1>1. CASE execute_last_command
  <2>1. /\ Fetch(Last) /\ history_count > 0 /\ printed' = printed
        /\ add_to_history(history[last_index])
        /\ execute_command(history'[last_index])
    BY <1>1, Zenon DEF execute_last_command
  <2>2. history[last_index] \in AllLines \ {Empty, History, Last}
    BY <2>1, LastIsACommand DEF IndInv
  <2>3. pc = "reading" /\ input' \in {"open", "closed"}
    BY <2>1, FetchType DEF IndInv
  <2>4. history'[last_index] = history[last_index]
    <3>1. \/ history' = history
          \/ history' = [history EXCEPT ![history_next] = history[last_index]]
      BY <2>1, Zenon DEF add_to_history, remembered
    <3>2. last_index \in 0 .. HISTORY_SIZE - 1
      BY <2>1, LastIsACommand DEF IndInv
    <3>3. history \in [0 .. HISTORY_SIZE - 1 -> AllLines]
      BY DEF IndInv, HistoryOK
    <3> QED
      BY <3>1, <3>2, <3>3, Zenon
  <2> QED
    BY <2>1, <2>2, <2>3, <2>4, Zenon
<1>2. CASE Execute
  <2>1. PICK line \in Fetchable \ {Empty, Exit, History, Last} :
           Fetch(line) /\ add_to_history(line) /\ execute_command(line)
    BY <1>2, Zenon DEF Execute
  <2>2. printed' = printed
    BY <1>2, Zenon DEF Execute
  <2>3. pc = "reading" /\ input' \in {"open", "closed"} /\ line \in AllLines
    BY <2>1, FetchType, Zenon DEF IndInv
  <2> QED
    BY <2>1, <2>2, <2>3, Zenon
<1> QED
  BY <1>1, <1>2

(* What does not touch the ring keeps it.                                  *)
LEMMA HistoryStays ==
  ASSUME HistoryOK, UNCHANGED remembered
  PROVE  HistoryOK'
BY DEF HistoryOK, CountersAgree, OnlyCommandsKept, remembered

(* Nothing is started, waited for or reaped.                               *)
LEMMA ChildrenStay ==
  ASSUME ChildrenOK, UNCHANGED <<has_ampersand, children>>,
         pc # "waiting", pc' \in {"reaping", "reading", "ended"},
         commands' \in AllLines, input' \in {"open", "closed"}
  PROVE  ChildrenOK'
<1>1. has_ampersand' \in BOOLEAN
  BY Zenon DEF ChildrenOK
<1>2. proc' = proc /\ runs' = runs /\ pid' = pid
  BY DEF children
<1>3. \A q \in PIDS : ~Foreground(q)'
  BY <1>2 DEF ChildrenOK, WaitsForForeground, Foreground
<1>4. WaitsForForeground'
  BY <1>3 DEF WaitsForForeground
<1>5. /\ proc \in [PIDS -> {"free", "running", "zombie"}]
      /\ runs \in [PIDS -> AllLines]
      /\ pid \in PIDS \cup {NoPid}
  BY DEF ChildrenOK
<1> QED
  BY <1>1, <1>2, <1>4, <1>5 DEF ChildrenOK

(* What the steps that run nothing have in common.                         *)
LEMMA RunsNothing ==
  ASSUME IndInv, Prompt \/ IgnoreEmpty \/ Leave \/ print_history \/ NothingToRepeat
  PROVE  IndInv' /\ UNCHANGED <<remembered, children>>
<1>1. UNCHANGED <<has_ampersand, remembered, children>>
  BY Zenon DEF Prompt, IgnoreEmpty, Leave, print_history, NothingToRepeat
<1>2. /\ pc # "waiting" /\ pc' \in {"reaping", "reading", "ended"}
      /\ commands' \in AllLines /\ input' \in {"open", "closed"}
  <2>1. CASE Prompt
    BY <2>1 DEF Prompt, IndInv, ChildrenOK
  <2>2. CASE IgnoreEmpty
    BY <2>2, FetchType DEF IgnoreEmpty, IndInv
  <2>3. CASE Leave
    BY <2>3, FetchType DEF Leave, IndInv
  <2>4. CASE print_history
    <3>1. Fetch(History) /\ commands' = History /\ pc' = "reaping"
      BY <2>4 DEF print_history
    <3> QED
      BY <3>1, FetchType DEF IndInv
  <2>5. CASE NothingToRepeat
    BY <2>5, FetchType DEF NothingToRepeat, IndInv
  <2> QED
    BY <2>1, <2>2, <2>3, <2>4, <2>5
<1>3. HistoryOK'
  BY <1>1, HistoryStays DEF IndInv
<1>4. ChildrenOK'
  BY <1>1, <1>2, ChildrenStay DEF IndInv
<1> QED
  BY <1>1, <1>3, <1>4 DEF IndInv

(* What the steps of the children have in common: none is started.         *)
LEMMA ChildrenGo ==
  ASSUME IndInv, Reap \/ WaitReturns \/ ChildEnds
  PROVE  /\ IndInv' /\ UNCHANGED remembered /\ printed' = printed
         /\ \A p \in PIDS : ~(proc[p] = "free" /\ proc'[p] = "running")
<1>1. UNCHANGED remembered /\ printed' = printed
  BY Zenon DEF Reap, WaitReturns, ChildEnds
<1>2. HistoryOK'
  BY <1>1, HistoryStays DEF IndInv
<1>3. ChildrenOK' /\ \A p \in PIDS : ~(proc[p] = "free" /\ proc'[p] = "running")
  <2>1. CASE Reap
    <3>1. PICK p \in PIDS : Release(p)
      BY <2>1, Zenon DEF Reap
    <3>2. /\ UNCHANGED <<input, commands, has_ampersand, pid>>
          /\ pc = "reaping" /\ pc' = pc
      BY <2>1, Zenon DEF Reap
    <3> QED
      BY <3>1, <3>2, ReleaseKeepsChildren, Zenon DEF IndInv
  <2>2. CASE WaitReturns
    <3>1. /\ Release(pid) /\ UNCHANGED <<input, commands, has_ampersand, pid>>
          /\ pc = "waiting" /\ pc' = "reaping"
      BY <2>2, Zenon DEF WaitReturns
    <3>2. pid \in PIDS
      BY <3>1 DEF IndInv, ChildrenOK, WaitsForForeground
    <3> QED
      BY <3>1, <3>2, ReleaseKeepsChildren, Zenon DEF IndInv
  <2>3. CASE ChildEnds
    BY <2>3, ChildEndsKeepsChildren DEF IndInv
  <2> QED
    BY <2>1, <2>2, <2>3
<1> QED
  BY <1>1, <1>2, <1>3 DEF IndInv

(* An iteration that runs a command runs the one it enters.                *)
LEMMA RunsOneCommand ==
  ASSUME IndInv, execute_last_command \/ Execute
  PROVE  /\ IndInv'
         /\ \A p \in PIDS : proc[p] = "free" /\ proc'[p] = "running" =>
              runs'[p] = history'[last_index']
<1>1. PICK line \in AllLines \ {Empty, History, Last} :
         /\ add_to_history(line) /\ execute_command(line)
         /\ pc = "reading" /\ input' \in {"open", "closed"}
  BY EntersWhatItRuns, Zenon
<1>2. HistoryOK' /\ history'[last_index'] = line
  BY <1>1, AddKeepsHistory DEF IndInv
<1>3. /\ ChildrenOK'
      /\ \A p \in PIDS : proc[p] = "free" /\ proc'[p] = "running" => runs'[p] = line
  BY <1>1, ExecuteKeepsChildren DEF IndInv
<1> QED
  BY <1>2, <1>3 DEF IndInv

(* The invariant is one.                                                   *)
LEMMA InitEstablishesIndInv == Init => IndInv
BY InitHistory, InitChildren DEF IndInv

LEMMA StutterKeepsIndInv == IndInv /\ UNCHANGED vars => IndInv'
<1> SUFFICES ASSUME IndInv, UNCHANGED vars PROVE IndInv'
  OBVIOUS
<1>1. HistoryOK'
  BY HistoryStays DEF IndInv, vars
<1>2. /\ proc' = proc /\ runs' = runs /\ pid' = pid /\ pc' = pc
      /\ commands' = commands /\ input' = input
  BY DEF vars, children
<1>3. has_ampersand' \in BOOLEAN
  BY Zenon DEF IndInv, ChildrenOK, vars
<1>4. WaitsForForeground'
  BY <1>2 DEF IndInv, ChildrenOK, WaitsForForeground, Foreground
<1>5. ChildrenOK'
  BY <1>2, <1>3, <1>4 DEF IndInv, ChildrenOK
<1> QED
  BY <1>1, <1>5 DEF IndInv

LEMMA NextKeepsIndInv == IndInv /\ [Next]_vars => IndInv'
BY RunsOneCommand, RunsNothing, ChildrenGo, StutterKeepsIndInv DEF Next, Iteration

LEMMA IndInvHolds == Spec => []IndInv
BY InitEstablishesIndInv, NextKeepsIndInv, PTL DEF Spec

-----------------------------------------------------------------------------
(* The ring's indices stay inside it, what is kept and run is what a user  *)
(* may type or what strtok leaves of it.                                   *)
THEOREM TypeCorrect == Spec => []TypeOK
<1>1. IndInv => TypeOK
  <2> SUFFICES ASSUME IndInv PROVE TypeOK
    OBVIOUS
  <2>1. has_ampersand \in BOOLEAN
    BY Zenon DEF IndInv, ChildrenOK
  <2> QED
    BY <2>1 DEF IndInv, HistoryOK, ChildrenOK, TypeOK
<1> QED
  BY <1>1, IndInvHolds, PTL

(* A command without an ampersand that args has room for has the shell     *)
(* waiting for it as long as it exists, whatever was run before it.        *)
THEOREM ForegroundAwaited == Spec => []ForegroundIsAwaited
<1>1. IndInv => ForegroundIsAwaited
  <2> SUFFICES ASSUME IndInv, NEW p \in PIDS, proc[p] # "free",
                      ~EndsInAmpersand(Tokens(runs[p])),
                      Len(Tokens(runs[p])) < ARGUMENT_SIZE
               PROVE  pc = "waiting" /\ pid = p
    BY Zenon DEF ForegroundIsAwaited
  <2>1. runs[p] \in AllLines
    BY DEF IndInv, ChildrenOK
  <2>2. Taken(runs[p]) = Tokens(runs[p])
    BY <2>1, LinesAreCut, AllTokensTaken
  <2>3. Foreground(p)
    BY <2>2, Zenon DEF Foreground
  <2> QED
    BY <2>3 DEF IndInv, ChildrenOK, WaitsForForeground
<1> QED
  BY <1>1, IndInvHolds, PTL

(* A command with an ampersand is waited for only when args has no room    *)
(* for the ampersand.                                                      *)
THEOREM BackgroundIsNotAwaited == Spec => []AmpersandAwaitedOnlyBeyondArgs
<1>1. IndInv => AmpersandAwaitedOnlyBeyondArgs
  <2> SUFFICES ASSUME IndInv, pc = "waiting", EndsInAmpersand(Tokens(runs[pid]))
               PROVE  Len(Tokens(runs[pid])) >= ARGUMENT_SIZE
    BY Zenon DEF AmpersandAwaitedOnlyBeyondArgs
  <2>1. pid \in PIDS /\ Foreground(pid) /\ runs[pid] \in AllLines
    BY DEF IndInv, ChildrenOK, WaitsForForeground
  <2>2. PICK line \in Seq(Fields) : line = runs[pid]
    BY <2>1, LinesAreCut
  <2>3. Len(Tokens(line)) \in Nat
    BY AllTokensTaken
  <2>4. Taken(line) # Tokens(line)
    BY <2>1, <2>2, Zenon DEF Foreground
  <2>5. ~(Len(Tokens(line)) < ARGUMENT_SIZE)
    BY <2>4, AllTokensTaken
  <2>6. Len(Tokens(line)) >= ARGUMENT_SIZE
    BY <2>3, <2>5, SizesArePositive
  <2> QED
    BY <2>2, <2>6
<1> QED
  BY <1>1, IndInvHolds, PTL

(* Every child that is started runs the newest command of the history.     *)
THEOREM NewestCommandStarted == Spec => StartsNewestCommand
<1> DEFINE Starts == \A p \in PIDS : proc[p] = "free" /\ proc'[p] = "running" =>
                        runs'[p] = history'[last_index']
<1>1. IndInv /\ [Next]_vars => [Starts]_vars
  <2> SUFFICES ASSUME IndInv, Next PROVE Starts
    OBVIOUS
  <2>1. CASE execute_last_command \/ Execute
    BY <2>1, RunsOneCommand
  <2>2. CASE Prompt \/ IgnoreEmpty \/ Leave \/ print_history \/ NothingToRepeat
    <3>1. proc' = proc
      BY <2>2, RunsNothing DEF children
    <3> QED
      BY <3>1
  <2>3. CASE Reap \/ WaitReturns \/ ChildEnds
    BY <2>3, ChildrenGo
  <2> QED
    BY <2>1, <2>2, <2>3 DEF Next, Iteration
<1> QED
  BY <1>1, IndInvHolds, PTL DEF Spec, StartsNewestCommand

-----------------------------------------------------------------------------
(* The queue of commands, read off the ring from the oldest on: slot 0 as  *)
(* long as the ring is not full, the slot that is written next then.       *)
Slot(k) == (start + k - 1) % HISTORY_SIZE

Oldest == IF history_count < HISTORY_SIZE THEN 0 ELSE history_next

RecentIsRing ==
  \A k \in 1 .. history_count :
    /\ Recent[k] = history[Slot(k)]
    /\ Slot(k) \in 0 .. HISTORY_SIZE - 1
    /\ Slot(k) = IF Oldest + k - 1 < HISTORY_SIZE THEN Oldest + k - 1
                 ELSE Oldest + k - 1 - HISTORY_SIZE

RecentOK == Recent \in Seq(AllLines) /\ Len(Recent) = history_count

(* print_history computes the slot of the oldest command.                  *)
LEMMA StartIsOldest == HistoryOK => start = Oldest
<1> SUFFICES ASSUME HistoryOK PROVE start = Oldest
  OBVIOUS
<1> DEFINE n == HISTORY_SIZE
<1>1. /\ n \in Nat \ {0} /\ history_next \in 0 .. n - 1 /\ history_count \in 0 .. n
      /\ history_count < n => history_next = history_count
  BY SizesArePositive DEF HistoryOK, CountersAgree
<1>2. start = IF history_next < history_count THEN history_next - history_count + n
              ELSE history_next - history_count
  BY <1>1, BackInRing DEF start
<1> QED
  BY <1>1, <1>2 DEF Oldest

(* The slots of the queue without a remainder, and their commands.         *)
LEMMA RecentRing == HistoryOK => RecentIsRing
<1> SUFFICES ASSUME HistoryOK, NEW k \in 1 .. history_count
             PROVE  /\ Recent[k] = history[Slot(k)]
                    /\ Slot(k) \in 0 .. HISTORY_SIZE - 1
                    /\ Slot(k) = IF Oldest + k - 1 < HISTORY_SIZE THEN Oldest + k - 1
                                 ELSE Oldest + k - 1 - HISTORY_SIZE
  BY DEF RecentIsRing
<1> DEFINE n == HISTORY_SIZE
<1>1. n \in Nat \ {0} /\ Oldest \in 0 .. n - 1 /\ history_count \in 0 .. n
  BY SizesArePositive DEF HistoryOK, Oldest
<1>2. PICK h \in 0 .. n - 1 : h = Oldest
  BY <1>1
<1>3. k - 1 \in 0 .. n /\ h + (k - 1) = h + k - 1
  BY <1>1
<1>4. (h + (k - 1)) % n = IF h + (k - 1) < n THEN h + (k - 1) ELSE h + (k - 1) - n
  BY <1>1, <1>3, OffsetInRing
<1>5. Slot(k) = (h + (k - 1)) % n
  BY <1>2, <1>3, StartIsOldest DEF Slot
<1>6. Slot(k) = IF h + k - 1 < n THEN h + k - 1 ELSE h + k - 1 - n
  BY <1>3, <1>4, <1>5
<1>7. Slot(k) \in 0 .. n - 1
  BY <1>1, <1>6
<1>8. Recent[k] = history[Slot(k)]
  BY DEF Recent, Slot
<1> QED
  BY <1>2, <1>6, <1>7, <1>8

LEMMA RecentElements ==
  ASSUME HistoryOK
  PROVE  history_count \in Nat /\ Recent \in [1 .. history_count -> AllLines]
<1>1. RecentIsRing
  BY RecentRing
<1>2. \A k \in 1 .. history_count : Recent[k] \in AllLines
  BY <1>1 DEF RecentIsRing, HistoryOK
<1>3. Recent = [k \in 1 .. history_count |-> Recent[k]]
  BY DEF Recent
<1>4. history_count \in Nat
  BY SizesArePositive DEF HistoryOK
<1> QED
  BY <1>2, <1>3, <1>4

LEMMA RecentType == HistoryOK => RecentOK
<1> SUFFICES ASSUME HistoryOK PROVE RecentOK
  OBVIOUS
<1>1. history_count \in Nat /\ Recent \in [1 .. history_count -> AllLines]
  BY RecentElements
<1> QED
  BY <1>1 DEF RecentOK

(* Where there is room the queue grows.                                    *)
LEMMA AddQueues ==
  ASSUME HistoryOK, NEW line \in AllLines \ {Empty, History, Last}, add_to_history(line),
         history_count < HISTORY_SIZE
  PROVE  /\ history_count' = history_count + 1
         /\ Recent'[history_count + 1] = line
         /\ \A k \in 1 .. history_count : Recent'[k] = Recent[k]
<1> DEFINE n == HISTORY_SIZE
           c == history_count
<1>1. RecentIsRing /\ RecentIsRing'
  <2>1. HistoryOK'
    BY AddKeepsHistory
  <2> QED
    BY <2>1, RecentRing, PTL
<1>2. /\ n \in Nat \ {0} /\ c \in 0 .. n - 1 /\ history_next = c
      /\ history \in [0 .. n - 1 -> AllLines]
      /\ history' = [history EXCEPT ![c] = line]
      /\ history_next' = (history_next + 1) % n
      /\ history_count' = c + 1
  BY SizesArePositive DEF HistoryOK, CountersAgree, add_to_history
<1>3. history_next' = IF c + 1 = n THEN 0 ELSE c + 1
  BY <1>2, NextIndex
<1>4. Oldest = 0 /\ Oldest' = 0
  BY <1>2, <1>3 DEF Oldest
<1>5. \A k \in 1 .. c + 1 : Recent'[k] = history'[Slot(k)'] /\ Slot(k)' = k - 1
  BY <1>1, <1>2, <1>4 DEF RecentIsRing
<1>6. \A k \in 1 .. c : Recent[k] = history[Slot(k)] /\ Slot(k) = k - 1
  BY <1>1, <1>2, <1>4 DEF RecentIsRing
<1> HIDE DEF n, c
<1>7. Recent'[c + 1] = line
  <2>1. c + 1 \in 1 .. c + 1 /\ (c + 1) - 1 = c
    BY <1>2
  <2> QED
    BY <2>1, <1>2, <1>5
<1>8. ASSUME NEW k \in 1 .. c
      PROVE  Recent'[k] = Recent[k]
  <2>1. k \in 1 .. c + 1 /\ k - 1 \in 0 .. n - 1 /\ k - 1 # c
    BY <1>2
  <2>2. Recent'[k] = history'[k - 1] /\ Recent[k] = history[k - 1]
    BY <2>1, <1>5, <1>6
  <2> QED
    BY <2>1, <2>2, <1>2
<1> QED
  BY <1>2, <1>7, <1>8 DEF c

(* Once the ring is full the oldest command makes room, and the others     *)
(* move up.                                                                *)
LEMMA OverwriteQueues ==
  ASSUME HistoryOK, NEW line \in AllLines \ {Empty, History, Last}, add_to_history(line),
         history_count = HISTORY_SIZE
  PROVE  /\ history_count' = HISTORY_SIZE
         /\ Recent'[HISTORY_SIZE] = line
         /\ \A k \in 1 .. HISTORY_SIZE - 1 : Recent'[k] = Recent[k + 1]
<1> DEFINE n == HISTORY_SIZE
<1>1. RecentIsRing /\ RecentIsRing'
  <2>1. HistoryOK'
    BY AddKeepsHistory
  <2> QED
    BY <2>1, RecentRing, PTL
<1>2. PICK h \in 0 .. n - 1 : h = history_next
  BY DEF HistoryOK
<1>3. /\ n \in Nat \ {0} /\ history_count = n /\ history_count' = n
      /\ history \in [0 .. n - 1 -> AllLines]
      /\ history' = [history EXCEPT ![h] = line]
      /\ history_next' = (h + 1) % n
  BY <1>2, SizesArePositive DEF HistoryOK, add_to_history
<1>4. history_next' = IF h + 1 = n THEN 0 ELSE h + 1
  BY <1>3, NextIndex
<1>5. Oldest = h /\ Oldest' = history_next'
  BY <1>2, <1>3 DEF Oldest
<1> HIDE DEF n
<1>6. /\ \A k \in 1 .. n : Recent[k] = history[Slot(k)] /\ Slot(k) \in 0 .. n - 1
      /\ \A k \in 1 .. n : Slot(k) = IF h + k - 1 < n THEN h + k - 1 ELSE h + k - 1 - n
  BY <1>1, <1>3, <1>5 DEF RecentIsRing, n
<1>7. /\ \A k \in 1 .. n : Recent'[k] = history'[Slot(k)']
      /\ \A k \in 1 .. n : Slot(k)' = IF history_next' + k - 1 < n THEN history_next' + k - 1
                                      ELSE history_next' + k - 1 - n
  BY <1>1, <1>3, <1>5 DEF RecentIsRing, n
<1>8. Recent'[n] = line
  <2>1. n \in 1 .. n
    BY <1>3
  <2>2. Slot(n)' = h
    <3>1. Slot(n)' = IF history_next' + n - 1 < n THEN history_next' + n - 1
                     ELSE history_next' + n - 1 - n
      BY <2>1, <1>7
    <3> QED
      BY <3>1, <1>3, <1>4
  <2> QED
    BY <2>1, <2>2, <1>3, <1>7
<1>9. ASSUME NEW k \in 1 .. n - 1
      PROVE  Recent'[k] = Recent[k + 1]
  <2>1. k \in 1 .. n /\ k + 1 \in 1 .. n
    BY <1>3
  <2>2. Slot(k)' = Slot(k + 1)
    <3>1. Slot(k)' = IF history_next' + k - 1 < n THEN history_next' + k - 1
                     ELSE history_next' + k - 1 - n
      BY <2>1, <1>7
    <3>2. Slot(k + 1) = IF h + (k + 1) - 1 < n THEN h + (k + 1) - 1
                        ELSE h + (k + 1) - 1 - n
      BY <2>1, <1>6
    <3> QED
      BY <2>1, <3>1, <3>2, <1>3, <1>4
  <2>3. Slot(k + 1) # h /\ Slot(k + 1) \in 0 .. n - 1
    BY <2>1, <1>3, <1>6
  <2>4. history'[Slot(k + 1)] = history[Slot(k + 1)]
    BY <2>3, <1>3
  <2> QED
    BY <2>1, <2>2, <2>4, <1>6, <1>7
<1> QED
  BY <1>3, <1>8, <1>9 DEF n

-----------------------------------------------------------------------------
(* A command that is entered is entered in the log.                        *)
LEMMA AddIsEnter ==
  ASSUME HistoryOK, NEW line \in AllLines \ {Empty, History, Last}, add_to_history(line),
         printed' = printed
  PROVE  Log!Enter(line)
<1>1. RecentOK /\ RecentOK'
  <2>1. HistoryOK'
    BY AddKeepsHistory
  <2> QED
    BY <2>1, RecentType, PTL
<1>2. total_command_count' = total_command_count + 1
  BY AddKeepsHistory
<1>3. HISTORY_SIZE \in Nat \ {0} /\ history_count \in 0 .. HISTORY_SIZE
  BY SizesArePositive DEF HistoryOK
<1>4. CASE history_count < HISTORY_SIZE
  <2>1. /\ history_count' = history_count + 1
        /\ Recent'[history_count + 1] = line
        /\ \A k \in 1 .. history_count : Recent'[k] = Recent[k]
    BY <1>4, AddQueues
  <2>2. Recent' = Append(Recent, line)
    BY <1>1, <2>1, AppendIs DEF RecentOK
  <2>3. Len(Recent) # HISTORY_SIZE
    BY <1>1, <1>3, <1>4 DEF RecentOK
  <2> QED
    BY <1>2, <2>2, <2>3 DEF Log!Enter
<1>5. CASE history_count = HISTORY_SIZE
  <2>1. /\ history_count' = HISTORY_SIZE
        /\ Recent'[HISTORY_SIZE] = line
        /\ \A k \in 1 .. HISTORY_SIZE - 1 : Recent'[k] = Recent[k + 1]
    BY <1>5, OverwriteQueues
  <2>2. Recent' = Append(Tail(Recent), line)
    BY <1>1, <1>3, <1>5, <2>1, AppendToTailIs DEF RecentOK
  <2>3. Len(Recent) = HISTORY_SIZE
    BY <1>1, <1>5 DEF RecentOK
  <2> QED
    BY <1>2, <2>2, <2>3 DEF Log!Enter
<1> QED
  BY <1>3, <1>4, <1>5

(* print_history prints the queue from its end, each command under the     *)
(* number it was entered under, which on a full ring is not its slot's.    *)
LEMMA HistoryListIsQueue ==
  ASSUME HistoryOK
  PROVE  HistoryList = [k \in 1 .. history_count |->
                          <<total_command_count + 1 - k, Recent[history_count + 1 - k]>>]
<1> SUFFICES ASSUME NEW k \in 1 .. history_count
             PROVE  /\ Number(history_count - k) = total_command_count + 1 - k
                    /\ history[(start + (history_count - k)) % HISTORY_SIZE]
                         = Recent[history_count + 1 - k]
  BY DEF HistoryList
<1>1. /\ HISTORY_SIZE \in Nat \ {0} /\ history_count \in 0 .. HISTORY_SIZE
      /\ total_command_count \in Nat
      /\ history_count = IF total_command_count < HISTORY_SIZE THEN total_command_count
                         ELSE HISTORY_SIZE
  BY SizesArePositive DEF HistoryOK, CountersAgree
<1>2. Number(history_count - k) = total_command_count + 1 - k
  BY <1>1 DEF Number
<1>3. PICK j \in 1 .. history_count : j = history_count + 1 - k
  BY <1>1
<1>4. start \in Int
  BY SizesArePositive, StartIsOldest DEF HistoryOK, Oldest
<1>5. start + (history_count - k) = start + j - 1
  BY <1>1, <1>3, <1>4
<1>6. Recent[j] = history[(start + j - 1) % HISTORY_SIZE]
  BY DEF Recent
<1> QED
  BY <1>2, <1>3, <1>5, <1>6

(* So history lists the log.                                               *)
LEMMA ListIsList ==
  ASSUME HistoryOK, print_history
  PROVE  Log!List
<1>1. Len(Recent) = history_count
  BY RecentType DEF RecentOK
<1>2. printed' = HistoryList /\ UNCHANGED remembered
  BY Zenon DEF print_history
<1>3. Recent' = Recent /\ total_command_count' = total_command_count
  BY <1>2 DEF remembered, Recent, start
<1>4. printed' = [k \in 1 .. Len(Recent) |->
                    <<total_command_count + 1 - k, Recent[Len(Recent) + 1 - k]>>]
  BY <1>1, <1>2, HistoryListIsQueue
<1> QED
  BY <1>3, <1>4 DEF Log!List

(* Nothing is in the log when the shell starts.                            *)
LEMMA InitMapsToInit == Init => Log!Init
<1> SUFFICES ASSUME Init PROVE Log!Init
  OBVIOUS
<1>1. history_count = 0 /\ total_command_count = 0 /\ printed = <<>>
  BY DEF Init
<1>2. Recent \in Seq(AllLines) /\ Len(Recent) = 0
  BY <1>1, InitHistory, RecentType DEF RecentOK
<1>3. Recent = <<>>
  BY <1>2, EmptySeq
<1> QED
  BY <1>1, <1>3 DEF Log!Init

(* Every step enters a command, lists the log or leaves it alone.          *)
LEMMA NextMapsToNext == IndInv /\ [Next]_vars => [Log!Next]_(Log!vars)
<1> SUFFICES ASSUME IndInv, [Next]_vars PROVE [Log!Next]_(Log!vars)
  OBVIOUS
<1>1. ASSUME UNCHANGED <<remembered, printed>>
      PROVE  UNCHANGED Log!vars
  BY <1>1 DEF remembered, Recent, start, Log!vars
<1>2. CASE execute_last_command \/ Execute
  <2>1. PICK line \in AllLines \ {Empty, History, Last} :
           add_to_history(line) /\ printed' = printed
    BY <1>2, EntersWhatItRuns, Zenon
  <2>2. Log!Enter(line)
    BY <2>1, AddIsEnter DEF IndInv
  <2> QED
    BY <2>2 DEF Log!Next
<1>3. CASE print_history
  BY <1>3, ListIsList DEF IndInv, Log!Next
<1>4. CASE Prompt \/ IgnoreEmpty \/ Leave \/ NothingToRepeat
  <2>1. UNCHANGED <<remembered, printed>>
    BY <1>4, Zenon DEF Prompt, IgnoreEmpty, Leave, NothingToRepeat
  <2> QED
    BY <1>1, <2>1
<1>5. CASE Reap \/ WaitReturns \/ ChildEnds
  BY <1>1, <1>5, ChildrenGo
<1>6. CASE UNCHANGED vars
  BY <1>1, <1>6 DEF vars
<1> QED
  BY <1>2, <1>3, <1>4, <1>5, <1>6 DEF Next, Iteration

(* The ring of strings with its two indices and two counters, and what is  *)
(* printed of it, implement a log of the last commands: whatever the size  *)
(* of the ring, ! ! and history see the commands in their order, under the *)
(* numbers they were entered under.                                        *)
THEOREM HistoryIsLog == Spec => ImplementsCommandLog
BY InitMapsToInit, NextMapsToNext, IndInvHolds, PTL
   DEF Spec, ImplementsCommandLog, Log!Spec
=============================================================================
