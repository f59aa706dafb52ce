-------------------------------- MODULE Shell --------------------------------
(***************************************************************************)
(* The shell of Assignment_2/solution/shell.c: its ring of remembered      *)
(* commands, and the child processes it starts, waits for and reaps.       *)
(*                                                                         *)
(* A line is the sequence of the fields between its blanks; two blanks in  *)
(* a row enclose the field "", and the line without a character is the     *)
(* sequence <<"">>.  fgets hands a line of 100 or more characters over in  *)
(* parts, which are lines to this shell.                                   *)
(*                                                                         *)
(* The iteration of the loop is an action from the line that fgets returns *)
(* to the next blocking call; children end at any time.                    *)
(***************************************************************************)
EXTENDS Integers, Sequences, FiniteSets

CONSTANTS
  HISTORY_SIZE,   \* 5; print_history has it as the literals 5 and 4 + 1
  ARGUMENT_SIZE,  \* 16
  INT_MAX,        \* no C program counts beyond it
  PIDS,           \* the processes the system has room for
  Lines           \* what the user may type

ASSUME ShellAssumption ==
  /\ HISTORY_SIZE \in Nat \ {0, 1}
  /\ ARGUMENT_SIZE \in Nat \ {0, 1}
  /\ INT_MAX \in Nat
  /\ "-1" \notin PIDS
  /\ Lines \subseteq Seq(STRING)

VARIABLES
  pc,                   \* "reaping", "reading", "waiting" or "ended"
  input,                \* "open", or "closed" once fgets has met the end of the input
  commands,             \* the buffer that fgets fills and strtok cuts
  has_ampersand,
  pid,                  \* what the last fork returned
  history, history_count, history_next, total_command_count,
  printed,              \* the last list print_history printed
  proc,                 \* "free", "running" or "zombie" for each process
  runs                  \* the line each child was started for

remembered == <<history, history_count, history_next, total_command_count>>
children   == <<pid, proc, runs>>
vars       == <<pc, input, commands, has_ampersand, remembered, printed, children>>

NoPid   == "-1"
Empty   == <<"">>
Exit    == <<"exit">>
History == <<"history">>
Last    == <<"!!">>

-----------------------------------------------------------------------------
(* Cutting a line into arguments.                                          *)
(* (The places of the words, and the words, in their order.)               *)
Words(line) == {i \in DOMAIN line : line[i] # ""}

Tokens(line) ==
  LET Nth(k) == CHOOSE i \in Words(line) : Cardinality({j \in Words(line) : j <= i}) = k
  IN  [k \in 1 .. Cardinality(Words(line)) |-> line[Nth(k)]]

(* strtok ends the string in the buffer after the first token; a line      *)
(* without a token it leaves alone.                                        *)
Cut(line) ==
  IF Words(line) = {} THEN line
  ELSE SubSeq(line, 1, CHOOSE i \in Words(line) : \A j \in Words(line) : i <= j)

(* Mutant: the last of the tokens that fit is left out as well.            *)
TakenButOne(line) ==
  LET ts == Tokens(line)
  IN  SubSeq(ts, 1, IF Len(ts) < ARGUMENT_SIZE - 1 THEN Len(ts) ELSE ARGUMENT_SIZE - 2)

(* The tokens get_args takes: it leaves room for the final NULL.           *)
Taken(line) ==
  LET ts == Tokens(line)
  IN  SubSeq(ts, 1, IF Len(ts) < ARGUMENT_SIZE THEN Len(ts) ELSE ARGUMENT_SIZE - 1)

EndsInAmpersand(ts) == ts # <<>> /\ ts[Len(ts)] = "&"

(* Mutant: has_ampersand keeps its value when there is no ampersand.       *)
ArgsWithoutReset(line) ==
  /\ commands' = Cut(line)
  /\ has_ampersand' = (has_ampersand \/ EndsInAmpersand(Taken(line)))

get_args(line) ==
  /\ commands' = Cut(line)
  /\ has_ampersand' = EndsInAmpersand(Taken(line))

-----------------------------------------------------------------------------
(* The history.                                                            *)
start      == (history_next - history_count + HISTORY_SIZE) % HISTORY_SIZE
last_index == (history_next - 1 + HISTORY_SIZE) % HISTORY_SIZE

(* Mutant: the count goes on when the ring is full.                        *)
AddWithoutLimit(line) ==
  /\ total_command_count < INT_MAX
  /\ history' = [history EXCEPT ![history_next] = line]
  /\ history_next' = (history_next + 1) % HISTORY_SIZE
  /\ history_count' = history_count + 1
  /\ total_command_count' = total_command_count + 1

add_to_history(line) ==
  IF line \in {Empty, History, Last}
    THEN UNCHANGED remembered
    ELSE /\ total_command_count < INT_MAX
         /\ history' = [history EXCEPT ![history_next] = line]
         /\ history_next' = (history_next + 1) % HISTORY_SIZE
         /\ history_count' = IF history_count < HISTORY_SIZE THEN history_count + 1 ELSE history_count
         /\ total_command_count' = total_command_count + 1

(* The number printed for the i-th oldest command, i from 0.               *)
Number(i) == IF total_command_count > HISTORY_SIZE
               THEN total_command_count + (i - (HISTORY_SIZE - 1))
               ELSE i + 1

(* Mutant: the numbers are those of the slots once the ring is full.       *)
ListSlotNumbers ==
  [k \in 1 .. history_count |->
     LET i == history_count - k IN <<i + 1, history[(start + i) % HISTORY_SIZE]>>]

(* What print_history prints, newest first.                                *)
HistoryList ==
  [k \in 1 .. history_count |->
     LET i == history_count - k IN <<Number(i), history[(start + i) % HISTORY_SIZE]>>]

-----------------------------------------------------------------------------
(* Processes.  fork may fail for reasons of its own.                       *)
Fork(line) ==
  \/ \E p \in PIDS :
       /\ proc[p] = "free"
       /\ pid' = p
       /\ proc' = [proc EXCEPT ![p] = "running"]
       /\ runs' = [runs EXCEPT ![p] = line]
  \/ pid' = NoPid /\ UNCHANGED <<proc, runs>>

execute_command(line) ==
  /\ get_args(line)
  /\ Fork(line)
  /\ pc' = IF pid' # NoPid /\ ~has_ampersand' THEN "waiting" ELSE "reaping"

-----------------------------------------------------------------------------
Init ==
  /\ pc = "reaping"
  /\ input = "open"
  /\ commands = Empty
  /\ has_ampersand = FALSE
  /\ pid = NoPid
  /\ history = [i \in 0 .. HISTORY_SIZE - 1 |-> Empty]
  /\ history_count = 0
  /\ history_next = 0
  /\ total_command_count = 0
  /\ printed = <<>>
  /\ proc = [p \in PIDS |-> "free"]
  /\ runs = [p \in PIDS |-> Empty]

Release(p) ==
  /\ proc' = [proc EXCEPT ![p] = "free"]
  /\ runs' = [runs EXCEPT ![p] = Empty]

(* cleanup_zombie_processes: one call of waitpid(-1, ..., WNOHANG).        *)
Reap ==
  /\ pc = "reaping"
  /\ \E p \in PIDS : proc[p] = "zombie" /\ Release(p)
  /\ UNCHANGED <<pc, input, commands, has_ampersand, remembered, printed, pid>>

(* Mutant: nothing is reaped unless the last command was a background one. *)
PromptAfterForeground ==
  /\ pc = "reaping"
  /\ has_ampersand => \A p \in PIDS : proc[p] # "zombie"
  /\ pc' = "reading"
  /\ UNCHANGED <<input, commands, has_ampersand, remembered, printed, children>>

(* ... and the call that finds none, after which fgets is called.          *)
Prompt ==
  /\ pc = "reaping"
  /\ \A p \in PIDS : proc[p] # "zombie"
  /\ pc' = "reading"
  /\ UNCHANGED <<input, commands, has_ampersand, remembered, printed, children>>

(* fetch_commands: at the end of the input fgets leaves the buffer alone,  *)
(* and the shell does not look at its result.                              *)
Fetch(line) ==
  /\ pc = "reading"
  /\ \/ input = "open" /\ line \in Lines /\ UNCHANGED input
     \/ line = commands /\ input' = "closed"

Fetchable == Lines \cup {commands}

IgnoreEmpty ==
  /\ Fetch(Empty)
  /\ commands' = Empty
  /\ pc' = "reaping"
  /\ UNCHANGED <<has_ampersand, remembered, printed, children>>

Leave ==
  /\ Fetch(Exit)
  /\ commands' = Exit
  /\ pc' = "ended"
  /\ UNCHANGED <<has_ampersand, remembered, printed, children>>

print_history ==
  /\ Fetch(History)
  /\ commands' = History
  /\ printed' = HistoryList
  /\ pc' = "reaping"
  /\ UNCHANGED <<has_ampersand, remembered, children>>

NothingToRepeat ==
  /\ Fetch(Last)
  /\ history_count = 0
  /\ commands' = Last
  /\ pc' = "reaping"
  /\ UNCHANGED <<has_ampersand, remembered, printed, children>>

(* Mutant: what is run is in the slot of the oldest command.               *)
RepeatOldest ==
  /\ Fetch(Last)
  /\ history_count > 0
  /\ add_to_history(history[last_index])
  /\ execute_command(history'[start])
  /\ UNCHANGED printed

(* The slot is computed before the addition, and read again after it.      *)
execute_last_command ==
  /\ Fetch(Last)
  /\ history_count > 0
  /\ add_to_history(history[last_index])
  /\ execute_command(history'[last_index])
  /\ UNCHANGED printed

Execute ==
  /\ \E line \in Fetchable \ {Empty, Exit, History, Last} :
       /\ Fetch(line)
       /\ add_to_history(line)
       /\ execute_command(line)
  /\ UNCHANGED printed

(* waitpid(pid, ...) returns: the foreground child has ended.              *)
WaitReturns ==
  /\ pc = "waiting"
  /\ proc[pid] = "zombie"
  /\ Release(pid)
  /\ pc' = "reaping"
  /\ UNCHANGED <<input, commands, has_ampersand, remembered, printed, pid>>

(* The children of a shell that has ended are not its children any more.   *)
ChildEnds ==
  /\ pc # "ended"
  /\ \E p \in PIDS :
       /\ proc[p] = "running"
       /\ proc' = [proc EXCEPT ![p] = "zombie"]
  /\ UNCHANGED <<pc, input, commands, has_ampersand, remembered, printed, pid, runs>>

Iteration ==
  \/ IgnoreEmpty \/ Leave \/ print_history
  \/ NothingToRepeat \/ execute_last_command \/ Execute

Next == Reap \/ Prompt \/ Iteration \/ WaitReturns \/ ChildEnds

(* The shell runs when it can; the user need not type and no child need    *)
(* end.                                                                    *)
Spec == Init /\ [][Next]_vars /\ WF_vars(Reap \/ Prompt \/ WaitReturns)

-----------------------------------------------------------------------------
(* What a line may be: typed, or left in the buffer by strtok.             *)
AllLines == Lines \cup {Cut(line) : line \in Lines} \cup {Empty}

(* The ring's indices stay inside it, the counters in their ranges.        *)
TypeOK ==
  /\ pc \in {"reaping", "reading", "waiting", "ended"}
  /\ input \in {"open", "closed"}
  /\ commands \in AllLines
  /\ has_ampersand \in BOOLEAN
  /\ history \in [0 .. HISTORY_SIZE - 1 -> AllLines]
  /\ history_count \in 0 .. HISTORY_SIZE
  /\ history_next \in 0 .. HISTORY_SIZE - 1
  /\ total_command_count \in 0 .. INT_MAX
  /\ proc \in [PIDS -> {"free", "running", "zombie"}]
  /\ runs \in [PIDS -> AllLines]
  /\ pid \in PIDS \cup {NoPid}

(* The ring of strings with its two indices and two counters, and what is  *)
(* printed of it, implement a log of the last commands (lines 24 to 37 and *)
(* 162 to 237).                                                            *)
Recent == [k \in 1 .. history_count |-> history[(start + k - 1) % HISTORY_SIZE]]

Log == INSTANCE CommandLog WITH
  Size     <- HISTORY_SIZE,
  Commands <- AllLines,
  recent   <- Recent,
  total    <- total_command_count,
  listed   <- printed

ImplementsCommandLog == Log!Spec

(* A command that was not sent to the background has the shell waiting for *)
(* it as long as it exists, whatever was run before it (lines 141, 265).   *)
(* Excepted are commands of ARGUMENT_SIZE tokens or more, whose last token *)
(* that fits in args may be an ampersand in their middle (lines 144 to     *)
(* 154).                                                                   *)
ForegroundIsAwaited ==
  \A p \in PIDS :
    /\ proc[p] # "free"
    /\ ~EndsInAmpersand(Tokens(runs[p]))
    /\ Len(Tokens(runs[p])) < ARGUMENT_SIZE
    => pc = "waiting" /\ pid = p

(* The child that is started runs the command that the history now has as  *)
(* its newest, by ! ! as well as by its own line (lines 110 to 114, 233 to *)
(* 236).                                                                   *)
StartsNewestCommand ==
  [][\A p \in PIDS : proc[p] = "free" /\ proc'[p] = "running" => runs'[p] = history'[last_index']]_vars

(* As long as there are lines to read, a child that has ended is reaped:   *)
(* no line lets the shell skip cleanup_zombie_processes (lines 62 to 80).  *)
ZombiesAreReaped ==
  []<><<Iteration>>_vars => \A p \in PIDS : proc[p] = "zombie" ~> proc[p] = "free"

(* A command with an ampersand is waited for only when args has no room    *)
(* for the ampersand: "any command using ampersand runs concurrently"      *)
(* (line 62) is true of all commands of fewer than ARGUMENT_SIZE tokens    *)
(* (lines 144 to 154, 265).                                                *)
AmpersandAwaitedOnlyBeyondArgs ==
  pc = "waiting" /\ EndsInAmpersand(Tokens(runs[pid])) => Len(Tokens(runs[pid])) >= ARGUMENT_SIZE

(* total_command_count is the "Total number of commands entered by the     *)
(* user" (line 37): it stands still when there is nothing to enter.        *)
CountsWhatIsEntered ==
  [][input' = "closed" => total_command_count' = total_command_count]_vars
=============================================================================
