-------------------------- MODULE ProcessTreeProofs --------------------------
(***************************************************************************)
(* For every tree of processes, and whichever forks fail: the PIDs come    *)
(* out in the order of creation on a terminal, as often as there are       *)
(* processes below into a file, and no process outlives its parent.        *)
(*                                                                         *)
(* The forks make one process of many: as each waits for all its children  *)
(* after every fork, the processes that live are a line from the root      *)
(* down, and only the last of them does anything (OneAtTheEnd).            *)
(***************************************************************************)
EXTENDS ProcessTree, TLAPS, SequenceTheorems, FiniteSetTheorems

KidsOf(p) == Range(Kids[p])

(* The children that are still to be forked.                               *)
Left(p) == {Kids[p][i] : i \in forked[p] + 1 .. Len(Kids[p])}

Created == {p \in Processes : pc[p] # "not created"}
Alive   == {p \in Processes : pc[p] \in {"started", "forking", "waiting", "returning"}}

(* Between two calls of fork or waitpid.                                   *)
Busy == {p \in Processes : pc[p] \in {"started", "forking", "returning"}}

(* Alive without a child that is.                                          *)
AtTheEnd(p) == p \in Alive /\ KidsOf(p) \cap Alive = {}

(* The process and those above it.                                         *)
Above(q) == {p \in Processes : q \in Subtree[p]}

(* Where a process is in its list of children.                             *)
ForkedOK ==
  \A p \in Processes :
    /\ forked[p] <= Len(Kids[p])
    /\ pc[p] = "forking" => forked[p] < Len(Kids[p])
    /\ pc[p] \in {"not created", "started"} => forked[p] = 0

(* A process is created by its own fork only.                              *)
LeftAreNotCreated == \A p \in Processes : Left(p) \cap Created = {}

(* Only a process in its loop of waitpid has children.                     *)
WaitsForAll == \A p \in Processes : pc[p] # "waiting" => Unreaped(p) = {}

(* The living processes are a line: it has one end.                        *)
OneAtTheEnd ==
  \A p \in Processes : \A q \in Processes : AtTheEnd(p) /\ AtTheEnd(q) => p = q

(* The order of creation has every process that was created, once.         *)
BornOnce == IsInjective(born) /\ Range(born) = Created

(* A process is created after those above it.                              *)
AboveAreCreated == \A q \in Created : Above(q) \subseteq Created

(* On a terminal the process that has just been created is the only one    *)
(* that has not printed, and nothing is kept in a buffer.                  *)
OutputFollows ==
  \/ /\ \A x \in Processes : pc[x] # "started"
     /\ output = born
  \/ \E x \in Processes : pc[x] = "started" /\ born = Append(output, x)

NothingKept == \A p \in Processes : buffer[p] = << >>

OnTerminal == OutputFollows /\ NothingKept

(* Into a file each has in its buffer its own PID, once it has printed it, *)
(* and those above it.                                                     *)
BufferHasAbove ==
  \A q \in Alive :
    /\ IsInjective(buffer[q])
    /\ Range(buffer[q]) = IF pc[q] = "started" THEN Above(q) \ {q} ELSE Above(q)

Times(s, p) == Cardinality({i \in DOMAIN s : s[i] = p})

(* Those who have ended have written the PIDs above them.                  *)
FileHasAbove == \A p \in Processes : Times(output, p) = Cardinality(Ended \cap Subtree[p])

IntoFile == BufferHasAbove /\ FileHasAbove

(* What the forks and the waiting make of the processes.                   *)
TreeInv ==
  /\ TypeOK
  /\ ForkedOK
  /\ LeftAreNotCreated
  /\ WaitsForAll
  /\ OneAtTheEnd
  /\ BornOnce
  /\ AboveAreCreated

IndInv ==
  /\ TreeInv
  /\ terminal => OnTerminal
  /\ ~ terminal => IntoFile

-----------------------------------------------------------------------------
(* What the assumption on the tree says of the children of a process.      *)
LEMMA KidsAreProcesses ==
  ASSUME NEW p \in Processes
  PROVE  /\ Kids[p] \in Seq(Processes)
         /\ Len(Kids[p]) \in Nat
         /\ KidsOf(p) = {Kids[p][i] : i \in 1 .. Len(Kids[p])}
         /\ KidsOf(p) \subseteq Processes \ {Root}
<1>1. Kids[p] \in Seq(Processes) /\ Root \notin KidsOf(p)
  BY TreeAssumption DEF KidsOf
<1>2. Len(Kids[p]) \in Nat /\ DOMAIN Kids[p] = 1 .. Len(Kids[p])
      /\ \A i \in 1 .. Len(Kids[p]) : Kids[p][i] \in Processes
  BY <1>1, LenProperties, ElementOfSeq
<1>3. KidsOf(p) = {Kids[p][i] : i \in 1 .. Len(Kids[p])}
  BY <1>2 DEF KidsOf, Range
<1> QED
  BY <1>1, <1>2, <1>3

(* No process is forked in two places.                                     *)
LEMMA OneParent ==
  ASSUME NEW q \in Processes, NEW r \in Processes, NEW c \in KidsOf(q), c \in KidsOf(r)
  PROVE  q = r
<1>1. c \in Processes \ {Root}
  BY KidsAreProcesses
<1>2. \E u \in Processes : \A v \in Processes : c \in KidsOf(v) => v = u
  BY <1>1, TreeAssumption DEF KidsOf
<1> QED
  BY <1>2

(* Nor twice in one.                                                       *)
LEMMA OnePlace ==
  ASSUME NEW p \in Processes, NEW i \in 1 .. Len(Kids[p]), NEW j \in 1 .. Len(Kids[p]),
         Kids[p][i] = Kids[p][j]
  PROVE  i = j
<1>1. DOMAIN Kids[p] = 1 .. Len(Kids[p])
  BY KidsAreProcesses, LenProperties
<1>2. IsInjective(Kids[p])
  BY TreeAssumption
<1> QED
  BY <1>1, <1>2 DEF IsInjective

(* Nobody is above the root.                                               *)
LEMMA AboveRoot == Above(Root) = {Root}
<1>1. Root \in Processes
  BY TreeAssumption
<1>2. Root \in Above(Root)
  BY <1>1 DEF Above, Subtree
<1>3. ASSUME NEW p \in Above(Root), p # Root PROVE FALSE
  <2> DEFINE S == Processes \ {Root}
  <2>1. p \in S /\ \A r \in S : Range(Kids[r]) \subseteq S
    BY <1>3, KidsAreProcesses DEF Above, KidsOf
  <2>2. Root \in S
    BY <1>3, <2>1 DEF Above, Subtree
  <2> QED
    BY <2>2
<1> QED
  BY <1>2, <1>3

(* Above a child are the child and those above its parent.                 *)
LEMMA AboveChild ==
  ASSUME NEW q \in Processes, NEW c \in KidsOf(q)
  PROVE  Above(c) = Above(q) \cup {c}
<1>0. c \in Processes
  BY KidsAreProcesses
<1>1. c \in Above(c)
  BY <1>0 DEF Above, Subtree
<1>2. ASSUME NEW p \in Above(q) PROVE p \in Above(c)
  <2> SUFFICES ASSUME NEW S \in SUBSET Processes, p \in S,
                      \A r \in S : Range(Kids[r]) \subseteq S
               PROVE  c \in S
    BY <1>0, <1>2 DEF Above, Subtree
  <2>1. q \in S
    BY <1>2 DEF Above, Subtree
  <2> QED
    BY <2>1 DEF KidsOf
<1>3. ASSUME NEW p \in Above(c), p # c PROVE p \in Above(q)
  <2> SUFFICES ASSUME NEW S \in SUBSET Processes, p \in S,
                      \A r \in S : Range(Kids[r]) \subseteq S, q \notin S
               PROVE  FALSE
    BY <1>3 DEF Above, Subtree
  <2> DEFINE R == S \ {c}
  <2>1. p \in R /\ R \in SUBSET Processes
    BY <1>3
  <2>2. ASSUME NEW r \in R PROVE Range(Kids[r]) \subseteq R
    <3>1. c \notin KidsOf(r)
      BY OneParent
    <3> QED
      BY <3>1 DEF KidsOf
  <2>3. c \in R
    <3> HIDE DEF R
    <3> QED
      BY <1>3, <2>1, <2>2 DEF Above, Subtree
  <2> QED
    BY <2>3
<1> QED
  BY <1>1, <1>2, <1>3

-----------------------------------------------------------------------------
(* Sequences: what Append and \o do to what is in them, and how often.     *)
LEMMA RangeOf ==
  ASSUME NEW S, NEW s \in Seq(S)
  PROVE  /\ Range(s) = {s[i] : i \in 1 .. Len(s)}
         /\ Range(s) \subseteq S
<1>1. DOMAIN s = 1 .. Len(s) /\ \A i \in 1 .. Len(s) : s[i] \in S
  BY LenProperties, ElementOfSeq
<1> QED
  BY <1>1 DEF Range

(* A sequence with one element more, such as the order of creation after a *)
(* fork, or a buffer after a print.                                        *)
LEMMA AppendNew ==
  ASSUME NEW S, NEW s \in Seq(S), NEW x \in S
  PROVE  /\ Append(s, x) \in Seq(S)
         /\ Range(Append(s, x)) = Range(s) \cup {x}
         /\ IsInjective(Append(s, x)) <=> IsInjective(s) /\ x \notin Range(s)
<1> DEFINE t == Append(s, x)
<1>1. /\ t \in Seq(S) /\ Len(t) = Len(s) + 1 /\ t[Len(s) + 1] = x
      /\ \A i \in 1 .. Len(s) : t[i] = s[i]
  BY AppendProperties
<1>2. Len(s) \in Nat /\ DOMAIN s = 1 .. Len(s) /\ DOMAIN t = 1 .. Len(t)
  BY <1>1, LenProperties
<1> HIDE DEF t
<1>3. Range(t) = Range(s) \cup {x}
  BY <1>1, <1>2 DEF Range
<1>4. ASSUME IsInjective(s), x \notin Range(s) PROVE IsInjective(t)
  BY <1>1, <1>2, <1>4 DEF IsInjective, Range
<1>5. ASSUME IsInjective(t) PROVE IsInjective(s) /\ x \notin Range(s)
  <2>1. \A i \in 1 .. Len(s) : i \in 1 .. Len(t) /\ i # Len(t)
    BY <1>1, <1>2
  <2>2. Len(t) \in 1 .. Len(t)
    BY <1>1, <1>2
  <2> QED
    BY <1>1, <1>2, <1>5, <2>1, <2>2 DEF IsInjective, Range
<1> QED
  BY <1>1, <1>3, <1>4, <1>5 DEF t

(* A sequence in which nothing comes twice has each of its elements once.  *)
LEMMA TimesOnce ==
  ASSUME NEW S, NEW s \in Seq(S), IsInjective(s), NEW x
  PROVE  Times(s, x) = IF x \in Range(s) THEN 1 ELSE 0
<1> DEFINE I == {i \in DOMAIN s : s[i] = x}
<1>1. CASE x \notin Range(s)
  <2>1. I = {}
    BY <1>1 DEF Range
  <2> QED
    BY <1>1, <2>1, FS_EmptySet DEF Times
<1>2. CASE x \in Range(s)
  <2>1. PICK k \in DOMAIN s : s[k] = x
    BY <1>2 DEF Range
  <2>2. I = {k}
    BY <2>1 DEF IsInjective
  <2> QED
    BY <1>2, <2>2, FS_Singleton DEF Times
<1> QED
  BY <1>1, <1>2

(* How often an element comes in what is written after the writing of such *)
(* a sequence.                                                             *)
LEMMA TimesAfter ==
  ASSUME NEW S, NEW s \in Seq(S), NEW t \in Seq(S), IsInjective(t), NEW x
  PROVE  Times(s \o t, x) = Times(s, x) + (IF x \in Range(t) THEN 1 ELSE 0)
<1> DEFINE u == s \o t
           m == Len(s)
           I == {i \in DOMAIN s : s[i] = x}
           J == {i \in DOMAIN u : u[i] = x}
<1>1. /\ u \in Seq(S) /\ Len(u) = m + Len(t)
      /\ \A i \in 1 .. Len(u) : u[i] = IF i <= m THEN s[i] ELSE t[i - m]
  BY ConcatProperties
<1>2. /\ m \in Nat /\ Len(t) \in Nat
      /\ DOMAIN s = 1 .. m /\ DOMAIN t = 1 .. Len(t) /\ DOMAIN u = 1 .. Len(u)
  BY <1>1, LenProperties
<1>3. IsFiniteSet(I) /\ Cardinality(I) \in Nat
  <2>1. IsFiniteSet(1 .. m)
    BY <1>2, FS_Interval
  <2>2. I \subseteq 1 .. m
    BY <1>2
  <2> QED
    BY <2>1, <2>2, FS_Subset, FS_CardinalityType
<1>4. Times(s, x) = Cardinality(I) /\ Times(u, x) = Cardinality(J)
  BY DEF Times
<1>5. I = {i \in 1 .. m : s[i] = x}
  BY <1>2
<1>6. J = {i \in 1 .. m + Len(t) : (IF i <= m THEN s[i] ELSE t[i - m]) = x}
  BY <1>1, <1>2
<1> HIDE DEF u, m, I, J
<1>7. CASE x \notin Range(t)
  <2>1. \A j \in 1 .. Len(t) : t[j] # x
    BY <1>2, <1>7 DEF Range
  <2>2. J = I
    BY <1>2, <1>5, <1>6, <2>1
  <2> QED
    BY <1>3, <1>4, <1>7, <2>2 DEF u
<1>8. CASE x \in Range(t)
  <2>1. PICK k \in 1 .. Len(t) : t[k] = x
    BY <1>2, <1>8 DEF Range
  <2>2. \A j \in 1 .. Len(t) : t[j] = x => j = k
    BY <1>2, <2>1 DEF IsInjective
  <2>3. J = I \cup {m + k} /\ m + k \notin I
    <3>1. m + k \in J /\ m + k \notin I /\ I \subseteq J
      BY <1>2, <1>5, <1>6, <2>1
    <3>2. ASSUME NEW j \in J, j \notin I PROVE j = m + k
      <4>1. j \in 1 .. m + Len(t) /\ ~ (j <= m) /\ t[j - m] = x
        BY <1>2, <1>5, <1>6, <3>2
      <4>2. j - m \in 1 .. Len(t)
        BY <1>2, <4>1
      <4>3. j - m = k
        BY <2>2, <4>1, <4>2
      <4> QED
        BY <1>2, <4>1, <4>3
    <3> QED
      BY <3>1, <3>2
  <2>4. Cardinality(I \cup {m + k}) = Cardinality(I) + 1
    BY <1>3, <2>3, FS_AddElement
  <2> QED
    BY <1>4, <1>8, <2>3, <2>4 DEF u
<1> QED
  BY <1>7, <1>8

-----------------------------------------------------------------------------
(* The initial states (PLfork.c lines 5 to 7).                             *)
LEMMA InitTree == Init => TreeInv
<1> SUFFICES ASSUME Init PROVE TreeInv
  OBVIOUS
<1>0. Root \in Processes /\ born = <<Root>>
  BY TreeAssumption DEF Init
<1>1. TypeOK
  <2>1. forked \in [Processes -> Nat]
    BY DEF Init
  <2>2. buffer \in [Processes -> Seq(Processes)]
    <3>1. << >> \in Seq(Processes) /\ buffer = [p \in Processes |-> << >>]
      BY EmptySeq DEF Init
    <3>2. \A T : \A x \in T : [p \in Processes |-> x] \in [Processes -> T]
      OBVIOUS
    <3> QED
      BY <3>1, <3>2
  <2>3. born \in Seq(Processes) /\ output \in Seq(Processes)
    <3>1. output = << >>
      BY DEF Init
    <3> QED
      BY <1>0, <3>1, EmptySeq
  <2> QED
    BY <2>1, <2>2, <2>3 DEF Init, TypeOK
<1>2. \A p \in Processes : forked[p] = 0
  BY DEF Init
<1>3. Created = {Root} /\ Alive = {Root}
  BY <1>0 DEF Init, Created, Alive
<1>4. ForkedOK
  <2> SUFFICES ASSUME NEW p \in Processes
               PROVE  /\ forked[p] <= Len(Kids[p])
                      /\ pc[p] # "forking"
                      /\ forked[p] = 0
    BY <1>2 DEF ForkedOK
  <2>1. pc[p] # "forking"
    BY DEF Init
  <2>2. Len(Kids[p]) \in Nat /\ forked[p] = 0
    BY <1>2, KidsAreProcesses
  <2> QED
    BY <2>1, <2>2
<1>5. LeftAreNotCreated
  <2> SUFFICES ASSUME NEW p \in Processes PROVE Left(p) \cap Created = {}
    BY DEF LeftAreNotCreated
  <2>1. Left(p) = {Kids[p][i] : i \in 1 .. Len(Kids[p])}
    <3>1. forked[p] + 1 = 1
      BY <1>2
    <3> QED
      BY <3>1 DEF Left
  <2>2. Left(p) = KidsOf(p)
    BY <2>1, KidsAreProcesses
  <2> QED
    BY <1>3, <2>2, KidsAreProcesses
<1>6. WaitsForAll
  <2> SUFFICES ASSUME NEW p \in Processes PROVE Unreaped(p) = {}
    BY DEF WaitsForAll
  <2>1. forked[p] = 0
    BY <1>2
  <2> QED
    BY <2>1 DEF Unreaped, Children
<1>7. OneAtTheEnd
  BY <1>3 DEF OneAtTheEnd, AtTheEnd
<1>8. BornOnce
  <2>1. DOMAIN born = {1} /\ born[1] = Root
    BY <1>0
  <2> QED
    BY <1>3, <2>1 DEF BornOnce, IsInjective, Range
<1>9. AboveAreCreated
  BY <1>3, AboveRoot DEF AboveAreCreated
<1> QED
  BY <1>1, <1>4, <1>5, <1>6, <1>7, <1>8, <1>9 DEF TreeInv

(* The children forked and those left are all there are.                   *)
LEMMA KidsAreForkedOrLeft ==
  ASSUME TypeOK, ForkedOK, NEW p \in Processes
  PROVE  /\ KidsOf(p) = Children(p) \cup Left(p)
         /\ Children(p) \cap Left(p) = {}
<1>1. forked[p] \in Nat /\ forked[p] <= Len(Kids[p]) /\ Len(Kids[p]) \in Nat
  BY KidsAreProcesses DEF TypeOK, ForkedOK
<1>2. \A i \in 1 .. Len(Kids[p]) : i \in 1 .. forked[p] \/ i \in forked[p] + 1 .. Len(Kids[p])
  BY <1>1
<1>3. /\ 1 .. forked[p] \subseteq 1 .. Len(Kids[p])
      /\ forked[p] + 1 .. Len(Kids[p]) \subseteq 1 .. Len(Kids[p])
  BY <1>1
<1>4. KidsOf(p) = {Kids[p][i] : i \in 1 .. Len(Kids[p])}
  BY KidsAreProcesses
<1>5. KidsOf(p) = Children(p) \cup Left(p)
  BY <1>2, <1>3, <1>4 DEF Children, Left
<1>6. ASSUME NEW i \in 1 .. forked[p], NEW j \in forked[p] + 1 .. Len(Kids[p]),
             Kids[p][i] = Kids[p][j]
      PROVE  FALSE
  <2>1. i = j
    BY <1>3, <1>6, OnePlace
  <2> QED
    BY <1>1, <2>1
<1> QED
  BY <1>5, <1>6 DEF Children, Left

(* A process that does not wait has no child that lives.                   *)
LEMMA BusyAreAtTheEnd ==
  ASSUME TreeInv, NEW p \in Processes, pc[p] \in {"started", "forking", "returning"}
  PROVE  AtTheEnd(p)
<1>1. ASSUME NEW c \in KidsOf(p) PROVE c \notin Alive
  <2>1. CASE c \in Left(p)
    BY <2>1 DEF TreeInv, LeftAreNotCreated, Created, Alive
  <2>2. CASE c \in Children(p)
    <3>1. pc[c] = "reaped"
      BY <2>2 DEF TreeInv, WaitsForAll, Unreaped
    <3> QED
      BY <3>1 DEF Alive
  <2> QED
    BY <2>1, <2>2, KidsAreForkedOrLeft DEF TreeInv
<1> QED
  BY <1>1 DEF AtTheEnd, Alive

(* What a fork does to the lists of children: one goes over from those     *)
(* left to those forked (PLfork.c lines 8 and 15, for two).                *)
LEMMA ForkIs ==
  ASSUME TreeInv, NEW p \in Processes, Fork(p)
  PROVE  \E c \in KidsOf(p) :
           /\ pc[p] = "forking" /\ pc[c] = "not created" /\ c # p
           /\ pc' = [pc EXCEPT ![p] = "waiting", ![c] = "started"]
           /\ buffer' = [buffer EXCEPT ![c] = buffer[p]]
           /\ born' = Append(born, c)
           /\ \A q \in Processes : Children(q)' = IF q = p THEN Children(p) \cup {c} ELSE Children(q)
           /\ \A q \in Processes : Left(q)' = IF q = p THEN Left(p) \ {c} ELSE Left(q)
<1> DEFINE n == forked[p]
           c == Kids[p][n + 1]
<1>1. /\ pc[p] = "forking"
      /\ pc' = [pc EXCEPT ![p] = "waiting", ![c] = "started"]
      /\ buffer' = [buffer EXCEPT ![c] = buffer[p]]
      /\ born' = Append(born, c)
      /\ forked' = [forked EXCEPT ![p] = n + 1]
  BY DEF Fork
<1>2. n \in Nat /\ Len(Kids[p]) \in Nat /\ n < Len(Kids[p])
  BY <1>1, KidsAreProcesses DEF TreeInv, TypeOK, ForkedOK
<1>3. forked'[p] = n + 1 /\ \A q \in Processes \ {p} : forked'[q] = forked[q]
  BY <1>1 DEF TreeInv, TypeOK
<1>4. n + 1 \in 1 .. Len(Kids[p]) /\ n + 1 \in n + 1 .. Len(Kids[p])
  BY <1>2
<1>5. c \in KidsOf(p) /\ c \in Left(p) /\ c \in Processes
  BY <1>4, KidsAreProcesses DEF Left
<1>6. pc[c] = "not created" /\ c # p
  BY <1>1, <1>5 DEF TreeInv, LeftAreNotCreated, Created
<1>7. Children(p)' = Children(p) \cup {c}
  <2>1. 1 .. n + 1 = (1 .. n) \cup {n + 1}
    BY <1>2
  <2> QED
    BY <1>3, <2>1 DEF Children
<1>8. Left(p)' = Left(p) \ {c}
  <2>1. n + 1 .. Len(Kids[p]) = (n + 2 .. Len(Kids[p])) \cup {n + 1}
    BY <1>2
  <2>2. ASSUME NEW i \in n + 2 .. Len(Kids[p]) PROVE Kids[p][i] # c
    <3>1. i \in 1 .. Len(Kids[p]) /\ i # n + 1
      BY <1>2
    <3> QED
      BY <1>4, <3>1, OnePlace
  <2>3. (n + 1) + 1 = n + 2
    BY <1>2
  <2>4. Left(p)' = {Kids[p][i] : i \in n + 2 .. Len(Kids[p])}
    BY <1>3, <2>3 DEF Left
  <2> QED
    BY <2>1, <2>2, <2>4 DEF Left
<1>9. \A q \in Processes \ {p} : Children(q)' = Children(q) /\ Left(q)' = Left(q)
  BY <1>3 DEF Children, Left
<1> HIDE DEF c, n
<1> QED
  BY <1>1, <1>5, <1>6, <1>7, <1>8, <1>9

(* What printing, the end of waiting and a fork that fails have in common: *)
(* a living process without children to wait for goes on (PLfork.c lines 7 *)
(* to 13 and 95, for the root).                                            *)
LEMMA GoingOnKeepsTree ==
  ASSUME TreeInv, NEW p \in Alive, NEW x \in {"forking", "returning"},
         Unreaped(p) = {}, x = "forking" => forked[p] < Len(Kids[p]),
         pc' = [pc EXCEPT ![p] = x], UNCHANGED <<terminal, forked, born>>,
         buffer' \in [Processes -> Seq(Processes)], output' \in Seq(Processes)
  PROVE  TreeInv'
<1> USE DEF TreeInv
<1>0. p \in Processes /\ pc[p] # "reaped"
  BY DEF Alive
<1>1. pc'[p] = x /\ \A q \in Processes : q # p => pc'[q] = pc[q]
  BY <1>0 DEF TypeOK
<1>2. TypeOK'
  BY DEF TypeOK
<1>3. Created' = Created /\ Alive' = Alive
  BY <1>0, <1>1 DEF Created, Alive
<1>4. \A q \in Processes : Left(q)' = Left(q) /\ Children(q)' = Children(q)
  BY DEF Left, Children
<1>5. ForkedOK'
  <2> SUFFICES ASSUME NEW q \in Processes
               PROVE  /\ forked[q] <= Len(Kids[q])
                      /\ pc'[q] = "forking" => forked[q] < Len(Kids[q])
                      /\ pc'[q] \in {"not created", "started"} => forked[q] = 0
    BY DEF ForkedOK
  <2>1. CASE q = p
    BY <1>1, <2>1 DEF ForkedOK
  <2>2. CASE q # p
    BY <1>1, <2>2 DEF ForkedOK
  <2> QED
    BY <2>1, <2>2
<1>6. LeftAreNotCreated'
  BY <1>3, <1>4 DEF LeftAreNotCreated
<1>7. WaitsForAll'
  <2> SUFFICES ASSUME NEW q \in Processes, pc'[q] # "waiting" PROVE Unreaped(q)' = {}
    BY DEF WaitsForAll
  <2>1. Unreaped(q) = {}
    BY <1>1 DEF WaitsForAll
  <2>2. ASSUME NEW c \in Children(q) PROVE pc'[c] = "reaped"
    <3>1. pc[c] = "reaped" /\ c \in Processes
      BY <2>1, KidsAreForkedOrLeft, KidsAreProcesses DEF Unreaped
    <3> QED
      BY <1>0, <1>1, <3>1
  <2> QED
    BY <1>4, <2>2 DEF Unreaped
<1>8. OneAtTheEnd'
  BY <1>3 DEF OneAtTheEnd, AtTheEnd
<1>9. BornOnce' /\ AboveAreCreated'
  BY <1>3 DEF BornOnce, AboveAreCreated, Above
<1> QED
  BY <1>2, <1>5, <1>6, <1>7, <1>8, <1>9

(* Printing is the first thing a process does, before it has children      *)
(* (PLfork.c line 7, for the root).                                        *)
LEMMA PrintPidKeepsTree ==
  ASSUME TreeInv, NEW p \in Processes, PrintPid(p)
  PROVE  TreeInv'
<1>1. /\ pc[p] = "started" /\ pc' = [pc EXCEPT ![p] = ForksNext(p)]
      /\ UNCHANGED <<terminal, forked, born>>
  BY DEF PrintPid
<1>2. p \in Alive /\ Unreaped(p) = {}
  BY <1>1 DEF Alive, TreeInv, WaitsForAll
<1>3. buffer' \in [Processes -> Seq(Processes)] /\ output' \in Seq(Processes)
  <2>1. output \in Seq(Processes) /\ buffer \in [Processes -> Seq(Processes)]
    BY DEF TreeInv, TypeOK
  <2>2. Append(output, p) \in Seq(Processes) /\ Append(buffer[p], p) \in Seq(Processes)
    BY <2>1, AppendProperties
  <2> QED
    BY <2>1, <2>2 DEF PrintPid
<1>4. /\ ForksNext(p) \in {"forking", "returning"}
      /\ ForksNext(p) = "forking" => forked[p] < Len(Kids[p])
  BY DEF ForksNext
<1> QED
  BY <1>1, <1>2, <1>3, <1>4, GoingOnKeepsTree

(* A process gives up its forks between two waits, without a child that    *)
(* lives (PLfork.c lines 16 and 17, for one).                              *)
LEMMA ForkFailsKeepsTree ==
  ASSUME TreeInv, NEW p \in Processes, ForkFails(p)
  PROVE  TreeInv'
<1>1. /\ pc[p] = "forking" /\ pc' = [pc EXCEPT ![p] = "returning"]
      /\ UNCHANGED <<terminal, forked, born, buffer, output>>
  BY DEF ForkFails
<1>2. p \in Alive /\ Unreaped(p) = {}
  BY <1>1 DEF Alive, TreeInv, WaitsForAll
<1>3. buffer' \in [Processes -> Seq(Processes)] /\ output' \in Seq(Processes)
  BY <1>1 DEF TreeInv, TypeOK
<1> QED
  BY <1>1, <1>2, <1>3, GoingOnKeepsTree

(* The loop of waitpid ends when no child is left, so the process is the   *)
(* end of the line again (PLfork.c line 22, for P2).                       *)
LEMMA WaitEndsKeepsTree ==
  ASSUME TreeInv, NEW p \in Processes, WaitEnds(p)
  PROVE  TreeInv'
<1>1. /\ pc[p] = "waiting" /\ pc' = [pc EXCEPT ![p] = ForksNext(p)]
      /\ UNCHANGED <<terminal, forked, born, buffer, output>> /\ Unreaped(p) = {}
  BY DEF WaitEnds
<1>2. p \in Alive
  BY <1>1 DEF Alive
<1>3. buffer' \in [Processes -> Seq(Processes)] /\ output' \in Seq(Processes)
  BY <1>1 DEF TreeInv, TypeOK
<1>4. /\ ForksNext(p) \in {"forking", "returning"}
      /\ ForksNext(p) = "forking" => forked[p] < Len(Kids[p])
  BY DEF ForksNext
<1> QED
  BY <1>1, <1>2, <1>3, <1>4, GoingOnKeepsTree

(* The call of waitpid that finds a child, which did not live any more     *)
(* (PLfork.c line 22, for P2).                                             *)
LEMMA ReapKeepsTree ==
  ASSUME TreeInv, NEW p \in Processes, Reap(p)
  PROVE  TreeInv'
<1> USE DEF TreeInv
<1>0. PICK c \in Unreaped(p) : pc[c] = "zombie" /\ pc' = [pc EXCEPT ![c] = "reaped"]
  BY DEF Reap
<1>1. UNCHANGED <<terminal, forked, buffer, born, output>>
  BY DEF Reap
<1>2. c \in Processes
  BY KidsAreForkedOrLeft, KidsAreProcesses DEF Unreaped
<1>3. pc'[c] = "reaped" /\ \A q \in Processes : q # c => pc'[q] = pc[q]
  BY <1>0, <1>2 DEF TypeOK
<1>4. TypeOK'
  BY <1>0, <1>1 DEF TypeOK
<1>5. Created' = Created /\ Alive' = Alive
  BY <1>0, <1>2, <1>3 DEF Created, Alive
<1>6. \A q \in Processes : Left(q)' = Left(q) /\ Children(q)' = Children(q)
  BY <1>1 DEF Left, Children
<1>7. ForkedOK'
  <2> SUFFICES ASSUME NEW q \in Processes
               PROVE  /\ forked[q] <= Len(Kids[q])
                      /\ pc'[q] = "forking" => forked[q] < Len(Kids[q])
                      /\ pc'[q] \in {"not created", "started"} => forked[q] = 0
    BY <1>1 DEF ForkedOK
  <2>1. CASE q = c
    BY <1>3, <2>1 DEF ForkedOK
  <2>2. CASE q # c
    BY <1>3, <2>2 DEF ForkedOK
  <2> QED
    BY <2>1, <2>2
<1>8. LeftAreNotCreated'
  BY <1>5, <1>6 DEF LeftAreNotCreated
<1>9. WaitsForAll'
  <2> SUFFICES ASSUME NEW q \in Processes, pc'[q] # "waiting" PROVE Unreaped(q)' = {}
    BY DEF WaitsForAll
  <2>1. Unreaped(q) = {}
    BY <1>0, <1>3 DEF WaitsForAll
  <2>2. ASSUME NEW d \in Children(q) PROVE pc'[d] = "reaped"
    <3>1. pc[d] = "reaped" /\ d \in Processes
      BY <2>1, KidsAreForkedOrLeft, KidsAreProcesses DEF Unreaped
    <3> QED
      BY <1>0, <1>3, <3>1
  <2> QED
    BY <1>6, <2>2 DEF Unreaped
<1>10. OneAtTheEnd'
  BY <1>5 DEF OneAtTheEnd, AtTheEnd
<1>11. BornOnce' /\ AboveAreCreated'
  BY <1>1, <1>5 DEF BornOnce, AboveAreCreated, Above
<1> QED
  BY <1>4, <1>7, <1>8, <1>9, <1>10, <1>11

(* A return leaves the parent at the end, whom the process was the last    *)
(* living child of (PLfork.c line 99).                                     *)
LEMMA ReturnKeepsTree ==
  ASSUME TreeInv, NEW p \in Processes, Return(p)
  PROVE  TreeInv'
<1> USE DEF TreeInv
<1>0. pc[p] = "returning" /\ pc' = [pc EXCEPT ![p] = "zombie"]
      /\ UNCHANGED <<terminal, forked, born>>
  BY DEF Return
<1>1. pc'[p] = "zombie" /\ \A q \in Processes : q # p => pc'[q] = pc[q]
  BY <1>0 DEF TypeOK
<1>2. TypeOK'
  <2>1. output \in Seq(Processes) /\ buffer \in [Processes -> Seq(Processes)]
    BY DEF TypeOK
  <2>2. output \o buffer[p] \in Seq(Processes) /\ << >> \in Seq(Processes)
    BY <2>1, ConcatProperties, EmptySeq
  <2>3. output' \in Seq(Processes) /\ buffer' \in [Processes -> Seq(Processes)]
    BY <2>1, <2>2 DEF Return
  <2> QED
    BY <1>0, <2>3 DEF TypeOK
<1>3. Created' = Created /\ Alive' = Alive \ {p} /\ p \in Alive
  BY <1>0, <1>1 DEF Created, Alive
<1>4. \A q \in Processes : Left(q)' = Left(q) /\ Children(q)' = Children(q)
  BY <1>0 DEF Left, Children
<1>5. ForkedOK'
  <2> SUFFICES ASSUME NEW q \in Processes
               PROVE  /\ forked[q] <= Len(Kids[q])
                      /\ pc'[q] = "forking" => forked[q] < Len(Kids[q])
                      /\ pc'[q] \in {"not created", "started"} => forked[q] = 0
    BY <1>0 DEF ForkedOK
  <2>1. CASE q = p
    BY <1>1, <2>1 DEF ForkedOK
  <2>2. CASE q # p
    BY <1>1, <2>2 DEF ForkedOK
  <2> QED
    BY <2>1, <2>2
<1>6. LeftAreNotCreated'
  BY <1>3, <1>4 DEF LeftAreNotCreated
<1>7. WaitsForAll'
  <2> SUFFICES ASSUME NEW q \in Processes, pc'[q] # "waiting" PROVE Unreaped(q)' = {}
    BY DEF WaitsForAll
  <2>1. Unreaped(q) = {}
    BY <1>0, <1>1 DEF WaitsForAll
  <2>2. ASSUME NEW c \in Children(q) PROVE pc'[c] = "reaped"
    <3>1. pc[c] = "reaped" /\ c \in Processes
      BY <2>1, KidsAreForkedOrLeft, KidsAreProcesses DEF Unreaped
    <3> QED
      BY <1>0, <1>1, <3>1
  <2> QED
    BY <1>4, <2>2 DEF Unreaped
<1>8. OneAtTheEnd'
  <2>1. ASSUME NEW q \in Processes, AtTheEnd(q)' PROVE p \in KidsOf(q)
    <3>1. q \in Alive /\ q # p /\ KidsOf(q) \cap Alive \subseteq {p}
      BY <1>3, <2>1 DEF AtTheEnd
    <3>2. ~ AtTheEnd(q)
      BY <1>0, <3>1, BusyAreAtTheEnd DEF OneAtTheEnd
    <3> QED
      BY <3>1, <3>2 DEF AtTheEnd
  <2>2. ASSUME NEW q \in Processes, NEW r \in Processes, AtTheEnd(q)', AtTheEnd(r)'
        PROVE  q = r
    BY <2>1, <2>2, OneParent
  <2> QED
    BY <2>2 DEF OneAtTheEnd
<1>9. BornOnce' /\ AboveAreCreated'
  BY <1>0, <1>3 DEF BornOnce, AboveAreCreated, Above
<1> QED
  BY <1>2, <1>5, <1>6, <1>7, <1>8, <1>9

(* A fork makes the line longer by one, who is at the end of it then       *)
(* (PLfork.c lines 8 to 13, for one).                                      *)
LEMMA ForkKeepsTree ==
  ASSUME TreeInv, NEW p \in Processes, Fork(p)
  PROVE  TreeInv'
<1> USE DEF TreeInv
<1>0. PICK c \in KidsOf(p) :
        /\ pc[p] = "forking" /\ pc[c] = "not created" /\ c # p
        /\ pc' = [pc EXCEPT ![p] = "waiting", ![c] = "started"]
        /\ buffer' = [buffer EXCEPT ![c] = buffer[p]]
        /\ born' = Append(born, c)
        /\ \A q \in Processes : Children(q)' = IF q = p THEN Children(p) \cup {c} ELSE Children(q)
        /\ \A q \in Processes : Left(q)' = IF q = p THEN Left(p) \ {c} ELSE Left(q)
  BY ForkIs
<1>1. UNCHANGED <<terminal, output>> /\ forked' = [forked EXCEPT ![p] = @ + 1]
  BY DEF Fork
<1>2. c \in Processes
  BY KidsAreProcesses
<1>3. /\ pc'[p] = "waiting" /\ pc'[c] = "started"
      /\ \A q \in Processes : q # p /\ q # c => pc'[q] = pc[q]
  BY <1>0, <1>2 DEF TypeOK
<1>4. TypeOK'
  <2>1. pc' \in [Processes -> {"not created", "started", "forking", "waiting",
                               "returning", "zombie", "reaped"}]
    BY <1>0 DEF TypeOK
  <2>2. forked' \in [Processes -> Nat]
    <3>1. forked \in [Processes -> Nat]
      BY DEF TypeOK
    <3>2. forked' = [forked EXCEPT ![p] = @ + 1]
      BY <1>1
    <3> QED
      BY <3>1, <3>2
  <2>3. buffer' \in [Processes -> Seq(Processes)]
    <3>1. buffer' = [buffer EXCEPT ![c] = buffer[p]]
      BY <1>0
    <3>2. buffer \in [Processes -> Seq(Processes)]
      BY DEF TypeOK
    <3> QED
      BY <3>1, <3>2
  <2>4. born' \in Seq(Processes)
    BY <1>0, <1>2, AppendProperties DEF TypeOK
  <2> QED
    BY <1>1, <2>1, <2>2, <2>3, <2>4 DEF TypeOK
<1>5. Created' = Created \cup {c} /\ c \notin Created
  BY <1>0, <1>2, <1>3 DEF Created
<1>6. Alive' = Alive \cup {c}
  BY <1>0, <1>2, <1>3 DEF Alive
<1>7. ForkedOK'
  <2> SUFFICES ASSUME NEW q \in Processes
               PROVE  /\ forked'[q] <= Len(Kids[q])
                      /\ pc'[q] = "forking" => forked'[q] < Len(Kids[q])
                      /\ pc'[q] \in {"not created", "started"} => forked'[q] = 0
    BY DEF ForkedOK
  <2>1. Len(Kids[q]) \in Nat /\ forked[q] \in Nat
    BY KidsAreProcesses DEF TypeOK
  <2>2. CASE q = p
    <3>1. forked[p] < Len(Kids[p])
      BY <1>0 DEF ForkedOK
    <3>2. forked'[p] = forked[p] + 1
      BY <1>1 DEF TypeOK
    <3>3. forked'[p] <= Len(Kids[p])
      BY <2>1, <2>2, <3>1, <3>2
    <3> QED
      BY <1>3, <2>2, <3>3
  <2>3. CASE q = c
    <3>1. forked'[q] = forked[q]
      BY <1>0, <1>1, <2>3 DEF TypeOK
    <3>2. forked[q] = 0
      BY <1>0, <1>2, <2>3 DEF ForkedOK
    <3>3. forked'[q] <= Len(Kids[q])
      BY <2>1, <3>1, <3>2
    <3> QED
      BY <1>3, <2>3, <3>1, <3>2, <3>3
  <2>4. CASE q # p /\ q # c
    <3>1. forked'[q] = forked[q] /\ pc'[q] = pc[q]
      BY <1>1, <1>3, <2>4 DEF TypeOK
    <3> QED
      BY <3>1 DEF ForkedOK
  <2> QED
    BY <2>2, <2>3, <2>4
<1>8. LeftAreNotCreated'
  <2> SUFFICES ASSUME NEW q \in Processes PROVE Left(q)' \cap (Created \cup {c}) = {}
    BY <1>5 DEF LeftAreNotCreated
  <2>1. Left(q) \cap Created = {}
    BY DEF LeftAreNotCreated
  <2>2. CASE q = p
    BY <1>0, <2>1, <2>2
  <2>3. CASE q # p
    <3>1. c \notin Left(q)
      BY <1>2, <2>3, OneParent, KidsAreForkedOrLeft
    <3> QED
      BY <1>0, <2>1, <2>3, <3>1
  <2> QED
    BY <2>2, <2>3
<1>9. WaitsForAll'
  <2> SUFFICES ASSUME NEW q \in Processes, pc'[q] # "waiting" PROVE Unreaped(q)' = {}
    BY DEF WaitsForAll
  <2>1. q # p /\ pc[q] # "waiting" /\ Children(q)' = Children(q)
    BY <1>0, <1>3
  <2>2. Unreaped(q) = {}
    BY <2>1 DEF WaitsForAll
  <2>3. ASSUME NEW d \in Children(q) PROVE pc'[d] = "reaped"
    <3>1. pc[d] = "reaped" /\ d \in Processes
      BY <2>2, KidsAreForkedOrLeft, KidsAreProcesses DEF Unreaped
    <3> QED
      BY <1>0, <1>3, <3>1
  <2> QED
    BY <2>1, <2>3 DEF Unreaped
<1>10. OneAtTheEnd'
  <2>1. ASSUME NEW q \in Processes, AtTheEnd(q)', q # c PROVE FALSE
    <3>1. AtTheEnd(q)
      BY <1>6, <2>1 DEF AtTheEnd
    <3>2. q = p
      BY <1>0, <3>1, BusyAreAtTheEnd DEF OneAtTheEnd
    <3> QED
      BY <1>6, <2>1, <3>2 DEF AtTheEnd
  <2> QED
    BY <2>1 DEF OneAtTheEnd
<1>11. BornOnce'
  <2>1. born \in Seq(Processes) /\ IsInjective(born) /\ Range(born) = Created
    BY DEF TypeOK, BornOnce
  <2>2. IsInjective(Append(born, c)) /\ Range(Append(born, c)) = Created \cup {c}
    BY <1>2, <1>5, <2>1, AppendNew
  <2>3. born' = Append(born, c)
    BY <1>0
  <2> QED
    BY <1>5, <2>2, <2>3 DEF BornOnce
<1>12. AboveAreCreated'
  <2>1. Above(c) = Above(p) \cup {c} /\ p \in Created
    BY <1>0, AboveChild DEF Created
  <2> QED
    BY <1>5, <2>1 DEF AboveAreCreated, Above
<1> QED
  BY <1>4, <1>7, <1>8, <1>9, <1>10, <1>11, <1>12

(* Every step keeps the tree in order (all of PLfork.c).                   *)
LEMMA NextKeepsTree == TreeInv /\ [Next]_vars => TreeInv'
<1> SUFFICES ASSUME TreeInv, [Next]_vars PROVE TreeInv'
  OBVIOUS
<1>1. ASSUME NEW p \in Processes, process(p) PROVE TreeInv'
  BY <1>1, PrintPidKeepsTree, ForkKeepsTree, ForkFailsKeepsTree, ReapKeepsTree,
     WaitEndsKeepsTree, ReturnKeepsTree DEF process
<1>2. CASE UNCHANGED vars
  BY <1>2 DEF vars, TreeInv, TypeOK, ForkedOK, LeftAreNotCreated, Left, Created, WaitsForAll,
              Unreaped, Children, OneAtTheEnd, AtTheEnd, Alive, BornOnce, AboveAreCreated, Above
<1> QED
  BY <1>1, <1>2 DEF Next

(* The processes are in order in every reachable state (all of PLfork.c).  *)
LEMMA TreeHolds == SafeSpec => []TreeInv
  BY InitTree, NextKeepsTree, PTL DEF SafeSpec

-----------------------------------------------------------------------------
(* At most one process is between two calls of fork or waitpid.            *)
LEMMA OneIsBusy ==
  ASSUME TreeInv, NEW p \in Processes, NEW q \in Processes,
         pc[p] \in {"started", "forking", "returning"},
         pc[q] \in {"started", "forking", "returning"}
  PROVE  p = q
  BY BusyAreAtTheEnd DEF TreeInv, OneAtTheEnd

(* What the steps other than a fork do to the program counters.            *)
LEMMA OthersStayStarted ==
  ASSUME TreeInv, NEW p \in Processes, process(p), ~ Fork(p)
  PROVE  /\ \A x \in Processes : pc'[x] = "started" <=> pc[x] = "started" /\ x # p
         /\ pc[p] = "started" => PrintPid(p)
         /\ ~ Return(p) => Alive' = Alive /\ Ended' = Ended
         /\ Return(p) => /\ Alive' = Alive \ {p} /\ p \in Alive
                         /\ Ended' = Ended \cup {p} /\ p \notin Ended
<1>0. pc \in [Processes -> {"not created", "started", "forking", "waiting",
                            "returning", "zombie", "reaped"}]
  BY DEF TreeInv, TypeOK
<1>1. ForksNext(p) \in {"forking", "returning"}
  BY DEF ForksNext
<1>2. ASSUME NEW q \in Processes, NEW l \in {"forking", "returning", "zombie", "reaped"},
             pc' = [pc EXCEPT ![q] = l]
      PROVE  /\ \A x \in Processes : pc'[x] = "started" <=> pc[x] = "started" /\ x # q
             /\ q \in Alive /\ l \in {"forking", "returning"}
                  => Alive' = Alive /\ Ended' = Ended
             /\ q \in Ended /\ l = "reaped" => Alive' = Alive /\ Ended' = Ended
             /\ l = "zombie" => Alive' = Alive \ {q} /\ Ended' = Ended \cup {q}
  <2>1. pc'[q] = l /\ \A x \in Processes : x # q => pc'[x] = pc[x]
    BY <1>0, <1>2
  <2>2. \A x \in Processes : pc'[x] = "started" <=> pc[x] = "started" /\ x # q
    BY <2>1
  <2>3. ASSUME q \in Alive, l \in {"forking", "returning"} PROVE Alive' = Alive /\ Ended' = Ended
    BY <2>1, <2>3 DEF Alive, Ended
  <2>4. ASSUME q \in Ended, l = "reaped" PROVE Alive' = Alive /\ Ended' = Ended
    BY <2>1, <2>4 DEF Alive, Ended
  <2>5. ASSUME l = "zombie" PROVE Alive' = Alive \ {q} /\ Ended' = Ended \cup {q}
    BY <2>1, <2>5 DEF Alive, Ended
  <2> QED
    BY <2>2, <2>3, <2>4, <2>5
<1>3. CASE PrintPid(p)
  <2>1. pc[p] = "started" /\ pc' = [pc EXCEPT ![p] = ForksNext(p)]
    BY <1>3 DEF PrintPid
  <2>2. p \in Alive /\ ~ Return(p)
    BY <2>1 DEF Alive, Return
  <2> QED
    BY <1>1, <1>2, <1>3, <2>1, <2>2
<1>4. CASE ForkFails(p)
  <2>1. pc[p] = "forking" /\ pc' = [pc EXCEPT ![p] = "returning"]
    BY <1>4 DEF ForkFails
  <2>2. p \in Alive /\ ~ Return(p) /\ pc[p] # "started"
    BY <2>1 DEF Alive, Return
  <2> QED
    BY <1>2, <2>1, <2>2
<1>5. CASE WaitEnds(p)
  <2>1. pc[p] = "waiting" /\ pc' = [pc EXCEPT ![p] = ForksNext(p)]
    BY <1>5 DEF WaitEnds
  <2>2. p \in Alive /\ ~ Return(p) /\ pc[p] # "started"
    BY <2>1 DEF Alive, Return
  <2> QED
    BY <1>1, <1>2, <2>1, <2>2
<1>6. CASE Reap(p)
  <2>1. PICK c \in Unreaped(p) : pc[c] = "zombie" /\ pc' = [pc EXCEPT ![c] = "reaped"]
    BY <1>6 DEF Reap
  <2>2. c \in Processes
    BY KidsAreForkedOrLeft, KidsAreProcesses DEF Unreaped, TreeInv
  <2>3. c \in Ended /\ pc[c] # "started"
    BY <2>1, <2>2 DEF Ended
  <2>4. pc[p] = "waiting" /\ ~ Return(p)
    BY <1>6 DEF Reap, Return
  <2>5. Alive' = Alive /\ Ended' = Ended
    BY <1>2, <2>1, <2>2, <2>3
  <2>6. \A x \in Processes : pc'[x] = "started" <=> pc[x] = "started" /\ x # c
    BY <1>2, <2>1, <2>2
  <2>7. \A x \in Processes : pc'[x] = "started" <=> pc[x] = "started" /\ x # p
    BY <2>3, <2>4, <2>6
  <2> QED
    BY <2>4, <2>5, <2>7
<1>7. CASE Return(p)
  <2>1. pc[p] = "returning" /\ pc' = [pc EXCEPT ![p] = "zombie"]
    BY <1>7 DEF Return
  <2>2. p \in Alive /\ p \notin Ended /\ pc[p] # "started"
    BY <2>1 DEF Alive, Ended
  <2> QED
    BY <1>2, <1>7, <2>1, <2>2
<1> QED
  BY <1>3, <1>4, <1>5, <1>6, <1>7 DEF process

(* What is printed, and what is not.                                       *)
LEMMA OutputSteps ==
  ASSUME TreeInv, NEW p \in Processes, process(p)
  PROVE  /\ Return(p) => output' = output \o buffer[p] /\ buffer' = [buffer EXCEPT ![p] = << >>]
         /\ ~ Return(p) /\ ~ PrintPid(p) => output' = output
         /\ ~ Return(p) /\ ~ PrintPid(p) /\ ~ Fork(p) => buffer' = buffer
         /\ ~ Fork(p) => born' = born
         /\ terminal' = terminal
  BY DEF process, PrintPid, Fork, ForkFails, Reap, WaitEnds, Return

(* printf on a terminal (PLfork.c line 7, for one).                        *)
LEMMA PrintsOnTerminal ==
  ASSUME NEW p \in Processes, PrintPid(p), terminal
  PROVE  output' = Append(output, p) /\ buffer' = buffer
  BY Zenon DEF PrintPid

(* printf into a file (PLfork.c line 7, for one).                          *)
LEMMA PrintsIntoBuffer ==
  ASSUME NEW p \in Processes, PrintPid(p), ~ terminal
  PROVE  buffer' = [buffer EXCEPT ![p] = Append(@, p)] /\ output' = output
  BY Zenon DEF PrintPid

(* On a terminal a process prints before any other does anything (PLfork.c *)
(* line 7, for one).                                                       *)
LEMMA StepKeepsTerminal ==
  ASSUME TreeInv, terminal, OnTerminal, NEW p \in Processes, process(p)
  PROVE  OnTerminal'
<1> USE DEF OnTerminal
<1>1. NothingKept'
  <2>0. buffer \in [Processes -> Seq(Processes)] /\ \A q \in Processes : buffer[q] = << >>
    BY DEF NothingKept, TreeInv, TypeOK
  <2>1. CASE Fork(p)
    <3>1. PICK c \in KidsOf(p) : buffer' = [buffer EXCEPT ![c] = buffer[p]]
      BY <2>1, ForkIs
    <3> QED
      BY <2>0, <3>1 DEF NothingKept
  <2>2. CASE Return(p)
    BY <2>0, <2>2, OutputSteps DEF NothingKept
  <2>3. CASE ~ Fork(p) /\ ~ Return(p)
    <3>1. buffer' = buffer
      BY <2>3, OutputSteps, PrintsOnTerminal
    <3> QED
      BY <3>1 DEF NothingKept
  <2> QED
    BY <2>1, <2>2, <2>3
<1>2. OutputFollows'
  <2>1. CASE PrintPid(p)
    <3>1. pc[p] = "started" /\ born' = born /\ pc' = [pc EXCEPT ![p] = ForksNext(p)]
      BY <2>1 DEF PrintPid
    <3>2. PICK x \in Processes : pc[x] = "started" /\ born = Append(output, x)
      BY <3>1 DEF OutputFollows
    <3>3. x = p
      BY <3>1, <3>2, OneIsBusy
    <3>4. output' = born'
      BY <2>1, <3>1, <3>2, <3>3, PrintsOnTerminal
    <3>5. ASSUME NEW y \in Processes, pc'[y] = "started" PROVE FALSE
      <4>1. ~ Fork(p)
        BY <3>1 DEF Fork
      <4>2. y # p /\ pc[y] = "started"
        BY <3>5, <4>1, OthersStayStarted
      <4> QED
        BY <3>1, <4>2, OneIsBusy
    <3> QED
      BY <3>4, <3>5 DEF OutputFollows
  <2>2. CASE Fork(p)
    <3>1. PICK c \in KidsOf(p) :
            /\ pc[p] = "forking" /\ c # p
            /\ pc' = [pc EXCEPT ![p] = "waiting", ![c] = "started"]
            /\ born' = Append(born, c)
      BY <2>2, ForkIs
    <3>2. \A x \in Processes : pc[x] # "started"
      <4> SUFFICES ASSUME NEW x \in Processes, pc[x] = "started" PROVE FALSE
        OBVIOUS
      <4>1. x = p
        BY <3>1, OneIsBusy
      <4> QED
        BY <3>1, <4>1
    <3>3. output = born
      BY <3>2 DEF OutputFollows
    <3>4. output' = output
      BY <2>2 DEF Fork
    <3>5. c \in Processes /\ pc'[c] = "started"
      BY <3>1, KidsAreProcesses DEF TreeInv, TypeOK
    <3> QED
      BY <3>1, <3>3, <3>4, <3>5 DEF OutputFollows
  <2>3. CASE ~ PrintPid(p) /\ ~ Fork(p)
    <3>1. output' = output /\ born' = born
      <4>1. CASE Return(p)
        <5>1. output' = output \o << >> /\ output \in Seq(Processes)
          BY <4>1, OutputSteps DEF NothingKept, TreeInv, TypeOK
        <5> QED
          BY <2>3, <5>1, OutputSteps, ConcatEmptySeq
      <4> QED
        BY <2>3, <4>1, OutputSteps
    <3>2. \A x \in Processes : pc'[x] = "started" <=> pc[x] = "started"
      BY <2>3, OthersStayStarted
    <3> QED
      BY <3>1, <3>2 DEF OutputFollows
  <2> QED
    BY <2>1, <2>2, <2>3
<1> QED
  BY <1>1, <1>2

(* Those above a process include itself.                                   *)
LEMMA AboveItself ==
  ASSUME NEW q \in Processes
  PROVE  q \in Above(q)
  BY DEF Above, Subtree

(* What has ended is finitely many.                                        *)
LEMMA EndedAreFinite ==
  ASSUME TreeInv
  PROVE  IsFiniteSet(Ended)
<1>1. born \in Seq(Processes) /\ Range(born) = Created
  BY DEF TreeInv, TypeOK, BornOnce
<1>2. Len(born) \in Nat /\ DOMAIN born = 1 .. Len(born) /\ born \in [1 .. Len(born) -> Processes]
  BY <1>1, LenProperties
<1>3. born \in Surjection(1 .. Len(born), Created)
  BY <1>1, <1>2 DEF Surjection, Range
<1>4. IsFiniteSet(1 .. Len(born))
  BY <1>2, FS_Interval
<1>5. IsFiniteSet(Created)
  BY <1>3, <1>4, FS_Surjection
<1>6. Ended \subseteq Created
  BY DEF Ended, Created
<1> QED
  BY <1>5, <1>6, FS_Subset

(* A child begins with what its parent has printed and not written, which  *)
(* is the PIDs above it (PLfork.c lines 7 and 8, for one).                 *)
LEMMA StepKeepsBuffers ==
  ASSUME TreeInv, ~ terminal, IntoFile, NEW p \in Processes, process(p)
  PROVE  BufferHasAbove'
<1>0. /\ buffer \in [Processes -> Seq(Processes)] /\ Alive \subseteq Processes
      /\ Alive' \subseteq Processes
  BY DEF TreeInv, TypeOK, Alive
<1>1. \A q \in Alive :
        /\ IsInjective(buffer[q])
        /\ Range(buffer[q]) = IF pc[q] = "started" THEN Above(q) \ {q} ELSE Above(q)
  BY DEF IntoFile, BufferHasAbove
<1>2. SUFFICES ASSUME NEW q \in Alive'
               PROVE  /\ IsInjective(buffer'[q])
                      /\ Range(buffer'[q]) = IF pc'[q] = "started" THEN Above(q) \ {q} ELSE Above(q)
  BY DEF BufferHasAbove, Above
<1>3. CASE PrintPid(p)
  <2>1. ~ Fork(p) /\ ~ Return(p) /\ pc[p] = "started" /\ p \in Alive
    BY <1>3 DEF PrintPid, Fork, Return, Alive
  <2>2. buffer' = [buffer EXCEPT ![p] = Append(@, p)]
    BY <1>3, PrintsIntoBuffer
  <2>3. q \in Alive /\ (pc'[q] = "started" <=> pc[q] = "started" /\ q # p)
    BY <1>0, <2>1, OthersStayStarted
  <2>4. CASE q # p
    <3>1. buffer'[q] = buffer[q]
      BY <1>0, <2>2, <2>4
    <3> QED
      BY <1>1, <2>3, <2>4, <3>1
  <2>5. CASE q = p
    <3>1. buffer'[p] = Append(buffer[p], p) /\ buffer[p] \in Seq(Processes)
      BY <1>0, <2>2
    <3>2. IsInjective(buffer[p]) /\ Range(buffer[p]) = Above(p) \ {p}
      BY <1>1, <2>1
    <3>3. /\ IsInjective(Append(buffer[p], p))
          /\ Range(Append(buffer[p], p)) = (Above(p) \ {p}) \cup {p}
      BY <3>1, <3>2, AppendNew
    <3>4. (Above(p) \ {p}) \cup {p} = Above(p)
      BY AboveItself
    <3> QED
      BY <2>3, <2>5, <3>1, <3>3, <3>4
  <2> QED
    BY <2>4, <2>5
<1>4. CASE Fork(p)
  <2>1. PICK c \in KidsOf(p) :
          /\ pc[p] = "forking" /\ pc[c] = "not created" /\ c # p
          /\ pc' = [pc EXCEPT ![p] = "waiting", ![c] = "started"]
          /\ buffer' = [buffer EXCEPT ![c] = buffer[p]]
    BY <1>4, ForkIs
  <2>2. c \in Processes /\ p \in Alive /\ p \in Created /\ c \notin Created
    BY <2>1, KidsAreProcesses DEF Alive, Created
  <2>3. /\ pc'[c] = "started" /\ pc'[p] = "waiting"
        /\ \A x \in Processes : x # p /\ x # c => pc'[x] = pc[x]
    BY <2>1, <2>2 DEF TreeInv, TypeOK
  <2>4. buffer'[c] = buffer[p] /\ \A x \in Processes : x # c => buffer'[x] = buffer[x]
    BY <1>0, <2>1, <2>2
  <2>5. IsInjective(buffer[p]) /\ Range(buffer[p]) = Above(p)
    BY <1>1, <2>1, <2>2
  <2>6. CASE q = c
    <3>1. Above(c) = Above(p) \cup {c}
      BY AboveChild
    <3>2. c \notin Above(p)
      BY <2>2 DEF TreeInv, AboveAreCreated
    <3> QED
      BY <2>3, <2>4, <2>5, <2>6, <3>1, <3>2
  <2>7. CASE q = p
    BY <2>1, <2>3, <2>4, <2>5, <2>7
  <2>8. CASE q # c /\ q # p
    <3>1. q \in Processes /\ pc'[q] = pc[q] /\ buffer'[q] = buffer[q]
      BY <1>0, <2>3, <2>4, <2>8
    <3>2. q \in Alive
      BY <3>1 DEF Alive
    <3> QED
      BY <1>1, <3>1, <3>2
  <2> QED
    BY <2>6, <2>7, <2>8
<1>5. CASE Return(p)
  <2>1. ~ Fork(p) /\ pc[p] = "returning"
    BY <1>5 DEF Return, Fork
  <2>2. Alive' = Alive \ {p} /\ \A x \in Processes : pc'[x] = "started" <=> pc[x] = "started" /\ x # p
    BY <1>5, <2>1, OthersStayStarted
  <2>3. q \in Alive /\ q # p /\ buffer'[q] = buffer[q]
    BY <1>0, <1>5, <2>2, OutputSteps
  <2> QED
    BY <1>0, <1>1, <2>2, <2>3
<1>6. CASE ~ PrintPid(p) /\ ~ Fork(p) /\ ~ Return(p)
  <2>1. /\ Alive' = Alive /\ buffer' = buffer
        /\ \A x \in Processes : pc'[x] = "started" <=> pc[x] = "started" /\ x # p
        /\ pc[p] # "started"
    BY <1>6, OthersStayStarted, OutputSteps
  <2> QED
    BY <1>0, <1>1, <2>1
<1> QED
  BY <1>3, <1>4, <1>5, <1>6

(* Who ends writes the PIDs above it, once each (PLfork.c line 99).        *)
LEMMA StepKeepsFile ==
  ASSUME TreeInv, ~ terminal, IntoFile, NEW p \in Processes, process(p)
  PROVE  FileHasAbove'
<1>1. CASE Return(p)
  <2>1. /\ output' = output \o buffer[p] /\ p \in Alive
        /\ Ended' = Ended \cup {p} /\ p \notin Ended
    <3>1. ~ Fork(p)
      BY <1>1 DEF Return, Fork
    <3> QED
      BY <1>1, <3>1, OutputSteps, OthersStayStarted
  <2>2. pc[p] # "started"
    BY <1>1 DEF Return
  <2>3. IsInjective(buffer[p]) /\ Range(buffer[p]) = Above(p)
    BY <2>1, <2>2 DEF IntoFile, BufferHasAbove
  <2>4. output \in Seq(Processes) /\ buffer[p] \in Seq(Processes)
    BY DEF TreeInv, TypeOK
  <2>5. SUFFICES ASSUME NEW q \in Processes
                 PROVE  Times(output', q) = Cardinality((Ended \cup {p}) \cap Subtree[q])
    BY <2>1 DEF FileHasAbove
  <2>6. Times(output', q) = Times(output, q) + (IF q \in Above(p) THEN 1 ELSE 0)
    BY <2>1, <2>3, <2>4, TimesAfter
  <2>7. Times(output, q) = Cardinality(Ended \cap Subtree[q])
    BY DEF IntoFile, FileHasAbove
  <2>8. IsFiniteSet(Ended \cap Subtree[q]) /\ Cardinality(Ended \cap Subtree[q]) \in Nat
    BY EndedAreFinite, FS_Subset, FS_CardinalityType
  <2>9. CASE q \in Above(p)
    <3>1. /\ (Ended \cup {p}) \cap Subtree[q] = (Ended \cap Subtree[q]) \cup {p}
          /\ p \notin Ended \cap Subtree[q]
      BY <2>1, <2>9 DEF Above
    <3>2. Cardinality((Ended \cap Subtree[q]) \cup {p}) = Cardinality(Ended \cap Subtree[q]) + 1
      BY <2>8, <3>1, FS_AddElement
    <3> QED
      BY <2>6, <2>7, <2>9, <3>1, <3>2
  <2>10. CASE q \notin Above(p)
    <3>1. (Ended \cup {p}) \cap Subtree[q] = Ended \cap Subtree[q]
      BY <2>10 DEF Above
    <3>2. PICK n \in Nat : n = Cardinality(Ended \cap Subtree[q])
      BY <2>8
    <3> QED
      BY <2>6, <2>7, <2>10, <3>1, <3>2
  <2> QED
    BY <2>9, <2>10
<1>2. CASE ~ Return(p)
  <2>1. output' = output
    BY <1>2, OutputSteps, PrintsIntoBuffer
  <2>2. Ended' = Ended
    <3>1. CASE Fork(p)
      <4>1. PICK c \in KidsOf(p) :
              /\ pc[p] = "forking" /\ pc[c] = "not created"
              /\ pc' = [pc EXCEPT ![p] = "waiting", ![c] = "started"]
        BY <3>1, ForkIs
      <4>2. c \in Processes
        BY KidsAreProcesses
      <4> QED
        BY <4>1, <4>2 DEF TreeInv, TypeOK, Ended
    <3> QED
      BY <1>2, <3>1, OthersStayStarted
  <2> QED
    BY <2>1, <2>2 DEF IntoFile, FileHasAbove
<1> QED
  BY <1>1, <1>2

-----------------------------------------------------------------------------
(* Nothing is printed and nobody has ended at the start (PLfork.c line 7). *)
LEMMA InitOutput == Init => OnTerminal /\ IntoFile
<1> SUFFICES ASSUME Init PROVE OnTerminal /\ IntoFile
  OBVIOUS
<1>0. Root \in Processes
  BY TreeAssumption
<1>1. \A p \in Processes : pc[p] = IF p = Root THEN "started" ELSE "not created"
  BY DEF Init
<1>2. \A p \in Processes : buffer[p] = << >>
  BY DEF Init
<1>3. born = <<Root>> /\ output = << >>
  BY DEF Init
<1>4. OnTerminal
  <2>1. born = Append(output, Root)
    BY <1>3
  <2> QED
    BY <1>0, <1>1, <1>2, <2>1 DEF OnTerminal, OutputFollows, NothingKept
<1>5. BufferHasAbove
  <2>1. Alive = {Root} /\ Above(Root) = {Root} /\ pc[Root] = "started"
    BY <1>0, <1>1, AboveRoot DEF Alive
  <2>2. IsInjective(<< >>) /\ Range(<< >>) = {}
    BY DEF IsInjective, Range
  <2> QED
    BY <1>0, <1>2, <2>1, <2>2 DEF BufferHasAbove
<1>6. FileHasAbove
  <2> SUFFICES ASSUME NEW p \in Processes
               PROVE  Times(output, p) = Cardinality(Ended \cap Subtree[p])
    BY DEF FileHasAbove
  <2>1. {i \in DOMAIN output : output[i] = p} = {}
    BY <1>3
  <2>2. Ended \cap Subtree[p] = {}
    BY <1>1 DEF Ended
  <2> QED
    BY <2>1, <2>2 DEF Times
<1> QED
  BY <1>4, <1>5, <1>6 DEF IntoFile

(* Every step keeps the output in order (all of PLfork.c).                 *)
LEMMA NextKeepsIndInv == IndInv /\ [Next]_vars => IndInv'
<1> SUFFICES ASSUME IndInv, [Next]_vars PROVE IndInv'
  OBVIOUS
<1>0. TreeInv /\ TreeInv'
  BY NextKeepsTree DEF IndInv
<1>1. ASSUME NEW p \in Processes, process(p) PROVE IndInv'
  <2>1. terminal' = terminal
    BY <1>0, <1>1, OutputSteps
  <2>2. CASE terminal
    <3>1. OnTerminal
      BY <2>2, Zenon DEF IndInv
    <3>2. OnTerminal'
      BY <1>0, <1>1, <2>2, <3>1, StepKeepsTerminal
    <3> QED
      BY <1>0, <2>1, <2>2, <3>2, Zenon DEF IndInv
  <2>3. CASE ~ terminal
    <3>1. IntoFile
      BY <2>3, Zenon DEF IndInv
    <3>2. IntoFile'
      BY <1>0, <1>1, <2>3, <3>1, StepKeepsBuffers, StepKeepsFile DEF IntoFile
    <3> QED
      BY <1>0, <2>1, <2>3, <3>2, Zenon DEF IndInv
  <2> QED
    BY <2>2, <2>3
<1>2. CASE UNCHANGED vars
  <2>1. terminal' = terminal
    BY <1>2 DEF vars
  <2>2. OnTerminal' = OnTerminal
    BY <1>2 DEF vars, OnTerminal, OutputFollows, NothingKept
  <2>3. IntoFile' = IntoFile
    BY <1>2 DEF vars, IntoFile, BufferHasAbove, FileHasAbove, Alive, Above, Times, Ended
  <2> QED
    BY <1>0, <2>1, <2>2, <2>3, Zenon DEF IndInv
<1> QED
  BY <1>1, <1>2 DEF Next

(* The tree and the output are in order in every reachable state (all of   *)
(* PLfork.c).                                                              *)
LEMMA IndInvHolds == SafeSpec => []IndInv
<1>1. Init => IndInv
  BY InitTree, InitOutput DEF IndInv
<1> QED
  BY <1>1, NextKeepsIndInv, PTL DEF SafeSpec

(* A sequence is a prefix of itself and of what it is the beginning of.    *)
LEMMA PrefixOfAppend ==
  ASSUME NEW S, NEW s \in Seq(S), NEW x \in S
  PROVE  IsPrefix(s, s) /\ IsPrefix(s, Append(s, x))
<1> DEFINE t == Append(s, x)
           n == Len(s)
<1>1. /\ t \in Seq(S) /\ Len(t) = n + 1
      /\ \A i \in 1 .. n : t[i] = s[i]
  BY AppendProperties
<1>2. n \in Nat /\ n <= n /\ n <= n + 1
  BY LenProperties
<1>3. /\ SubSeq(t, 1, n) \in Seq(S) /\ SubSeq(s, 1, n) \in Seq(S)
      /\ Len(SubSeq(t, 1, n)) = n /\ Len(SubSeq(s, 1, n)) = n
      /\ \A i \in 1 .. n : SubSeq(t, 1, n)[i] = t[i] /\ SubSeq(s, 1, n)[i] = s[i]
  OBVIOUS
<1> HIDE DEF t, n
<1>4. SubSeq(s, 1, n) = SubSeq(t, 1, n)
  BY <1>1, <1>3, SeqEqual
<1> QED
  BY <1>1, <1>2, <1>4 DEF IsPrefix, t, n

(* What IndInv says of the output on a terminal.                           *)
LEMMA TerminalOutput ==
  ASSUME TreeInv, OnTerminal
  PROVE  /\ IsPrefix(output, born)
         /\ \A p \in Processes :
              Times(output, p) = IF pc[p] \in {"not created", "started"} THEN 0 ELSE 1
<1>0. /\ output \in Seq(Processes) /\ born \in Seq(Processes)
      /\ IsInjective(born) /\ Range(born) = Created
  BY DEF TreeInv, TypeOK, BornOnce
<1>1. CASE output = born /\ \A x \in Processes : pc[x] # "started"
  <2>1. ASSUME NEW p \in Processes
        PROVE  Times(output, p) = IF pc[p] \in {"not created", "started"} THEN 0 ELSE 1
    <3>1. Times(output, p) = IF p \in Created THEN 1 ELSE 0
      BY <1>0, <1>1, TimesOnce
    <3> QED
      BY <1>1, <3>1 DEF Created
  <2>2. Root \in Processes
    BY TreeAssumption
  <2> QED
    BY <1>0, <1>1, <2>1, <2>2, PrefixOfAppend
<1>2. ASSUME NEW x \in Processes, pc[x] = "started", born = Append(output, x)
      PROVE  /\ IsPrefix(output, born)
             /\ \A p \in Processes :
                  Times(output, p) = IF pc[p] \in {"not created", "started"} THEN 0 ELSE 1
  <2>1. IsInjective(output) /\ x \notin Range(output) /\ Range(output) \cup {x} = Created
    BY <1>0, <1>2, AppendNew
  <2>2. ASSUME NEW p \in Processes
        PROVE  Times(output, p) = IF pc[p] \in {"not created", "started"} THEN 0 ELSE 1
    <3>1. Times(output, p) = IF p \in Range(output) THEN 1 ELSE 0
      BY <1>0, <2>1, TimesOnce
    <3>2. p \in Range(output) <=> pc[p] # "not created" /\ p # x
      BY <2>1 DEF Created
    <3>3. pc[p] = "started" <=> p = x
      BY <1>2, OneIsBusy
    <3> QED
      BY <3>1, <3>2, <3>3
  <2> QED
    BY <1>0, <1>2, <2>2, PrefixOfAppend
<1> QED
  BY <1>1, <1>2 DEF OnTerminal, OutputFollows

-----------------------------------------------------------------------------
(* The program counters, the counts of forks and the outputs keep their    *)
(* types, for every tree (PLfork.c).                                       *)
THEOREM TypeCorrect == SafeSpec => []TypeOK
<1>1. TreeInv => TypeOK
  BY DEF TreeInv
<1> QED
  BY <1>1, TreeHolds, PTL

(* No process ends before all its children have ended and been reaped,     *)
(* whichever forks fail (PLfork.c lines 22 and 88, for two).               *)
THEOREM NobodyIsOrphaned == SafeSpec => []NoOrphans
<1>1. TreeInv => NoOrphans
  BY DEF TreeInv, WaitsForAll, NoOrphans, Ended
<1> QED
  BY <1>1, TreeHolds, PTL

(* At most one of the processes is between two calls of fork or waitpid:   *)
(* the tree of processes runs as one (PLfork.c line 22, for P2).           *)
THEOREM OneRuns == SafeSpec => [](\A p \in Busy : \A q \in Busy : p = q)
<1>1. TreeInv => \A p \in Busy : \A q \in Busy : p = q
  BY OneIsBusy DEF Busy
<1> QED
  BY <1>1, TreeHolds, PTL

(* On a terminal the PIDs come out in the order in which the processes     *)
(* were created, for every tree (PLfork.c line 22, for one).               *)
THEOREM OutputInOrder == SafeSpec => []OutputInOrderOfCreation
<1>1. IndInv => OutputInOrderOfCreation
  BY TerminalOutput, Zenon DEF IndInv, OutputInOrderOfCreation
<1> QED
  BY <1>1, IndInvHolds, PTL

(* A PID comes out once on a terminal, and into a file once for every      *)
(* process of its subtree that has ended (PLfork.c line 7, for one).       *)
THEOREM PidsPrintedRight == SafeSpec => []PidsPrinted
<1>1. IndInv => PidsPrinted
  <2> SUFFICES ASSUME IndInv, NEW p \in Processes
               PROVE  Times(output, p)
                        = IF terminal
                          THEN IF pc[p] \in {"not created", "started"} THEN 0 ELSE 1
                          ELSE Cardinality(Ended \cap Subtree[p])
    BY Zenon DEF PidsPrinted, Times
  <2>1. CASE terminal
    <3>1. Times(output, p) = IF pc[p] \in {"not created", "started"} THEN 0 ELSE 1
      BY <2>1, TerminalOutput, Zenon DEF IndInv
    <3> QED
      BY <2>1, <3>1, Zenon
  <2>2. CASE ~ terminal
    <3>1. Times(output, p) = Cardinality(Ended \cap Subtree[p])
      BY <2>2, Zenon DEF IndInv, IntoFile, FileHasAbove
    <3> QED
      BY <2>2, <3>1, Zenon
  <2> QED
    BY <2>1, <2>2
<1> QED
  BY <1>1, IndInvHolds, PTL
=============================================================================
