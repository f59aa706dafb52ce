--------------------------- MODULE DiskScheduling ---------------------------
(***************************************************************************)
(* The six disk scheduling algorithms of Assignment_5/assignment5.c, as    *)
(* operators from the head position, the requests and the direction to     *)
(* what is printed: the tracks served, in order, and the total movement.   *)
(* main runs them one after the other on the same input.                   *)
(*                                                                         *)
(* The initial head position, which some of the algorithms print before    *)
(* the tracks, is left out of the sequences.  abs and the sums do not      *)
(* overflow: tracks are numbers below the size of a disk.                  *)
(***************************************************************************)
EXTENDS Integers, SequencesExt, FiniteSetsExt

CONSTANTS
  disk_size,  \* 300
  MAX,        \* 1000
  Files       \* the contents request.bin may have, sequences of tracks

ASSUME DiskAssumption ==
  /\ disk_size \in Nat \ {0}
  /\ MAX \in Nat \ {0}
  /\ \A f \in Files : \A i \in DOMAIN f : f[i] \in 0 .. disk_size - 1

VARIABLES
  head, direction,  \* the arguments of the program
  requests,
  printed           \* what each algorithm has printed so far

vars == <<head, direction, requests, printed>>

-----------------------------------------------------------------------------
abs(n) == IF n < 0 THEN -n ELSE n

(* A run of an algorithm: where the head is, how far it has moved, what it *)
(* has served.                                                             *)
At(h) == [head |-> h, seek_count |-> 0, sequence |-> <<>>]

Serve(run, tracks) ==
  FoldLeft(LAMBDA r, t : [head       |-> t,
                          seek_count |-> r.seek_count + abs(r.head - t),
                          sequence   |-> Append(r.sequence, t)],
           run, tracks)

(* The head moves and serves nothing.                                      *)
Jump(run, track, distance) ==
  [run EXCEPT !.head = track, !.seek_count = @ + distance]

qsort(arr) == SortSeq(arr, LAMBDA a, b : a < b)

Below(arr, h)     == SelectSeq(arr, LAMBDA r : r < h)
Above(arr, h)     == SelectSeq(arr, LAMBDA r : r > h)
AtOrAbove(arr, h) == SelectSeq(arr, LAMBDA r : r >= h)

FCFS(arr, h) == Serve(At(h), arr)

(* One round of SSTF: the first of the requests not processed that is      *)
(* nearest to the head.                                                    *)
Nearest(request, processed, h) ==
  LET rest == DOMAIN request \ processed
      least == Min({abs(h - request[j]) : j \in rest})
  IN  Min({j \in rest : abs(h - request[j]) = least})

(* Mutant: the distances are not computed afresh in each round.            *)
NearestToStart(request, h) ==
  LET Round(r, i) == LET n == Nearest(request, r.processed, h)
                     IN  [run |-> Serve(r.run, <<request[n]>>), processed |-> r.processed \cup {n}]
  IN  FoldLeft(Round, [run |-> At(h), processed |-> {}], request).run

SSTF(request, h) ==
  LET Round(r, i) == LET n == Nearest(request, r.processed, r.run.head)
                     IN  [run |-> Serve(r.run, <<request[n]>>), processed |-> r.processed \cup {n}]
  IN  FoldLeft(Round, [run |-> At(h), processed |-> {}], request).run

-----------------------------------------------------------------------------
(* The sweeps.                                                             *)

(* First down and then up, or the other way round.                         *)
Sweep(left, right, h, dir) ==
  IF dir = "LEFT" THEN Serve(Serve(At(h), Reverse(left)), right)
                  ELSE Serve(Serve(At(h), right), Reverse(left))

(* The end of the disk is served like a request, in the direction in which *)
(* the head moves first.                                                   *)
SCANLeft(arr, h, dir)  == (IF dir = "LEFT" THEN <<0>> ELSE <<>>) \o Below(arr, h)
SCANRight(arr, h, dir) == (IF dir = "RIGHT" THEN <<disk_size - 1>> ELSE <<>>) \o AtOrAbove(arr, h)

SCAN(arr, h, dir) == Sweep(qsort(SCANLeft(arr, h, dir)), qsort(SCANRight(arr, h, dir)), h, dir)

(* Mutant: the way back to the other end is not counted.                   *)
CSCANFreeReturn(arr, h, dir) ==
  LET left  == qsort(<<0>> \o Below(arr, h))
      right == qsort(<<disk_size - 1>> \o Above(arr, h))
  IN  IF dir = "RIGHT"
        THEN Serve(Jump(Serve(At(h), right), 0, 0), left)
        ELSE Serve(Jump(Serve(At(h), Reverse(left)), disk_size - 1, 0), Reverse(right))

CSCAN(arr, h, dir) ==
  LET left  == qsort(<<0>> \o Below(arr, h))
      right == qsort(<<disk_size - 1>> \o Above(arr, h))
  IN  IF dir = "RIGHT"
        THEN Serve(Jump(Serve(At(h), right), 0, disk_size - 1), left)
        ELSE Serve(Jump(Serve(At(h), Reverse(left)), disk_size - 1, disk_size - 1), Reverse(right))

(* Mutant: the requests on the way back are served in the order of the     *)
(* sweep out.                                                              *)
LOOKUnturned(arr, h, dir) ==
  LET left == qsort(Below(arr, h))  right == qsort(AtOrAbove(arr, h))
  IN  IF dir = "LEFT" THEN Serve(Serve(At(h), Reverse(left)), Reverse(right))
                      ELSE Serve(Serve(At(h), right), left)

LOOK(arr, h, dir) == Sweep(qsort(Below(arr, h)), qsort(AtOrAbove(arr, h)), h, dir)

(* Mutant: the head turns, as in LOOK, where it should jump.               *)
CLOOKTurns(arr, h, dir) ==
  LET left == qsort(Below(arr, h))  right == qsort(Above(arr, h))
  IN  IF dir = "RIGHT" THEN Serve(Serve(At(h), right), Reverse(left))
                       ELSE Serve(Serve(At(h), Reverse(left)), right)

(* The head jumps to the far end of the requests on the other side, and    *)
(* then serves that one as well, at no distance.                           *)
CLOOK(arr, h, dir) ==
  LET left  == qsort(Below(arr, h))
      right == qsort(Above(arr, h))
      JumpTo(run, track) == Jump(run, track, abs(run.head - track))
      one   == Serve(At(h), IF dir = "RIGHT" THEN right ELSE Reverse(left))
      other == IF dir = "RIGHT" THEN left ELSE Reverse(right)
  IN  IF other = <<>> THEN one ELSE Serve(JumpTo(one, other[1]), other)

-----------------------------------------------------------------------------
(* The algorithms in the order in which main runs them.                    *)
Algorithms == <<"FCFS", "SSTF", "SCAN", "C-SCAN", "LOOK", "C-LOOK">>

Output(algorithm) ==
  CASE algorithm = "FCFS"   -> FCFS(requests, head)
    [] algorithm = "SSTF"   -> SSTF(requests, head)
    [] algorithm = "SCAN"   -> SCAN(requests, head, direction)
    [] algorithm = "C-SCAN" -> CSCAN(requests, head, direction)
    [] algorithm = "LOOK"   -> LOOK(requests, head, direction)
    [] algorithm = "C-LOOK" -> CLOOK(requests, head, direction)

(* The arguments have passed main's tests, and the file has been read.     *)
Init ==
  /\ head \in 0 .. disk_size - 1
  /\ direction \in {"LEFT", "RIGHT"}
  /\ \E f \in Files : requests = SubSeq(f, 1, IF Len(f) < MAX THEN Len(f) ELSE MAX)
  /\ printed = <<>>

Next ==
  /\ Len(printed) < Len(Algorithms)
  /\ printed' = Append(printed, Output(Algorithms[Len(printed) + 1]))
  /\ UNCHANGED <<head, direction, requests>>

Spec == Init /\ [][Next]_vars

-----------------------------------------------------------------------------
Has(algorithm)    == \E i \in DOMAIN printed : Algorithms[i] = algorithm
Result(algorithm) == printed[CHOOSE i \in DOMAIN printed : Algorithms[i] = algorithm]

(* How often each track is in a sequence.                                  *)
BagOf(s) == [t \in ToSet(s) |-> Cardinality({i \in DOMAIN s : s[i] = t})]

(* The ends of the disk that an algorithm serves besides the requests.     *)
Ends(algorithm) ==
  CASE algorithm = "SCAN"   -> <<IF direction = "LEFT" THEN 0 ELSE disk_size - 1>>
    [] algorithm = "C-SCAN" -> <<0, disk_size - 1>>
    [] OTHER                -> <<>>

(* FCFS, SSTF, SCAN and LOOK serve every request as often as it was made,  *)
(* whatever the duplicates and wherever the head is (lines 36 to 190 and   *)
(* 273 to 332).                                                            *)
EveryRequestServed ==
  \A a \in {"FCFS", "SSTF", "SCAN", "LOOK"} :
    Has(a) => BagOf(Result(a).sequence) = BagOf(requests \o Ends(a))

(* How far ahead of the head a track is when the disk is taken for a       *)
(* circle.                                                                 *)
Ahead(t) == (IF direction = "RIGHT" THEN t - head ELSE head - t) % disk_size

(* C-SCAN and C-LOOK serve what is not under the head as often as it was   *)
(* asked for, on the way out and after the jump in the same direction: in  *)
(* the order in which a head that goes round in a circle would meet it     *)
(* (lines 217 to 263 and 358 to 420).                                      *)
CircularOrder ==
  \A a \in {"C-SCAN", "C-LOOK"} :
    Has(a) =>
      LET Away(s) == SelectSeq(s, LAMBDA t : t # head)
          s == Away(Result(a).sequence)
      IN  /\ BagOf(s) = BagOf(Away(requests \o Ends(a)))
          /\ \A i, j \in DOMAIN s : i < j => Ahead(s[i]) <= Ahead(s[j])

(* C-SCAN and C-LOOK serve every request, as the expected output has them  *)
(* do with the sample file: with the head at 100, the request for 100 is   *)
(* one of the 20 tracks in their lists, and so in the others' (lines 25    *)
(* and 37 of outputLeft.txt; the code is lines 209 to 215 and 350 to 356). *)
CircularSweepsServeAll ==
  \A a \in {"C-SCAN", "C-LOOK"} :
    Has(a) => ToSet(requests) \subseteq ToSet(Result(a).sequence)

(* Every choice of SSTF is nearest to the one before among all requests    *)
(* still to be served: "Always choose the next request with the shortest   *)
(* distance from the current head position" (line 54).                     *)
SSTFChoosesNearest ==
  Has("SSTF") =>
    LET s == <<head>> \o Result("SSTF").sequence
    IN  \A i \in 2 .. Len(s) : \A j \in i .. Len(s) :
          abs(s[i - 1] - s[i]) <= abs(s[i - 1] - s[j])

(* The total movement of a sweep, from the outermost requests alone.       *)
Lowest  == Min(ToSet(requests) \cup {head})
Highest == Max(ToSet(requests) \cup {head})

(* There and, when something is left behind the head, back.                *)
Turning(first, last, back) ==
  abs(head - first) + (IF back THEN abs(first - last) ELSE 0)

SweepTotal(algorithm) ==
  LET down   == direction = "LEFT"
      below  == {r \in ToSet(requests) : r < head}
      above  == {r \in ToSet(requests) : r > head}
      behind == IF down THEN above ELSE below
      end    == IF down THEN 0 ELSE disk_size - 1
      edge   == IF down THEN Lowest ELSE Highest
      far    == IF down THEN Highest ELSE Lowest
      near   == IF down THEN Min(above) ELSE Max(below)
      met    == IF down THEN head \in ToSet(requests) ELSE FALSE
  IN  CASE algorithm = "SCAN"   -> Turning(end, far, behind # {} \/ met)
        [] algorithm = "LOOK"   -> Turning(edge, far, behind # {} \/ met)
        [] algorithm = "C-SCAN" -> abs(head - end) + (disk_size - 1)
                                   + (IF behind = {} THEN 0 ELSE abs(disk_size - 1 - end - near))
        [] algorithm = "C-LOOK" -> abs(head - edge)
                                   + (IF behind = {} THEN 0 ELSE abs(edge - far) + abs(far - near))

(* The movement each of the sweeps adds up, jumps included, is that of its *)
(* turning points (lines 146 to 182, 222 to 265, 294 to 324, 363 to 420).  *)
TotalsAreOfTurningPoints ==
  \A a \in {"SCAN", "C-SCAN", "LOOK", "C-LOOK"} :
    Has(a) => Result(a).seek_count = SweepTotal(a)

(* In one of the two directions LOOK moves the head as little as any order *)
(* of the requests can, and in neither more than SCAN.                     *)
LOOKIsShortest ==
  Has("LOOK") =>
    /\ Result("LOOK").seek_count <= Result("SCAN").seek_count
    /\ \A p \in Permutations(DOMAIN requests) :
         \E d \in {direction, IF direction = "LEFT" THEN "RIGHT" ELSE "LEFT"} :
           LOOK(requests, head, d).seek_count
             <= FCFS([i \in DOMAIN requests |-> requests[p[i]]], head).seek_count
=============================================================================
