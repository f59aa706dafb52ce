---------------------------- MODULE DemandPaging ----------------------------
(***************************************************************************)
(* What a user of the memory simulator of Assignment 4 is promised, with   *)
(* no TLB, page table or frame in sight: an access to page p answers with  *)
(* a byte of page p, and it faults exactly when p is not one of the at     *)
(* most NumFrames pages in memory, of which the one loaded longest ago     *)
(* makes room.                                                             *)
(***************************************************************************)
EXTENDS Naturals, Sequences

CONSTANTS
  Pages,      \* the pages of the logical address space
  NumFrames,  \* how many of them fit in memory
  NoPage      \* the answer before the first access

VARIABLES
  resident,   \* the pages in memory, the one loaded longest ago first
  accesses,   \* addresses translated so far
  faults,     \* page faults so far
  answer      \* the page the byte last read belongs to

vars == <<resident, accesses, faults, answer>>

IsResident(p) == \E k \in 1..Len(resident) : resident[k] = p

Init ==
  /\ resident = <<>>
  /\ accesses = 0
  /\ faults = 0
  /\ answer = NoPage

(* The page is in memory. *)
Hit(p) ==
  /\ IsResident(p)
  /\ UNCHANGED <<resident, faults>>

(* The page is not, and there is a frame that was never used. *)
Load(p) ==
  /\ ~IsResident(p)
  /\ Len(resident) < NumFrames
  /\ resident' = Append(resident, p)
  /\ faults' = faults + 1

(* The page is not, and the oldest page leaves. *)
Replace(p) ==
  /\ ~IsResident(p)
  /\ Len(resident) = NumFrames
  /\ resident' = Append(Tail(resident), p)
  /\ faults' = faults + 1

Access(p) ==
  /\ Hit(p) \/ Load(p) \/ Replace(p)
  /\ accesses' = accesses + 1
  /\ answer' = p

Next == \E p \in Pages : Access(p)

Spec == Init /\ [][Next]_vars
=============================================================================
