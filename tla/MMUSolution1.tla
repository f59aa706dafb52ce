---------------------------- MODULE MMUSolution1 ----------------------------
(***************************************************************************)
(* The virtual memory simulator of Assignment_4/solution/Assignment4.c: a  *)
(* FIFO TLB in front of a page table in front of FIFO page replacement.    *)
(*                                                                         *)
(* A line of addresses.txt stands for the part of its number above the     *)
(* eight offset bits; the offset chooses a byte of the page and nothing    *)
(* else, so a frame stands for the page its bytes were copied from.        *)
(***************************************************************************)
EXTENDS Integers, FiniteSetsExt

CONSTANTS
  PAGE_TABLE_SIZE, \* pages of the logical address space (256)
  NUM_FRAMES,      \* frames of physical memory (128)
  TLB_SIZE,        \* entries of the TLB (16)
  Lines,           \* the numbers a line of addresses.txt may hold, over 256
  NUM_LINES        \* how many lines addresses.txt has

(* The last conjunct, which the sizes in the code satisfy with room to     *)
(* spare, is what the TLB update relies on: see DuplicateIsRecent.         *)
ASSUME SizeAssumption ==
  /\ PAGE_TABLE_SIZE \in Nat \ {0}
  /\ NUM_FRAMES \in Nat \ {0}
  /\ TLB_SIZE \in Nat \ {0}
  /\ Lines \subseteq Int
  /\ NUM_LINES \in Nat
  /\ TLB_SIZE < NUM_FRAMES

VARIABLES
  page_table,      \* the frame of each page, or None
  page_order,      \* the page in each frame, or None
  physical_memory, \* the page whose bytes each frame holds, or None
  next_frame,      \* the next frame that was never used
  frame_index,     \* the frame to replace next
  TLB,             \* the entries
  TLB_index,       \* the entry to replace next
  page_faults, TLB_hits, total_addresses,
  out              \* the last line printed: page asked, frame, page of the byte

paging == <<page_table, page_order, physical_memory, next_frame, frame_index>>
tlb    == <<TLB, TLB_index>>
vars   == <<paging, tlb, page_faults, TLB_hits, total_addresses, out>>

None   == -1
Pages  == 0 .. PAGE_TABLE_SIZE - 1
Frames == 0 .. NUM_FRAMES - 1
Slots  == 0 .. TLB_SIZE - 1
Entry(p, f) == [page_number |-> p, frame_number |-> f]
Nothing     == [page |-> None, frame |-> None, byte |-> None]

(* The cast to uint16_t drops what the logical address space cannot hold.  *)
PageNumber(line) == line % PAGE_TABLE_SIZE

SlotsOf(p) == {i \in Slots : TLB[i].page_number = p}

(* Mutant: the search begins at entry 1.                                   *)
SearchFromOne(p) ==
  IF SlotsOf(p) \ {0} = {} THEN None ELSE TLB[Min(SlotsOf(p) \ {0})].frame_number

search_TLB(p) == IF SlotsOf(p) = {} THEN None ELSE TLB[Min(SlotsOf(p))].frame_number

(* Mutant: the index does not wrap.                                        *)
AddToWithoutWrap(t, p, f) ==
  /\ TLB' = [t EXCEPT ![TLB_index] = Entry(p, f)]
  /\ TLB_index' = TLB_index + 1

(* TLB_Add on the entries t, which TLB_Update has already changed.         *)
AddTo(t, p, f) ==
  /\ TLB' = [t EXCEPT ![TLB_index] = Entry(p, f)]
  /\ TLB_index' = (TLB_index + 1) % TLB_SIZE

TLB_Add(p, f) == AddTo(TLB, p, f)

(* Mutant: the entry of the replaced page stays.                           *)
UpdateWithoutOverwrite(replaced, p, f) == AddTo(TLB, p, f)

(* The first entry of the replaced page is overwritten, and the new page   *)
(* is also added at TLB_index: it may end up in the TLB twice.             *)
TLB_Update(replaced, p, f) ==
  IF SlotsOf(replaced) = {}
  THEN AddTo(TLB, p, f)
  ELSE AddTo([TLB EXCEPT ![Min(SlotsOf(replaced))] = Entry(p, f)], p, f)

-----------------------------------------------------------------------------
Init ==
  /\ page_table = [p \in Pages |-> None]
  /\ page_order = [f \in Frames |-> None]
  /\ physical_memory = [f \in Frames |-> None]
  /\ next_frame = 0
  /\ frame_index = 0
  /\ TLB = [i \in Slots |-> Entry(None, None)]
  /\ TLB_index = 0
  /\ page_faults = 0
  /\ TLB_hits = 0
  /\ total_addresses = 0
  /\ out = Nothing

(* What every translation of p ends with, f being the frame it found.      *)
Answer(p, f) ==
  /\ total_addresses' = total_addresses + 1
  /\ out' = [page |-> p, frame |-> f, byte |-> physical_memory'[f]]

TLBHit(p) ==
  /\ search_TLB(p) # None
  /\ TLB_hits' = TLB_hits + 1
  /\ UNCHANGED <<paging, tlb, page_faults>>
  /\ Answer(p, search_TLB(p))

(* Mutant: a TLB miss is counted as a page fault.                          *)
PageTableHitCountedAsFault(p) ==
  /\ search_TLB(p) = None
  /\ page_table[p] # None
  /\ TLB_Add(p, page_table[p])
  /\ page_faults' = page_faults + 1
  /\ UNCHANGED <<paging, TLB_hits>>
  /\ Answer(p, page_table[p])

PageTableHit(p) ==
  /\ search_TLB(p) = None
  /\ page_table[p] # None
  /\ TLB_Add(p, page_table[p])
  /\ UNCHANGED <<paging, page_faults, TLB_hits>>
  /\ Answer(p, page_table[p])

(* Mutant: the page is copied to the frame after, as when next_frame has   *)
(* already been advanced.                                                  *)
FaultIntoNextFrame(p, f) ==
  /\ search_TLB(p) = None
  /\ page_table[p] = None
  /\ page_faults' = page_faults + 1
  /\ physical_memory' = [physical_memory EXCEPT ![(f + 1) % NUM_FRAMES] = p]
  /\ page_order' = [page_order EXCEPT ![f] = p]
  /\ UNCHANGED TLB_hits
  /\ Answer(p, f)

(* The part of a page fault common to a free and a replaced frame.         *)
Fault(p, f) ==
  /\ search_TLB(p) = None
  /\ page_table[p] = None
  /\ page_faults' = page_faults + 1
  /\ physical_memory' = [physical_memory EXCEPT ![f] = p]
  /\ page_order' = [page_order EXCEPT ![f] = p]
  /\ UNCHANGED TLB_hits
  /\ Answer(p, f)

LoadIntoFreeFrame(p) ==
  /\ next_frame < NUM_FRAMES
  /\ Fault(p, next_frame)
  /\ page_table' = [page_table EXCEPT ![p] = next_frame]
  /\ TLB_Add(p, next_frame)
  /\ next_frame' = next_frame + 1
  /\ UNCHANGED frame_index

(* Mutant: the replaced page stays in the page table.                      *)
ReplaceWithoutUnmapping(p) ==
  /\ next_frame = NUM_FRAMES
  /\ Fault(p, frame_index)
  /\ page_table' = [page_table EXCEPT ![p] = frame_index]
  /\ TLB_Update(page_order[frame_index], p, frame_index)
  /\ frame_index' = (frame_index + 1) % NUM_FRAMES
  /\ UNCHANGED next_frame

ReplaceOldest(p) ==
  /\ next_frame = NUM_FRAMES
  /\ Fault(p, frame_index)
  /\ page_table' = [page_table EXCEPT ![page_order[frame_index]] = None,
                                      ![p] = frame_index]
  /\ TLB_Update(page_order[frame_index], p, frame_index)
  /\ frame_index' = (frame_index + 1) % NUM_FRAMES
  /\ UNCHANGED next_frame

Translate(p) ==
  \/ TLBHit(p)
  \/ PageTableHit(p)
  \/ LoadIntoFreeFrame(p)
  \/ ReplaceOldest(p)

(* The loop over the file; at its end the program prints and returns.      *)
Next ==
  /\ total_addresses < NUM_LINES
  /\ \E line \in Lines : Translate(PageNumber(line))

Spec == Init /\ [][Next]_vars

-----------------------------------------------------------------------------
(* The types, with the ranges of the two ring indices and the counters.    *)
TypeOK ==
  /\ page_table \in [Pages -> Frames \cup {None}]
  /\ page_order \in [Frames -> Pages \cup {None}]
  /\ physical_memory \in [Frames -> Pages \cup {None}]
  /\ next_frame \in 0 .. NUM_FRAMES
  /\ frame_index \in Frames
  /\ TLB \in [Slots -> [page_number : Pages \cup {None},
                        frame_number : Frames \cup {None}]]
  /\ TLB_index \in Slots
  /\ page_faults \in Nat
  /\ TLB_hits \in Nat
  /\ total_addresses \in Nat
  /\ out \in [page : Pages \cup {None}, frame : Frames \cup {None},
              byte : Pages \cup {None}]

(* Faults fill the frames from 0 up, and nothing is replaced before all    *)
(* are full.                                                               *)
FramesFillInOrder ==
  /\ next_frame < NUM_FRAMES => frame_index = 0
  /\ \A f \in Frames : page_order[f] # None <=> f < next_frame

TablesAreInverse ==
  /\ \A p \in Pages : page_table[p] # None => page_order[page_table[p]] = p
  /\ \A f \in Frames : page_order[f] # None => page_table[page_order[f]] = f

(* A fault updates page_table, page_order and physical_memory in separate  *)
(* assignments; over any number of faults they tell one story: the frames  *)
(* in use are the first next_frame ones, the two tables are inverse to     *)
(* each other (no page has two frames, no frame is lost, a replaced page   *)
(* is mapped no more) and a frame holds the bytes of the page they say.    *)
PagingConsistent ==
  /\ FramesFillInOrder
  /\ TablesAreInverse
  /\ physical_memory = page_order

(* No TLB entry, a duplicate included, outlives the mapping it caches: the *)
(* overwriting in TLB_Update, which stops at the first match, leaves no    *)
(* stale entry behind.                                                     *)
TLBCoherent ==
  \A i \in Slots : TLB[i].page_number # None =>
    /\ TLB[i].frame_number # None
    /\ page_table[TLB[i].page_number] = TLB[i].frame_number

(* How many faults ago frame f was filled and how many additions ago entry *)
(* i was the one at TLB_index.                                             *)
FrameAge(f) == (IF f < frame_index THEN 0 ELSE next_frame) + frame_index - 1 - f
SlotAge(i)  == (IF i < TLB_index THEN 0 ELSE TLB_SIZE) + TLB_index - 1 - i

(* TLB_Update followed by TLB_Add may leave a page in the TLB twice.  Such *)
(* a page was loaded after TLB_index last passed either of its entries, so *)
(* as TLB_SIZE < NUM_FRAMES one of them is gone before the frame is        *)
(* replaced: this is what makes it safe for TLB_Update to stop at the      *)
(* first match.                                                            *)
DuplicateIsRecent ==
  \A i, j \in Slots :
    (i # j /\ TLB[i].page_number # None /\ TLB[i].page_number = TLB[j].page_number)
      => FrameAge(TLB[i].frame_number) <= SlotAge(i)

(* The value printed is a byte of the page asked for.                      *)
AnswersWithRightPage == out.byte = out.page

(* The pages in memory, the one loaded longest ago first.                  *)
Resident == [k \in 1 .. next_frame |-> page_order[(frame_index + k - 1) % NUM_FRAMES]]

Paging == INSTANCE DemandPaging
            WITH NumFrames <- NUM_FRAMES, NoPage <- None,
                 resident <- Resident, accesses <- total_addresses,
                 faults <- page_faults, answer <- out.byte

(* The TLB and the tables are invisible: every translation is an access of *)
(* FIFO demand paging, with the fault and the byte that it prescribes.     *)
ImplementsDemandPaging == Paging!Spec
=============================================================================
