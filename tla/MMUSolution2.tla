---------------------------- MODULE MMUSolution2 ----------------------------
(***************************************************************************)
(* The virtual memory simulator of Assignment_4/solution2/assignment4.c.   *)
(* One ring of frames serves both the first use and the replacement of a   *)
(* frame, and replacing a page leaves the TLB entry of the page that goes  *)
(* in place: update_TLB looks for the page that comes.                     *)
(*                                                                         *)
(* A line stands for its number over 256, the eight offset bits left out.  *)
(***************************************************************************)
EXTENDS Integers, FiniteSetsExt

CONSTANTS
  PAGES,        \* pages of the logical address space (256)
  FRAME_COUNT,  \* frames of physical memory (128)
  TLB_SIZE,     \* entries of the TLB (16)
  Lines,        \* the numbers a line of addresses.txt may hold, over 256
  NUM_LINES     \* how many lines addresses.txt has

ASSUME SizeAssumption ==
  /\ PAGES \in Nat \ {0}
  /\ FRAME_COUNT \in Nat \ {0}
  /\ TLB_SIZE \in Nat \ {0}
  /\ Lines \subseteq Int
  /\ NUM_LINES \in Nat

VARIABLES
  page_table,          \* the frame of each page, or None
  frame_page,          \* the page in each frame, or None
  physical_memory,     \* the page whose bytes each frame holds, or None
  current_frame_index, \* the frame to fill next
  TLB,                 \* the entries
  TLBindex,            \* the entry to fill next
  TLBcount,            \* how many entries are in use
  total_addresses, TLB_hits, page_faults,
  lines_read,          \* the position in addresses.txt
  out                  \* the last line printed: page asked, frame, page of the byte

paging == <<page_table, frame_page, physical_memory, current_frame_index>>
tlb    == <<TLB, TLBindex, TLBcount>>
stats  == <<total_addresses, TLB_hits, page_faults>>
vars   == <<paging, tlb, stats, lines_read, out>>

None   == -1
Pages  == 0 .. PAGES - 1
Frames == 0 .. FRAME_COUNT - 1
Slots  == 0 .. TLB_SIZE - 1
Entry(p, f) == [page_number |-> p, frame_number |-> f]
Nothing     == [page |-> None, frame |-> None, byte |-> None]

(* The address is an unsigned int of 32 bits, eight of them the offset.    *)
PageNumber(line) == line % (2 ^ 24)

SlotsOf(p) == {i \in Slots : TLB[i].page_number = p}

(* Mutant: the search begins at entry 1.                                   *)
SearchFromOne(p) ==
  IF SlotsOf(p) \ {0} = {} THEN None ELSE TLB[Min(SlotsOf(p) \ {0})].frame_number

search_TLB(p) == IF SlotsOf(p) = {} THEN None ELSE TLB[Min(SlotsOf(p))].frame_number

(* The entries once the first one of page p has been given frame f.        *)
update_TLB(p, f) ==
  IF SlotsOf(p) = {} THEN TLB
  ELSE [TLB EXCEPT ![Min(SlotsOf(p))].frame_number = f]

(* add_TLB on the entries t, which update_TLB may have changed.            *)
add_TLB(t, p, f) ==
  /\ TLB' = [t EXCEPT ![TLBindex] = Entry(p, f)]
  /\ TLBindex' = (TLBindex + 1) % TLB_SIZE
  /\ TLBcount' = IF TLBcount < TLB_SIZE THEN TLBcount + 1 ELSE TLBcount

(* Mutant: the old page is not invalidated.                                *)
RemapWithoutInvalidation(p, f) == [page_table EXCEPT ![p] = f]

(* The table once the page in frame f, if any, has made room for p.        *)
Remap(p, f) ==
  [q \in Pages |-> IF q = p THEN f
                   ELSE IF q = frame_page[f] THEN None ELSE page_table[q]]

replace_page(p) ==
  /\ page_table' = Remap(p, current_frame_index)
  /\ frame_page' = [frame_page EXCEPT ![current_frame_index] = p]
  /\ physical_memory' = [physical_memory EXCEPT ![current_frame_index] = p]
  /\ current_frame_index' = (current_frame_index + 1) % FRAME_COUNT

-----------------------------------------------------------------------------
Init ==
  /\ page_table = [p \in Pages |-> None]
  /\ frame_page = [f \in Frames |-> None]
  /\ physical_memory = [f \in Frames |-> None]
  /\ current_frame_index = 0
  /\ TLB = [i \in Slots |-> Entry(None, None)]
  /\ TLBindex = 0
  /\ TLBcount = 0
  /\ total_addresses = 0
  /\ TLB_hits = 0
  /\ page_faults = 0
  /\ lines_read = 0
  /\ out = Nothing

(* The address is outside the logical address space: the line is skipped.  *)
SkipInvalid(p) ==
  /\ p >= PAGES
  /\ UNCHANGED <<paging, tlb, stats, out>>

(* What every translation of p ends with, f being the frame it found.      *)
Answer(p, f) ==
  /\ total_addresses' = total_addresses + 1
  /\ out' = [page |-> p, frame |-> f, byte |-> physical_memory'[f]]

TLBHit(p) ==
  /\ p < PAGES
  /\ search_TLB(p) # None
  /\ TLB_hits' = TLB_hits + 1
  /\ UNCHANGED <<paging, tlb, page_faults>>
  /\ Answer(p, search_TLB(p))

PageTableHit(p) ==
  /\ p < PAGES
  /\ search_TLB(p) = None
  /\ page_table[p] # None
  /\ add_TLB(TLB, p, page_table[p])
  /\ UNCHANGED <<paging, TLB_hits, page_faults>>
  /\ Answer(p, page_table[p])

(* Mutant: the TLB is given the index of the frame after it was advanced.  *)
PageFaultCachesNextFrame(p) ==
  /\ p < PAGES
  /\ search_TLB(p) = None
  /\ page_table[p] = None
  /\ replace_page(p)
  /\ add_TLB(TLB, p, current_frame_index')
  /\ page_faults' = page_faults + 1
  /\ UNCHANGED TLB_hits
  /\ Answer(p, current_frame_index)

PageFault(p) ==
  /\ p < PAGES
  /\ search_TLB(p) = None
  /\ page_table[p] = None
  /\ replace_page(p)
  /\ add_TLB(update_TLB(p, current_frame_index), p, current_frame_index)
  /\ page_faults' = page_faults + 1
  /\ UNCHANGED TLB_hits
  /\ Answer(p, current_frame_index)

Translate(p) ==
  \/ SkipInvalid(p)
  \/ TLBHit(p)
  \/ PageTableHit(p)
  \/ PageFault(p)

Next ==
  /\ lines_read < NUM_LINES
  /\ lines_read' = lines_read + 1
  /\ \E line \in Lines : Translate(PageNumber(line))

Spec == Init /\ [][Next]_vars

-----------------------------------------------------------------------------
(* The types, with the ranges of the two ring indices and the counters.    *)
TypeOK ==
  /\ page_table \in [Pages -> Frames \cup {None}]
  /\ frame_page \in [Frames -> Pages \cup {None}]
  /\ physical_memory \in [Frames -> Pages \cup {None}]
  /\ current_frame_index \in Frames
  /\ TLB \in [Slots -> [page_number : Pages \cup {None},
                        frame_number : Frames \cup {None}]]
  /\ TLBindex \in Slots
  /\ TLBcount \in 0 .. TLB_SIZE
  /\ total_addresses \in Nat
  /\ TLB_hits \in Nat
  /\ page_faults \in Nat
  /\ lines_read \in Nat
  /\ out \in [page : Pages \cup {None}, frame : Frames \cup {None},
              byte : Pages \cup {None}]

TablesAreInverse ==
  /\ \A p \in Pages : page_table[p] # None => frame_page[page_table[p]] = p
  /\ \A f \in Frames : frame_page[f] # None => page_table[frame_page[f]] = f

(* The page table, its inverse and the memory, written by separate         *)
(* assignments of replace_page, agree after any number of replacements,    *)
(* and the ring leaves no frame empty behind it.                           *)
PagingConsistent ==
  /\ TablesAreInverse
  /\ physical_memory = frame_page
  /\ \A f \in Frames : frame_page[f] = None
                         <=> page_faults <= f /\ current_frame_index <= f

(* An entry is added only after a search has failed, so no page is in the  *)
(* TLB twice and the first match of a search is the only one; the entries  *)
(* in use are those TLBcount counts.                                       *)
TLBUnique ==
  /\ \A i, j \in Slots :
       TLB[i].page_number # None /\ TLB[i].page_number = TLB[j].page_number => i = j
  /\ \A i \in Slots : TLB[i].page_number # None <=> i < TLBcount

(* The cached frame of a page that is in memory is its frame, even after   *)
(* the page left and came back: an entry can only be stale for a page that *)
(* is not resident.                                                        *)
ResidentPagesCachedRight ==
  \A i \in Slots :
    LET p == TLB[i].page_number IN
      p # None /\ page_table[p] # None => page_table[p] = TLB[i].frame_number

(* A wrong byte is only ever printed for a page that is not in memory, and *)
(* never before the first replacement.                                     *)
WrongOnlyWhenEvicted ==
  out.byte # out.page => page_table[out.page] = None /\ page_faults > FRAME_COUNT

(* The claim of documentation.md about update_TLB: the TLB never answers   *)
(* with the frame of a page that has been overwritten.                     *)
NoFaultyHit == out.byte = out.page
=============================================================================
