------------------------- MODULE MMUSolution2Proofs -------------------------
(***************************************************************************)
(* For every size of the memory, the page table and the TLB and for every  *)
(* list of addresses: what MMUSolution2 keeps although it never removes    *)
(* the TLB entry of a page it replaces.  Its tables stay consistent, no    *)
(* page is in the TLB twice, and the TLB is wrong only about pages that    *)
(* are not in memory.                                                      *)
(*                                                                         *)
(* That a wrong byte takes a replacement is not inductive: the byte is     *)
(* read through a TLB entry that may be much older than the fault that     *)
(* made it stale.  EntriesWereLoaded carries the fact along with every     *)
(* entry, and RingsCount ties the two indices to the counters from which   *)
(* the code knows that its rings have come round.                          *)
(***************************************************************************)
EXTENDS MMUSolution2, RingLemmas

(* Until a ring has come round its index is the number of places filled.   *)
RingsCount ==
  /\ page_faults < FRAME_COUNT => current_frame_index = page_faults
  /\ TLBcount < TLB_SIZE => TLBindex = TLBcount

(* The frame of an entry has been filled, and the page of an entry is in   *)
(* memory unless the frames have come round.                               *)
EntriesWereLoaded ==
  \A i \in Slots : TLB[i].page_number # None =>
    /\ TLB[i].frame_number # None
    /\ frame_page[TLB[i].frame_number] # None
    /\ page_table[TLB[i].page_number] = None => page_faults > FRAME_COUNT

IndInv ==
  /\ TypeOK
  /\ RingsCount
  /\ PagingConsistent
  /\ TLBUnique
  /\ ResidentPagesCachedRight
  /\ EntriesWereLoaded
  /\ WrongOnlyWhenEvicted

(* A page the search answers for has an entry with that frame; a page it   *)
(* does not answer for is in no entry.                                     *)
LEMMA SearchIsOfEntry ==
  ASSUME EntriesWereLoaded, NEW p \in Pages
  PROVE  /\ search_TLB(p) = None => SlotsOf(p) = {}
         /\ search_TLB(p) # None =>
              \E i \in Slots : TLB[i].page_number = p /\ TLB[i].frame_number = search_TLB(p)
<1>1. p # None
  BY SizeAssumption DEF Pages, None
<1>2. CASE SlotsOf(p) = {}
  BY <1>2 DEF search_TLB
<1>3. CASE SlotsOf(p) # {}
  <2>1. SlotsOf(p) \in SUBSET Nat
    BY SizeAssumption DEF SlotsOf, Slots
  <2>2. Min(SlotsOf(p)) \in SlotsOf(p)
    BY <1>3, <2>1, MinIsFirst
  <2>3. Min(SlotsOf(p)) \in Slots /\ TLB[Min(SlotsOf(p))].page_number = p
    BY <2>2 DEF SlotsOf
  <2>4. search_TLB(p) = TLB[Min(SlotsOf(p))].frame_number
    BY <1>3 DEF search_TLB
  <2> QED
    BY <1>1, <2>3, <2>4 DEF EntriesWereLoaded
<1> QED
  BY <1>2, <1>3

(* A line below the bound asks for a page of the page table.               *)
LEMMA PageNumberType ==
  ASSUME NEW line \in Lines, PageNumber(line) < PAGES
  PROVE  PageNumber(line) \in Pages
<1>1. line \in Int /\ PAGES \in Nat
  BY SizeAssumption
<1>2. 2 ^ 24 = 16777216
  BY Z3
<1>3. PageNumber(line) \in Nat
  BY <1>1, <1>2 DEF PageNumber
<1> QED
  BY <1>1, <1>3 DEF Pages

-----------------------------------------------------------------------------
LEMMA InitEstablishesIndInv == Init => IndInv
<1> SUFFICES ASSUME Init PROVE IndInv
  OBVIOUS
<1>1. TypeOK
  BY SizeAssumption DEF Init, TypeOK, Entry, Nothing, Slots, Frames
<1>2. RingsCount
  BY SizeAssumption DEF Init, RingsCount
<1>3. PagingConsistent
  BY SizeAssumption DEF Init, PagingConsistent, TablesAreInverse, Frames, None
<1>4. TLBUnique
  BY SizeAssumption DEF Init, TLBUnique, Entry, Slots
<1>5. ResidentPagesCachedRight /\ EntriesWereLoaded
  BY DEF Init, ResidentPagesCachedRight, EntriesWereLoaded, Entry
<1>6. WrongOnlyWhenEvicted
  BY DEF Init, WrongOnlyWhenEvicted, Nothing
<1> QED
  BY <1>1, <1>2, <1>3, <1>4, <1>5, <1>6 DEF IndInv

(* add_TLB of a page that is in no entry keeps the TLB free of duplicates, *)
(* its entries in use the first TLBcount ones, and its other entries as    *)
(* the ones of t, the entries it is given.                                 *)
LEMMA AddKeepsTLBUnique ==
  ASSUME TypeOK, RingsCount, TLBUnique, NEW p \in Pages, NEW f \in Frames,
         SlotsOf(p) = {}, add_TLB(TLB, p, f)
  PROVE  /\ TLB' \in [Slots -> [page_number : Pages \cup {None},
                                frame_number : Frames \cup {None}]]
         /\ TLBindex' \in Slots
         /\ TLBcount' \in 0 .. TLB_SIZE
         /\ TLBcount' < TLB_SIZE => TLBindex' = TLBcount'
         /\ TLBUnique'
         /\ \A i \in Slots : \/ TLB'[i] = Entry(p, f)
                             \/ TLB'[i] = TLB[i] /\ TLB[i].page_number # p
<1>1. /\ TLB' = [TLB EXCEPT ![TLBindex] = Entry(p, f)]
      /\ TLBindex' = IF TLBindex + 1 = TLB_SIZE THEN 0 ELSE TLBindex + 1
      /\ TLBcount' = IF TLBcount < TLB_SIZE THEN TLBcount + 1 ELSE TLBcount
  BY NextIndex, SizeAssumption DEF add_TLB, TypeOK, Slots
<1>2. /\ TLB_SIZE \in Nat \ {0} /\ TLBindex \in 0 .. TLB_SIZE - 1
      /\ TLBcount \in 0 .. TLB_SIZE
      /\ TLBcount < TLB_SIZE => TLBindex = TLBcount
  BY SizeAssumption DEF TypeOK, RingsCount, Slots
<1>3. /\ TLBindex' \in 0 .. TLB_SIZE - 1
      /\ TLBcount' \in 0 .. TLB_SIZE
      /\ TLBcount' < TLB_SIZE => TLBindex' = TLBcount'
      /\ \A i \in 0 .. TLB_SIZE - 1 : i < TLBcount' <=> i < TLBcount \/ i = TLBindex
  BY <1>1, <1>2
<1>4. TLB' \in [Slots -> [page_number : Pages \cup {None},
                          frame_number : Frames \cup {None}]]
  BY <1>1 DEF TypeOK, Entry
<1>5. \A i \in Slots : TLB'[i] = IF i = TLBindex THEN Entry(p, f) ELSE TLB[i]
  BY <1>1 DEF TypeOK
<1>6. p # None
  BY SizeAssumption DEF Pages, None
<1>7. \A i \in Slots : TLB[i].page_number # p
  BY DEF SlotsOf
<1>8. \A i, j \in Slots :
        TLB'[i].page_number # None /\ TLB'[i].page_number = TLB'[j].page_number => i = j
  BY <1>5, <1>7 DEF TLBUnique, Entry
<1>9. \A i \in Slots : TLB'[i].page_number # None <=> i < TLBcount'
  BY <1>3, <1>5, <1>6 DEF TLBUnique, Entry, Slots
<1>10. TLBUnique'
  BY <1>8, <1>9 DEF TLBUnique
<1> QED
  BY <1>3, <1>4, <1>5, <1>7, <1>10 DEF Slots

-----------------------------------------------------------------------------
(* Reading through an entry: the frame holds the page, or the page is not  *)
(* in memory any more.                                                     *)
LEMMA TLBHitKeepsIndInv ==
  ASSUME IndInv, NEW p \in Pages, TLBHit(p), lines_read' = lines_read + 1
  PROVE  IndInv'
<1>1. PICK i \in Slots : TLB[i].page_number = p /\ TLB[i].frame_number = search_TLB(p)
  BY SearchIsOfEntry DEF IndInv, TLBHit
<1> DEFINE f == search_TLB(p)
<1>2. p # None
  BY SizeAssumption DEF Pages, None
<1>3. f \in Frames /\ physical_memory[f] \in Pages
  BY <1>1, <1>2 DEF IndInv, TypeOK, EntriesWereLoaded, PagingConsistent
<1>4. /\ UNCHANGED <<paging, tlb, page_faults>>
      /\ TLB_hits' = TLB_hits + 1
      /\ total_addresses' = total_addresses + 1
      /\ out' = [page |-> p, frame |-> f, byte |-> physical_memory[f]]
  BY DEF TLBHit, Answer, paging
<1>5. page_table[p] # None => physical_memory[f] = p
  BY <1>1, <1>2
     DEF IndInv, ResidentPagesCachedRight, PagingConsistent, TablesAreInverse
<1>6. page_table[p] = None => page_faults > FRAME_COUNT
  BY <1>1, <1>2 DEF IndInv, EntriesWereLoaded
<1> HIDE DEF f
<1>7. WrongOnlyWhenEvicted'
  BY <1>4, <1>5, <1>6 DEF WrongOnlyWhenEvicted, paging
<1>8. TypeOK'
  BY <1>3, <1>4 DEF IndInv, TypeOK, paging, tlb
<1>9. RingsCount' /\ TLBUnique'
  BY <1>4 DEF IndInv, RingsCount, TLBUnique, paging, tlb
<1>10. PagingConsistent'
  BY <1>4 DEF IndInv, PagingConsistent, TablesAreInverse, paging
<1>11. ResidentPagesCachedRight' /\ EntriesWereLoaded'
  BY <1>4 DEF IndInv, ResidentPagesCachedRight, EntriesWereLoaded, paging, tlb
<1> QED
  BY <1>7, <1>8, <1>9, <1>10, <1>11 DEF IndInv

(* A hit of the page table caches what the page table says.                *)
LEMMA PageTableHitKeepsIndInv ==
  ASSUME IndInv, NEW p \in Pages, PageTableHit(p), lines_read' = lines_read + 1
  PROVE  IndInv'
<1> DEFINE f == page_table[p]
<1>1. f \in Frames /\ f # None /\ p # None /\ frame_page[f] = p
  BY SizeAssumption
     DEF IndInv, PageTableHit, TypeOK, PagingConsistent, TablesAreInverse, Pages, None
<1>2. SlotsOf(p) = {}
  BY SearchIsOfEntry DEF IndInv, PageTableHit
<1>3. /\ UNCHANGED <<paging, TLB_hits, page_faults>>
      /\ total_addresses' = total_addresses + 1
      /\ out' = [page |-> p, frame |-> f, byte |-> physical_memory[f]]
      /\ add_TLB(TLB, p, f)
  BY DEF PageTableHit, Answer, paging
<1>4. TypeOK /\ RingsCount /\ TLBUnique
  BY DEF IndInv
<1> HIDE DEF f
<1>5. /\ TLB' \in [Slots -> [page_number : Pages \cup {None},
                             frame_number : Frames \cup {None}]]
      /\ TLBindex' \in Slots
      /\ TLBcount' \in 0 .. TLB_SIZE
      /\ TLBcount' < TLB_SIZE => TLBindex' = TLBcount'
      /\ TLBUnique'
      /\ \A i \in Slots : \/ TLB'[i] = Entry(p, f)
                          \/ TLB'[i] = TLB[i] /\ TLB[i].page_number # p
  BY <1>1, <1>2, <1>3, <1>4, AddKeepsTLBUnique
<1>6. physical_memory[f] = p
  BY <1>1 DEF IndInv, PagingConsistent
<1>7. TypeOK'
  BY <1>1, <1>3, <1>4, <1>5, <1>6 DEF TypeOK, paging
<1>8. RingsCount'
  BY <1>3, <1>4, <1>5 DEF RingsCount, paging
<1>9. PagingConsistent'
  BY <1>3 DEF IndInv, PagingConsistent, TablesAreInverse, paging
<1>10. ResidentPagesCachedRight'
  BY <1>3, <1>5 DEF IndInv, ResidentPagesCachedRight, Entry, paging, f
<1>11. EntriesWereLoaded'
  BY <1>1, <1>3, <1>5 DEF IndInv, EntriesWereLoaded, Entry, paging, f
<1>12. WrongOnlyWhenEvicted'
  BY <1>3, <1>6 DEF WrongOnlyWhenEvicted
<1> QED
  BY <1>5, <1>7, <1>8, <1>9, <1>10, <1>11, <1>12 DEF IndInv

(* replace_page for p in frame f: the page that was there loses its frame, *)
(* and the two tables stay inverse to each other.                          *)
LEMMA ReplaceKeepsTablesInverse ==
  ASSUME TypeOK, TablesAreInverse, NEW p \in Pages, NEW f \in Frames,
         page_table[p] = None,
         frame_page' = [frame_page EXCEPT ![f] = p],
         page_table' = Remap(p, f)
  PROVE  TablesAreInverse'
<1>1. \A g \in Frames : g # None /\ g \in Int
  BY SizeAssumption DEF Frames, None
<1>2. \A q \in Pages : q # None /\ q \in Int
  BY SizeAssumption DEF Pages, None
<1>3. \A q \in Pages : page_table'[q] = IF q = p THEN f
                                        ELSE IF q = frame_page[f] THEN None
                                        ELSE page_table[q]
  BY DEF Remap
<1>4. \A g \in Frames : frame_page'[g] = IF g = f THEN p ELSE frame_page[g]
  BY DEF TypeOK
<1>5. ASSUME NEW q \in Pages, page_table'[q] # None
      PROVE  frame_page'[page_table'[q]] = q
  <2>1. CASE q = p
    BY <2>1, <1>3, <1>4
  <2>2. CASE q # p
    <3>1. page_table'[q] = page_table[q] /\ page_table[q] # None /\ q # frame_page[f]
      BY <1>3, <1>5, <2>2
    <3>2. page_table[q] \in Frames /\ frame_page[page_table[q]] = q
      BY <3>1 DEF TypeOK, TablesAreInverse
    <3> QED
      BY <3>1, <3>2, <1>4
  <2> QED
    BY <2>1, <2>2
<1>6. ASSUME NEW g \in Frames, frame_page'[g] # None
      PROVE  page_table'[frame_page'[g]] = g
  <2>1. CASE g = f
    BY <2>1, <1>3, <1>4
  <2>2. CASE g # f
    <3>1. frame_page'[g] = frame_page[g] /\ frame_page[g] \in Pages
      BY <1>4, <1>6, <2>2 DEF TypeOK
    <3>2. page_table[frame_page[g]] = g
      BY <1>2, <3>1 DEF TablesAreInverse
    <3>3. frame_page[g] # p /\ frame_page[g] # frame_page[f]
      BY <1>1, <1>2, <2>2, <3>1, <3>2 DEF TablesAreInverse
    <3> QED
      BY <3>1, <3>2, <3>3, <1>3
  <2> QED
    BY <2>1, <2>2
<1> QED
  BY <1>5, <1>6 DEF TablesAreInverse

LEMMA PageFaultKeepsIndInv ==
  ASSUME IndInv, NEW p \in Pages, PageFault(p), lines_read' = lines_read + 1
  PROVE  IndInv'
<1>0. PICK f \in Frames : f = current_frame_index
  BY DEF IndInv, TypeOK
<1>1. f # None /\ p # None /\ page_table[p] = None
  BY SizeAssumption DEF PageFault, Frames, Pages, None
<1>2. SlotsOf(p) = {}
  BY SearchIsOfEntry DEF IndInv, PageFault
<1>3. /\ page_table' = Remap(p, f)
      /\ frame_page' = [frame_page EXCEPT ![f] = p]
      /\ physical_memory' = [physical_memory EXCEPT ![f] = p]
      /\ current_frame_index' = (f + 1) % FRAME_COUNT
      /\ page_faults' = page_faults + 1
      /\ UNCHANGED TLB_hits
      /\ total_addresses' = total_addresses + 1
      /\ out' = [page |-> p, frame |-> f, byte |-> physical_memory'[f]]
  BY <1>0 DEF PageFault, replace_page, Answer
<1>4. add_TLB(TLB, p, f)
  BY <1>0, <1>2 DEF PageFault, update_TLB
<1>5. TypeOK /\ RingsCount /\ TLBUnique /\ PagingConsistent
  BY DEF IndInv
<1>6. /\ TLB' \in [Slots -> [page_number : Pages \cup {None},
                             frame_number : Frames \cup {None}]]
      /\ TLBindex' \in Slots
      /\ TLBcount' \in 0 .. TLB_SIZE
      /\ TLBcount' < TLB_SIZE => TLBindex' = TLBcount'
      /\ TLBUnique'
      /\ \A i \in Slots : \/ TLB'[i] = Entry(p, f)
                          \/ TLB'[i] = TLB[i] /\ TLB[i].page_number # p
  BY <1>2, <1>4, <1>5, AddKeepsTLBUnique
<1>7. current_frame_index' = IF f + 1 = FRAME_COUNT THEN 0 ELSE f + 1
  BY <1>3, NextIndex, SizeAssumption DEF Frames
<1>8. \A q \in Pages : page_table'[q] = IF q = p THEN f
                                        ELSE IF q = frame_page[f] THEN None
                                        ELSE page_table[q]
  BY <1>3 DEF Remap
<1>9. \A g \in Frames : frame_page'[g] = IF g = f THEN p ELSE frame_page[g]
  BY <1>3, <1>5 DEF TypeOK
<1>10. /\ FRAME_COUNT \in Nat \ {0} /\ f \in 0 .. FRAME_COUNT - 1 /\ page_faults \in Nat
       /\ page_faults < FRAME_COUNT => f = page_faults
       /\ \A g \in Frames : g \in 0 .. FRAME_COUNT - 1
  BY <1>0, <1>5, SizeAssumption DEF TypeOK, RingsCount, Frames
<1>11. TypeOK'
  <2>1. current_frame_index' \in Frames
    BY <1>7, <1>10 DEF Frames
  <2>2. page_table' \in [Pages -> Frames \cup {None}]
    BY <1>3, <1>5 DEF Remap, TypeOK
  <2>3. /\ frame_page' \in [Frames -> Pages \cup {None}]
        /\ physical_memory' \in [Frames -> Pages \cup {None}]
        /\ physical_memory'[f] = p
    BY <1>3, <1>5 DEF TypeOK
  <2>4. /\ total_addresses' \in Nat /\ TLB_hits' \in Nat /\ page_faults' \in Nat
        /\ lines_read' \in Nat
    BY <1>3, <1>5 DEF TypeOK
  <2>5. out' \in [page : Pages \cup {None}, frame : Frames \cup {None},
                  byte : Pages \cup {None}]
    BY <1>3, <2>3
  <2> QED
    BY <2>1, <2>2, <2>3, <2>4, <2>5, <1>6 DEF TypeOK
<1>12. RingsCount'
  BY <1>3, <1>6, <1>7, <1>10 DEF RingsCount
<1>13. PagingConsistent'
  <2>1. TablesAreInverse'
    BY <1>1, <1>3, <1>5, ReplaceKeepsTablesInverse DEF PagingConsistent
  <2>2. physical_memory' = frame_page'
    BY <1>3, <1>5 DEF PagingConsistent
  <2>3. ASSUME NEW g \in Frames
        PROVE  frame_page'[g] = None <=> page_faults' <= g /\ current_frame_index' <= g
    <3>1. frame_page[g] = None <=> page_faults <= g /\ f <= g
      BY <1>0, <1>5 DEF PagingConsistent
    <3>2. frame_page'[g] = None <=> g # f /\ page_faults <= g /\ f <= g
      BY <3>1, <1>1, <1>9
    <3>3. g \in 0 .. FRAME_COUNT - 1
      BY <1>10
    <3> QED
      BY <3>2, <3>3, <1>3, <1>7, <1>10
  <2> QED
    BY <2>1, <2>2, <2>3 DEF PagingConsistent
<1>14. frame_page[f] # None => page_faults' > FRAME_COUNT
  BY <1>0, <1>3, <1>5, <1>10 DEF PagingConsistent
<1>15. ResidentPagesCachedRight'
  <2> SUFFICES ASSUME NEW i \in Slots, TLB'[i].page_number # None,
                      page_table'[TLB'[i].page_number] # None
               PROVE  page_table'[TLB'[i].page_number] = TLB'[i].frame_number
    BY DEF ResidentPagesCachedRight
  <2>1. CASE TLB'[i] = Entry(p, f)
    BY <2>1, <1>8 DEF Entry
  <2>2. CASE TLB'[i] = TLB[i] /\ TLB[i].page_number # p
    <3>1. TLB[i].page_number \in Pages
      BY <2>2, <1>5 DEF TypeOK
    <3> QED
      BY <2>2, <3>1, <1>8 DEF IndInv, ResidentPagesCachedRight
  <2> QED
    BY <2>1, <2>2, <1>6
<1>16. EntriesWereLoaded'
  <2> SUFFICES ASSUME NEW i \in Slots, TLB'[i].page_number # None
               PROVE  /\ TLB'[i].frame_number # None
                      /\ frame_page'[TLB'[i].frame_number] # None
                      /\ page_table'[TLB'[i].page_number] = None
                           => page_faults' > FRAME_COUNT
    BY DEF EntriesWereLoaded
  <2>1. CASE TLB'[i] = Entry(p, f)
    BY <2>1, <1>1, <1>8, <1>9 DEF Entry
  <2>2. CASE TLB'[i] = TLB[i] /\ TLB[i].page_number # p
    <3>1. TLB[i].page_number \in Pages
      BY <2>2, <1>5 DEF TypeOK
    <3>2. /\ TLB[i].frame_number # None
          /\ frame_page[TLB[i].frame_number] # None
          /\ page_table[TLB[i].page_number] = None => page_faults > FRAME_COUNT
      BY <2>2 DEF IndInv, EntriesWereLoaded
    <3>3. TLB[i].frame_number \in Frames
      BY <3>2, <1>5 DEF TypeOK
    <3>4. frame_page'[TLB[i].frame_number] # None
      BY <3>2, <3>3, <1>1, <1>9
    <3>5. page_table'[TLB[i].page_number] = None => page_faults' > FRAME_COUNT
      <4>1. page_faults' = page_faults + 1 /\ page_faults \in Nat /\ FRAME_COUNT \in Nat
        BY <1>3, <1>10
      <4>2. CASE TLB[i].page_number = frame_page[f]
        BY <4>2, <2>2, <1>14
      <4>3. CASE TLB[i].page_number # frame_page[f]
        <5>1. page_table'[TLB[i].page_number] = page_table[TLB[i].page_number]
          BY <4>3, <2>2, <3>1, <1>8
        <5> QED
          BY <5>1, <4>1, <3>2
      <4> QED
        BY <4>2, <4>3
    <3> QED
      BY <2>2, <3>2, <3>4, <3>5
  <2> QED
    BY <2>1, <2>2, <1>6
<1>17. WrongOnlyWhenEvicted'
  BY <1>3, <1>5 DEF TypeOK, WrongOnlyWhenEvicted
<1> QED
  BY <1>6, <1>11, <1>12, <1>13, <1>15, <1>16, <1>17 DEF IndInv

(* A line whose address is out of range leaves everything but the position *)
(* in the file.                                                            *)
LEMMA SkipInvalidKeepsIndInv ==
  ASSUME IndInv, UNCHANGED <<paging, tlb, stats, out>>,
         lines_read' \in Nat
  PROVE  IndInv'
<1> USE DEF IndInv, paging, tlb, stats
<1>1. TypeOK'
  BY DEF TypeOK
<1>2. RingsCount' /\ TLBUnique'
  BY DEF RingsCount, TLBUnique
<1>3. PagingConsistent'
  BY DEF PagingConsistent, TablesAreInverse
<1>4. ResidentPagesCachedRight' /\ EntriesWereLoaded' /\ WrongOnlyWhenEvicted'
  BY DEF ResidentPagesCachedRight, EntriesWereLoaded, WrongOnlyWhenEvicted
<1> QED
  BY <1>1, <1>2, <1>3, <1>4

-----------------------------------------------------------------------------
LEMMA NextKeepsIndInv == IndInv /\ [Next]_vars => IndInv'
<1> SUFFICES ASSUME IndInv, [Next]_vars PROVE IndInv'
  OBVIOUS
<1>1. ASSUME NEW line \in Lines, Translate(PageNumber(line)),
             lines_read' = lines_read + 1
      PROVE  IndInv'
  <2> DEFINE p == PageNumber(line)
  <2>1. CASE SkipInvalid(p)
    <3>1. lines_read' \in Nat
      BY <1>1 DEF IndInv, TypeOK
    <3> QED
      BY <2>1, <3>1, SkipInvalidKeepsIndInv DEF SkipInvalid
  <2>2. CASE p < PAGES /\ (TLBHit(p) \/ PageTableHit(p) \/ PageFault(p))
    <3>1. p \in Pages
      BY <2>2, PageNumberType
    <3> HIDE DEF p
    <3> QED
      BY <1>1, <2>2, <3>1, TLBHitKeepsIndInv, PageTableHitKeepsIndInv, PageFaultKeepsIndInv
  <2> QED
    BY <1>1, <2>1, <2>2 DEF Translate, TLBHit, PageTableHit, PageFault
<1>2. CASE UNCHANGED vars
  <2>1. lines_read' \in Nat
    BY <1>2 DEF IndInv, TypeOK, vars
  <2> QED
    BY <1>2, <2>1, SkipInvalidKeepsIndInv DEF vars
<1> QED
  BY <1>1, <1>2 DEF Next

LEMMA IndInvHolds == Spec => []IndInv
BY InitEstablishesIndInv, NextKeepsIndInv, PTL DEF Spec

(* The two ring indices stay inside their arrays, and every table holds    *)
(* pages, frames or the -1 of an unused place.                             *)
THEOREM TypeCorrect == Spec => []TypeOK
<1>1. IndInv => TypeOK
  BY DEF IndInv
<1> QED
  BY <1>1, IndInvHolds, PTL

(* The separate assignments of replace_page keep the page table, its       *)
(* inverse and the contents of the frames in agreement, and the ring of    *)
(* frames leaves no frame empty behind it.                                 *)
THEOREM PagingStaysConsistent == Spec => []PagingConsistent
<1>1. IndInv => PagingConsistent
  BY DEF IndInv
<1> QED
  BY <1>1, IndInvHolds, PTL

(* The first match of search_TLB is the only one, and TLBcount counts the  *)
(* entries in use.                                                         *)
THEOREM TLBStaysUnique == Spec => []TLBUnique
<1>1. IndInv => TLBUnique
  BY DEF IndInv
<1> QED
  BY <1>1, IndInvHolds, PTL

(* The entries that update_TLB leaves stale are of pages that are not in   *)
(* memory: a page that comes back is never answered for with an old frame. *)
THEOREM ResidentPagesStayRight == Spec => []ResidentPagesCachedRight
<1>1. IndInv => ResidentPagesCachedRight
  BY DEF IndInv
<1> QED
  BY <1>1, IndInvHolds, PTL

(* A wrong byte is printed only for a page that was replaced.              *)
THEOREM WrongOnlyForEvicted == Spec => []WrongOnlyWhenEvicted
<1>1. IndInv => WrongOnlyWhenEvicted
  BY DEF IndInv
<1> QED
  BY <1>1, IndInvHolds, PTL
=============================================================================
