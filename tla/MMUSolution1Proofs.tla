------------------------- MODULE MMUSolution1Proofs -------------------------
(***************************************************************************)
(* For every size of the memory, the page table and the TLB and for every  *)
(* list of addresses: the tables of MMUSolution1 stay consistent, its TLB  *)
(* never answers with a stale frame, and the byte it prints is a byte of   *)
(* the page asked for.                                                     *)
(*                                                                         *)
(* TLBCoherent is not inductive: when a frame is replaced, TLB_Update      *)
(* overwrites one entry of the page that leaves, so the proof must know    *)
(* that there is no second one.  DuplicateIsRecent says so: the page that  *)
(* leaves was loaded NUM_FRAMES - 1 faults ago, and a page that is in the  *)
(* TLB twice was loaded less than TLB_SIZE faults ago.                     *)
(***************************************************************************)
EXTENDS MMUSolution1, RingLemmas

IndInv ==
  /\ TypeOK
  /\ PagingConsistent
  /\ TLBCoherent
  /\ DuplicateIsRecent
  /\ AnswersWithRightPage

(* The search finds the frame of some entry of the page, the first one, or *)
(* reports that there is none.                                             *)
LEMMA SearchFindsFirst ==
  ASSUME NEW p, SlotsOf(p) # {}
  PROVE  /\ Min(SlotsOf(p)) \in Slots
         /\ TLB[Min(SlotsOf(p))].page_number = p
<1>1. SlotsOf(p) \in SUBSET Nat
  BY SizeAssumption DEF SlotsOf, Slots
<1> QED
  BY <1>1, MinIsFirst DEF SlotsOf

(* A coherent TLB answers with the frame in the page table, and a page it  *)
(* does not answer for is in none of its entries.                          *)
LEMMA SearchIsRight ==
  ASSUME TypeOK, TLBCoherent, NEW p \in Pages
  PROVE  /\ search_TLB(p) # None => search_TLB(p) = page_table[p]
         /\ search_TLB(p) = None => SlotsOf(p) = {}
<1>1. p # None
  BY SizeAssumption DEF Pages, None
<1>2. CASE SlotsOf(p) = {}
  BY <1>2 DEF search_TLB
<1>3. CASE SlotsOf(p) # {}
  BY <1>1, <1>3, SearchFindsFirst DEF search_TLB, TLBCoherent
<1> QED
  BY <1>2, <1>3

(* A line, whatever number it holds, asks for a page of the page table.    *)
LEMMA PageNumberType ==
  ASSUME NEW line \in Lines
  PROVE  PageNumber(line) \in Pages
<1>1. line \in Int
  BY SizeAssumption
<1> QED
  BY <1>1, SizeAssumption DEF PageNumber, Pages

-----------------------------------------------------------------------------
(* An addition passes one entry and brings every other one step nearer to  *)
(* being overwritten.                                                      *)
LEMMA SlotAges ==
  ASSUME TypeOK, NEW t, NEW p, NEW f, AddTo(t, p, f), NEW i \in Slots
  PROVE  /\ SlotAge(i) \in 0 .. TLB_SIZE - 1
         /\ SlotAge(i)' \in 0 .. TLB_SIZE - 1
         /\ i # TLB_index => SlotAge(i)' = SlotAge(i) + 1
<1>1. TLB_index' = IF TLB_index + 1 = TLB_SIZE THEN 0 ELSE TLB_index + 1
  BY NextIndex, SizeAssumption DEF AddTo, TypeOK, Slots
<1> QED
  BY <1>1, SizeAssumption DEF SlotAge, TypeOK, Slots

(* The same for the frames once all are in use: the one to replace is the  *)
(* oldest.                                                                 *)
LEMMA FrameAges ==
  ASSUME TypeOK, next_frame = NUM_FRAMES, next_frame' = next_frame,
         frame_index' = (frame_index + 1) % NUM_FRAMES, NEW f \in Frames
  PROVE  /\ FrameAge(f)' = IF f = frame_index THEN 0 ELSE FrameAge(f) + 1
         /\ FrameAge(frame_index) = NUM_FRAMES - 1
<1>1. frame_index' = IF frame_index + 1 = NUM_FRAMES THEN 0 ELSE frame_index + 1
  BY NextIndex, SizeAssumption DEF TypeOK, Frames
<1>2. /\ NUM_FRAMES \in Nat /\ next_frame = NUM_FRAMES /\ next_frame' = NUM_FRAMES
      /\ f \in 0 .. NUM_FRAMES - 1 /\ frame_index \in 0 .. NUM_FRAMES - 1
  BY SizeAssumption DEF TypeOK, Frames
<1>3. FrameAge(f) = (IF f < frame_index THEN 0 ELSE NUM_FRAMES) + frame_index - 1 - f
  BY <1>2 DEF FrameAge
<1>4. FrameAge(f)' = (IF f < frame_index' THEN 0 ELSE NUM_FRAMES) + frame_index' - 1 - f
  BY <1>2 DEF FrameAge
<1>5. FrameAge(f)' = IF f = frame_index THEN 0 ELSE FrameAge(f) + 1
  <2>1. CASE frame_index + 1 = NUM_FRAMES
    BY <2>1, <1>1, <1>2, <1>3, <1>4
  <2>2. CASE frame_index + 1 # NUM_FRAMES
    BY <2>2, <1>1, <1>2, <1>3, <1>4
  <2> QED
    BY <2>1, <2>2
<1>6. FrameAge(frame_index) = NUM_FRAMES - 1
  BY <1>2 DEF FrameAge
<1> QED
  BY <1>5, <1>6

-----------------------------------------------------------------------------
LEMMA InitEstablishesIndInv == Init => IndInv
<1> SUFFICES ASSUME Init PROVE IndInv
  OBVIOUS
<1>1. TypeOK
  BY SizeAssumption DEF Init, TypeOK, Entry, Nothing, Slots, Frames
<1>2. PagingConsistent
  BY SizeAssumption
     DEF Init, PagingConsistent, FramesFillInOrder, TablesAreInverse, Frames, None
<1>3. TLBCoherent /\ DuplicateIsRecent
  BY DEF Init, TLBCoherent, DuplicateIsRecent, Entry
<1>4. AnswersWithRightPage
  BY DEF Init, AnswersWithRightPage, Nothing
<1> QED
  BY <1>1, <1>2, <1>3, <1>4 DEF IndInv

(* The byte read from a frame that the page table gives for p is p's.      *)
LEMMA MappedFrameHoldsPage ==
  ASSUME TypeOK, PagingConsistent, NEW p \in Pages, page_table[p] # None
  PROVE  physical_memory[page_table[p]] = p
BY DEF PagingConsistent, TablesAreInverse

LEMMA TLBHitKeepsIndInv ==
  ASSUME IndInv, NEW p \in Pages, TLBHit(p)
  PROVE  IndInv'
<1>1. search_TLB(p) = page_table[p] /\ page_table[p] # None
  BY SearchIsRight DEF IndInv, TLBHit
<1>2. page_table[p] \in Frames
  BY <1>1 DEF IndInv, TypeOK
<1> USE DEF IndInv, TLBHit, Answer, paging, tlb
<1>3. TypeOK'
  BY <1>1, <1>2 DEF TypeOK
<1>4. PagingConsistent'
  BY DEF PagingConsistent, FramesFillInOrder, TablesAreInverse
<1>5. TLBCoherent' /\ DuplicateIsRecent'
  BY DEF TLBCoherent, DuplicateIsRecent, FrameAge, SlotAge
<1>6. AnswersWithRightPage'
  BY <1>1, MappedFrameHoldsPage DEF AnswersWithRightPage
<1> QED
  BY <1>3, <1>4, <1>5, <1>6

LEMMA PageTableHitKeepsIndInv ==
  ASSUME IndInv, NEW p \in Pages, PageTableHit(p)
  PROVE  IndInv'
<1> DEFINE f == page_table[p]
<1>1. f \in Frames /\ f # None /\ p # None
  BY SizeAssumption DEF IndInv, PageTableHit, TypeOK, Pages, None
<1>2. SlotsOf(p) = {}
  BY SearchIsRight DEF IndInv, PageTableHit
<1>3. /\ TypeOK
      /\ TLB_index \in Slots
      /\ AddTo(TLB, p, f)
      /\ TLB' = [TLB EXCEPT ![TLB_index] = Entry(p, f)]
      /\ UNCHANGED paging
  BY DEF IndInv, TypeOK, PageTableHit, TLB_Add, AddTo
<1> HIDE DEF f
<1>4. TypeOK'
  <2>1. TLB_index' \in Slots
    BY <1>3, NextIndex, SizeAssumption DEF AddTo, Slots
  <2> QED
    BY <2>1, <1>1, <1>3 DEF TypeOK, PageTableHit, Answer, paging, Entry, f
<1>5. PagingConsistent'
  BY <1>3 DEF IndInv, PagingConsistent, FramesFillInOrder, TablesAreInverse, paging
<1>6. TLBCoherent'
  BY <1>1, <1>3 DEF IndInv, TypeOK, TLBCoherent, Entry, paging, f
<1>7. DuplicateIsRecent'
  <2> SUFFICES ASSUME NEW i \in Slots, NEW j \in Slots, i # j,
                      TLB'[i].page_number # None,
                      TLB'[i].page_number = TLB'[j].page_number
               PROVE  FrameAge(TLB[i].frame_number)' <= SlotAge(i)'
    BY DEF DuplicateIsRecent
  <2>1. i # TLB_index /\ j # TLB_index
    BY <1>2, <1>3 DEF SlotsOf, TypeOK, Entry
  <2>2. TLB'[i] = TLB[i] /\ TLB'[j] = TLB[j]
    BY <2>1, <1>3 DEF TypeOK
  <2>3. TLB[i].frame_number \in Frames
    BY <2>2 DEF IndInv, TLBCoherent, TypeOK
  <2>4. FrameAge(TLB[i].frame_number)' = FrameAge(TLB[i].frame_number)
    BY <2>2, <1>3 DEF FrameAge, paging
  <2>5. FrameAge(TLB[i].frame_number) <= SlotAge(i)
    BY <2>2 DEF IndInv, DuplicateIsRecent
  <2>6. SlotAge(i)' = SlotAge(i) + 1 /\ SlotAge(i) \in Int
    BY <2>1, <1>3, SlotAges
  <2>7. FrameAge(TLB[i].frame_number) \in Int
    BY <2>3, <1>3 DEF FrameAge, TypeOK, Frames
  <2> QED
    BY <2>4, <2>5, <2>6, <2>7
<1>8. AnswersWithRightPage'
  BY <1>1, <1>3, MappedFrameHoldsPage
     DEF IndInv, PageTableHit, Answer, AnswersWithRightPage, paging, f
<1> QED
  BY <1>4, <1>5, <1>6, <1>7, <1>8 DEF IndInv

(* A fault on p that fills frame f and unmaps the page that was there, if  *)
(* any, leaves the tables inverse.                                         *)
LEMMA FaultKeepsTablesInverse ==
  ASSUME TypeOK, TablesAreInverse, NEW p \in Pages, NEW f \in Frames,
         page_table[p] = None,
         page_order' = [page_order EXCEPT ![f] = p],
         \A q \in Pages : page_table'[q] = IF q = p THEN f
                                           ELSE IF q = page_order[f] THEN None
                                           ELSE page_table[q]
  PROVE  TablesAreInverse'
<1>1. \A g \in Frames : g # None /\ g \in Int
  BY SizeAssumption DEF Frames, None
<1>2. \A q \in Pages : q # None /\ q \in Int
  BY SizeAssumption DEF Pages, None
<1>3. ASSUME NEW q \in Pages, page_table'[q] # None
      PROVE  page_order'[page_table'[q]] = q
  <2>1. CASE q = p
    BY <2>1 DEF TypeOK
  <2>2. CASE q # p
    <3>1. page_table'[q] = page_table[q] /\ page_table[q] # None /\ q # page_order[f]
      BY <1>3, <2>2
    <3>2. page_table[q] \in Frames /\ page_order[page_table[q]] = q
      BY <3>1 DEF TypeOK, TablesAreInverse
    <3> QED
      BY <3>1, <3>2 DEF TypeOK
  <2> QED
    BY <2>1, <2>2
<1>4. ASSUME NEW g \in Frames, page_order'[g] # None
      PROVE  page_table'[page_order'[g]] = g
  <2>1. CASE g = f
    BY <2>1 DEF TypeOK
  <2>2. CASE g # f
    <3>1. page_order'[g] = page_order[g] /\ page_order[g] \in Pages
      BY <1>4, <2>2 DEF TypeOK
    <3>2. page_table[page_order[g]] = g
      BY <1>2, <3>1 DEF TablesAreInverse
    <3>3. page_order[g] # p /\ page_order[g] # page_order[f]
      BY <1>1, <1>2, <2>2, <3>1, <3>2 DEF TablesAreInverse
    <3> QED
      BY <3>1, <3>2, <3>3
  <2> QED
    BY <2>1, <2>2
<1> QED
  BY <1>3, <1>4 DEF TablesAreInverse

LEMMA LoadIntoFreeFrameKeepsIndInv ==
  ASSUME IndInv, NEW p \in Pages, LoadIntoFreeFrame(p)
  PROVE  IndInv'
<1> DEFINE f == next_frame
<1>1. /\ f \in Frames /\ f # None /\ p # None
      /\ f \in Nat /\ page_order[f] = None /\ page_table[p] = None
  BY SizeAssumption
     DEF IndInv, LoadIntoFreeFrame, Fault, TypeOK, PagingConsistent,
         FramesFillInOrder, Frames, Pages, None
<1>2. SlotsOf(p) = {}
  BY SearchIsRight DEF IndInv, LoadIntoFreeFrame, Fault
<1>3. /\ TypeOK
      /\ TLB_index \in Slots
      /\ AddTo(TLB, p, f)
      /\ TLB' = [TLB EXCEPT ![TLB_index] = Entry(p, f)]
      /\ page_table' = [page_table EXCEPT ![p] = f]
      /\ page_order' = [page_order EXCEPT ![f] = p]
      /\ physical_memory' = [physical_memory EXCEPT ![f] = p]
      /\ next_frame' = f + 1
      /\ UNCHANGED frame_index
      /\ out' = [page |-> p, frame |-> f, byte |-> physical_memory'[f]]
  BY DEF IndInv, TypeOK, LoadIntoFreeFrame, Fault, Answer, TLB_Add, AddTo
<1>4. TypeOK'
  <2>1. TLB_index' \in Slots
    BY <1>3, NextIndex, SizeAssumption DEF AddTo, Slots
  <2>2. next_frame' \in 0 .. NUM_FRAMES
    BY <1>1, <1>3, SizeAssumption DEF Frames
  <2>3. page_faults' \in Nat /\ total_addresses' \in Nat /\ UNCHANGED TLB_hits
    BY DEF IndInv, TypeOK, LoadIntoFreeFrame, Fault, Answer
  <2> HIDE DEF f
  <2> QED
    BY <2>1, <2>2, <2>3, <1>1, <1>3 DEF TypeOK, Entry
<1>5. PagingConsistent'
  <2>1. FramesFillInOrder'
    BY <1>1, <1>3, SizeAssumption
       DEF IndInv, TypeOK, PagingConsistent, FramesFillInOrder, Frames
  <2>2. TablesAreInverse'
    <3>1. \A q \in Pages : q # None
      BY SizeAssumption DEF Pages, None
    <3>2. \A q \in Pages : page_table'[q] = IF q = p THEN f
                                            ELSE IF q = page_order[f] THEN None
                                            ELSE page_table[q]
      BY <1>1, <1>3, <3>1 DEF TypeOK
    <3> QED
      BY <3>2, <1>1, <1>3, FaultKeepsTablesInverse DEF IndInv, PagingConsistent
  <2> QED
    BY <2>1, <2>2, <1>3 DEF IndInv, PagingConsistent
<1>6. TLBCoherent'
  BY <1>1, <1>2, <1>3 DEF IndInv, TypeOK, TLBCoherent, SlotsOf, Entry
<1>7. DuplicateIsRecent'
  <2> SUFFICES ASSUME NEW i \in Slots, NEW j \in Slots, i # j,
                      TLB'[i].page_number # None,
                      TLB'[i].page_number = TLB'[j].page_number
               PROVE  FrameAge(TLB[i].frame_number)' <= SlotAge(i)'
    BY DEF DuplicateIsRecent
  <2>1. i # TLB_index /\ j # TLB_index
    BY <1>2, <1>3 DEF SlotsOf, TypeOK, Entry
  <2>2. TLB'[i] = TLB[i] /\ TLB'[j] = TLB[j]
    BY <2>1, <1>3 DEF TypeOK
  <2> DEFINE g == TLB[i].frame_number
  <2>3. g \in Frames
    BY <2>2 DEF IndInv, TLBCoherent, TypeOK
  <2>4. FrameAge(g)' = FrameAge(g) + 1 /\ FrameAge(g) \in Int
    <3>1. /\ frame_index = 0 /\ frame_index' = 0 /\ next_frame' = next_frame + 1
          /\ next_frame \in Nat /\ NUM_FRAMES \in Nat /\ g' = g /\ g \in Nat
      BY <1>1, <1>3, <2>2, <2>3, SizeAssumption
         DEF IndInv, PagingConsistent, FramesFillInOrder, Frames
    <3> HIDE DEF g
    <3> QED
      BY <3>1 DEF FrameAge
  <2>5. FrameAge(g) <= SlotAge(i)
    BY <2>2 DEF IndInv, DuplicateIsRecent
  <2>6. SlotAge(i)' = SlotAge(i) + 1 /\ SlotAge(i) \in Int
    BY <2>1, <1>3, SlotAges
  <2>7. FrameAge(g)' = FrameAge(TLB[i].frame_number)'
    BY <2>2
  <2> QED
    BY <2>4, <2>5, <2>6, <2>7
<1>8. AnswersWithRightPage'
  BY <1>1, <1>3 DEF TypeOK, AnswersWithRightPage
<1> QED
  BY <1>4, <1>5, <1>6, <1>7, <1>8 DEF IndInv

(* After TLB_Update an entry is either the new page's or one of another    *)
(* page than the replaced one, that TLB_index has not just passed.         *)
LEMMA TLBAfterUpdate ==
  ASSUME TypeOK, NEW r \in Pages, NEW p \in Pages, NEW f \in Frames,
         \A i, j \in SlotsOf(r) : i = j,
         TLB_Update(r, p, f)
  PROVE  /\ TLB' \in [Slots -> [page_number : Pages \cup {None},
                                frame_number : Frames \cup {None}]]
         /\ TLB_index' \in Slots
         /\ \E t : AddTo(t, p, f)
         /\ \A i \in Slots : \/ TLB'[i] = Entry(p, f)
                             \/ /\ i # TLB_index
                                /\ TLB'[i] = TLB[i]
                                /\ TLB[i].page_number # r
<1> DEFINE t == IF SlotsOf(r) = {} THEN TLB
                ELSE [TLB EXCEPT ![Min(SlotsOf(r))] = Entry(p, f)]
<1>1. AddTo(t, p, f)
  BY DEF TLB_Update
<1>2. Entry(p, f) \in [page_number : Pages \cup {None}, frame_number : Frames \cup {None}]
  BY DEF Entry
<1>3. t \in [Slots -> [page_number : Pages \cup {None}, frame_number : Frames \cup {None}]]
  BY <1>2 DEF TypeOK
<1>4. \A i \in Slots : \/ t[i] = Entry(p, f)
                       \/ t[i] = TLB[i] /\ TLB[i].page_number # r
  <2>1. CASE SlotsOf(r) = {}
    BY <2>1 DEF SlotsOf
  <2>2. CASE SlotsOf(r) # {}
    <3>1. Min(SlotsOf(r)) \in SlotsOf(r)
      BY <2>2, SearchFindsFirst DEF SlotsOf
    <3> QED
      BY <2>2, <3>1 DEF SlotsOf, TypeOK
  <2> QED
    BY <2>1, <2>2
<1> HIDE DEF t
<1>5. TLB' = [t EXCEPT ![TLB_index] = Entry(p, f)] /\ TLB_index \in Slots
  BY <1>1 DEF AddTo, TypeOK
<1>6. TLB_index' \in Slots
  BY <1>1, <1>5, NextIndex, SizeAssumption DEF AddTo, Slots
<1> QED
  BY <1>1, <1>2, <1>3, <1>4, <1>5, <1>6

LEMMA ReplaceOldestKeepsIndInv ==
  ASSUME IndInv, NEW p \in Pages, ReplaceOldest(p)
  PROVE  IndInv'
<1>0. PICK f \in Frames : f = frame_index
  BY DEF IndInv, TypeOK
<1> DEFINE r == page_order[f]
<1>1. /\ f \in Frames /\ f # None /\ p # None
      /\ r \in Pages /\ r # None /\ r # p
      /\ page_table[r] = f /\ page_table[p] = None
  <2>1. f # None /\ p # None /\ page_table[p] = None
    BY SizeAssumption DEF IndInv, TypeOK, ReplaceOldest, Fault, Frames, Pages, None
  <2>2. page_order[f] # None
    BY SizeAssumption
       DEF IndInv, PagingConsistent, FramesFillInOrder, ReplaceOldest, Frames
  <2> QED
    BY <2>1, <2>2 DEF IndInv, TypeOK, PagingConsistent, TablesAreInverse
<1>2. SlotsOf(p) = {}
  BY SearchIsRight DEF IndInv, ReplaceOldest, Fault
<1>3. /\ TypeOK
      /\ next_frame = NUM_FRAMES /\ next_frame' = next_frame
      /\ page_table' = [page_table EXCEPT ![r] = None, ![p] = f]
      /\ page_order' = [page_order EXCEPT ![f] = p]
      /\ physical_memory' = [physical_memory EXCEPT ![f] = p]
      /\ TLB_Update(r, p, f)
      /\ frame_index' = (f + 1) % NUM_FRAMES
      /\ out' = [page |-> p, frame |-> f, byte |-> physical_memory'[f]]
  BY <1>0 DEF IndInv, ReplaceOldest, Fault, Answer
<1>4. FrameAge(f) = NUM_FRAMES - 1
  BY <1>0, <1>3, FrameAges
<1>5. \A i \in Slots : SlotAge(i) \in 0 .. TLB_SIZE - 1
  <2>1. TLB_SIZE \in Nat /\ TLB_index \in 0 .. TLB_SIZE - 1 /\ Slots = 0 .. TLB_SIZE - 1
    BY <1>3, SizeAssumption DEF TypeOK, Slots
  <2> QED
    BY <2>1 DEF SlotAge
<1>6. ASSUME NEW i \in SlotsOf(r), NEW j \in SlotsOf(r)
      PROVE  i = j
  <2> SUFFICES ASSUME i # j PROVE FALSE
    OBVIOUS
  <2>1. i \in Slots /\ j \in Slots /\ TLB[i].page_number = r /\ TLB[j].page_number = r
    BY DEF SlotsOf
  <2>2. TLB[i].frame_number = f
    BY <2>1, <1>1 DEF IndInv, TLBCoherent
  <2>3. FrameAge(TLB[i].frame_number) <= SlotAge(i)
    BY <2>1, <1>1 DEF IndInv, DuplicateIsRecent
  <2> QED
    BY <2>1, <2>2, <2>3, <1>4, <1>5, SizeAssumption
<1> HIDE DEF r
<1>7. /\ TLB' \in [Slots -> [page_number : Pages \cup {None},
                             frame_number : Frames \cup {None}]]
      /\ TLB_index' \in Slots
      /\ \A i \in Slots : \/ TLB'[i] = Entry(p, f)
                          \/ /\ i # TLB_index
                             /\ TLB'[i] = TLB[i]
                             /\ TLB[i].page_number # r
  BY <1>1, <1>3, <1>6, TLBAfterUpdate
<1>8. PICK t : AddTo(t, p, f)
  BY <1>1, <1>3, <1>6, TLBAfterUpdate
<1>9. TypeOK'
  <2>1. frame_index' \in Frames
    BY <1>1, <1>3, NextIndex, SizeAssumption DEF Frames
  <2>2. page_faults' \in Nat /\ total_addresses' \in Nat /\ UNCHANGED TLB_hits
    BY DEF IndInv, TypeOK, ReplaceOldest, Fault, Answer
  <2> QED
    BY <2>1, <2>2, <1>1, <1>3, <1>7 DEF TypeOK
<1>10. PagingConsistent'
  <2>1. FramesFillInOrder'
    BY <1>1, <1>3, SizeAssumption
       DEF IndInv, TypeOK, PagingConsistent, FramesFillInOrder, Frames
  <2>2. TablesAreInverse'
    <3>1. \A q \in Pages : page_table'[q] = IF q = p THEN f
                                            ELSE IF q = page_order[f] THEN None
                                            ELSE page_table[q]
      BY <1>1, <1>3 DEF TypeOK, r
    <3> QED
      BY <3>1, <1>1, <1>3, FaultKeepsTablesInverse DEF IndInv, PagingConsistent
  <2> QED
    BY <2>1, <2>2, <1>3 DEF IndInv, PagingConsistent
<1>11. TLBCoherent'
  <2> SUFFICES ASSUME NEW i \in Slots, TLB'[i].page_number # None
               PROVE  /\ TLB'[i].frame_number # None
                      /\ page_table'[TLB'[i].page_number] = TLB'[i].frame_number
    BY DEF TLBCoherent
  <2>1. CASE TLB'[i] = Entry(p, f)
    BY <2>1, <1>1, <1>3 DEF Entry, TypeOK
  <2>2. CASE TLB'[i] = TLB[i] /\ TLB[i].page_number # r
    <3>1. TLB[i].page_number \in Pages
      BY <2>2 DEF IndInv, TypeOK
    <3>2. TLB[i].page_number # p
      BY <1>2 DEF SlotsOf
    <3> QED
      BY <2>2, <3>1, <3>2, <1>3 DEF IndInv, TLBCoherent, TypeOK
  <2> QED
    BY <2>1, <2>2, <1>7
<1>12. DuplicateIsRecent'
  <2> SUFFICES ASSUME NEW i \in Slots, NEW j \in Slots, i # j,
                      TLB'[i].page_number # None,
                      TLB'[i].page_number = TLB'[j].page_number
               PROVE  FrameAge(TLB[i].frame_number)' <= SlotAge(i)'
    BY DEF DuplicateIsRecent
  <2>1. SlotAge(i)' \in 0 .. TLB_SIZE - 1
    BY <1>3, <1>8, SlotAges
  <2>2. CASE TLB'[i] = Entry(p, f)
    <3>1. FrameAge(f)' = 0
      BY <1>0, <1>3, FrameAges
    <3>2. FrameAge(TLB[i].frame_number)' = FrameAge(f)'
      BY <2>2 DEF Entry, FrameAge
    <3> QED
      BY <2>1, <3>1, <3>2
  <2>3. CASE TLB'[i] # Entry(p, f)
    <3> DEFINE g == TLB[i].frame_number
    <3>1. i # TLB_index /\ TLB'[i] = TLB[i] /\ TLB[i].page_number # r
      BY <2>3, <1>7
    <3>2. TLB'[j] = TLB[j] /\ TLB[j].page_number = TLB[i].page_number
      BY <1>2, <1>7, <3>1 DEF Entry, SlotsOf
    <3>3. g \in Frames /\ g # f
      BY <3>1, <1>1 DEF IndInv, TLBCoherent, TypeOK, PagingConsistent, TablesAreInverse, r
    <3>4. FrameAge(TLB[i].frame_number)' = FrameAge(g)' /\ g' = g
      BY <3>1
    <3>5. FrameAge(g)' = FrameAge(g) + 1
      <4>1. \A h \in Frames : FrameAge(h)' = IF h = frame_index THEN 0 ELSE FrameAge(h) + 1
        BY <1>3, <1>0, FrameAges
      <4> QED
        BY <3>3, <3>4, <4>1, <1>0 DEF FrameAge
    <3>6. FrameAge(g) <= SlotAge(i) /\ FrameAge(g) \in Int
      BY <3>1, <3>2, <3>3, <1>3 DEF IndInv, DuplicateIsRecent, FrameAge, TypeOK, Frames
    <3>7. SlotAge(i)' = SlotAge(i) + 1 /\ SlotAge(i) \in Int
      BY <3>1, <1>3, <1>8, SlotAges
    <3> QED
      BY <3>4, <3>5, <3>6, <3>7
  <2> QED
    BY <2>2, <2>3
<1>13. AnswersWithRightPage'
  BY <1>1, <1>3 DEF TypeOK, AnswersWithRightPage
<1> QED
  BY <1>9, <1>10, <1>11, <1>12, <1>13 DEF IndInv

-----------------------------------------------------------------------------
LEMMA NextKeepsIndInv == IndInv /\ [Next]_vars => IndInv'
<1> SUFFICES ASSUME IndInv, [Next]_vars PROVE IndInv'
  OBVIOUS
<1>1. ASSUME NEW line \in Lines, Translate(PageNumber(line))
      PROVE  IndInv'
  <2>1. PageNumber(line) \in Pages
    BY PageNumberType
  <2> QED
    BY <1>1, <2>1, TLBHitKeepsIndInv, PageTableHitKeepsIndInv,
       LoadIntoFreeFrameKeepsIndInv, ReplaceOldestKeepsIndInv DEF Translate
<1>2. CASE UNCHANGED vars
  BY <1>2 DEF IndInv, vars, paging, tlb, TypeOK, PagingConsistent, FramesFillInOrder,
              TablesAreInverse, TLBCoherent, DuplicateIsRecent, FrameAge, SlotAge,
              AnswersWithRightPage
<1> QED
  BY <1>1, <1>2 DEF Next

LEMMA IndInvHolds == Spec => []IndInv
BY InitEstablishesIndInv, NextKeepsIndInv, PTL DEF Spec

(* The two ring indices stay inside their arrays, and every table holds    *)
(* pages, frames or the -1 of an unused place.                             *)
THEOREM TypeCorrect == Spec => []TypeOK
<1>1. IndInv => TypeOK
  BY DEF IndInv
<1> QED
  BY <1>1, IndInvHolds, PTL

(* The separate assignments of a fault keep the page table, its inverse    *)
(* and the contents of the frames in agreement.                            *)
THEOREM PagingStaysConsistent == Spec => []PagingConsistent
<1>1. IndInv => PagingConsistent
  BY DEF IndInv
<1> QED
  BY <1>1, IndInvHolds, PTL

(* Whatever is replaced, no entry of the TLB is ever stale, although       *)
(* TLB_Update overwrites only the first entry of the replaced page.        *)
THEOREM TLBStaysCoherent == Spec => []TLBCoherent
<1>1. IndInv => TLBCoherent
  BY DEF IndInv
<1> QED
  BY <1>1, IndInvHolds, PTL

(* The byte printed for an address is always a byte of its page.           *)
THEOREM AnswersAreRight == Spec => []AnswersWithRightPage
<1>1. IndInv => AnswersWithRightPage
  BY DEF IndInv
<1> QED
  BY <1>1, IndInvHolds, PTL

(* An entry with a duplicate is younger than the frame it names is old, so *)
(* TLB_Update never meets two entries of the page that leaves.             *)
THEOREM DuplicatesAreRecent == Spec => []DuplicateIsRecent
<1>1. IndInv => DuplicateIsRecent
  BY DEF IndInv
<1> QED
  BY <1>1, IndInvHolds, PTL

-----------------------------------------------------------------------------
(***************************************************************************)
(* The refinement.  The pages in memory, read from the ring of frames      *)
(* beginning at the one to be replaced next, are the queue of FIFO demand  *)
(* paging: a fault appends to it, and drops its head when memory is full.  *)
(***************************************************************************)

(* The frame of the k-th page of the queue.                                *)
Place(k) == (frame_index + k - 1) % NUM_FRAMES

(* As long as frames are free the queue is the frames in use from 0 on;    *)
(* after that it is all of them, once round the ring from frame_index.     *)
LEMMA PlacesAreFramesInUse ==
  ASSUME IndInv
  PROVE  /\ next_frame \in 0 .. NUM_FRAMES
         /\ \A k \in 1 .. next_frame :
              /\ Place(k) \in Frames /\ Place(k) < next_frame
              /\ Place(k) = IF frame_index + k - 1 < NUM_FRAMES THEN frame_index + k - 1
                            ELSE frame_index + k - 1 - NUM_FRAMES
         /\ \A g \in Frames : g < next_frame => \E k \in 1 .. next_frame : Place(k) = g
<1> DEFINE n == NUM_FRAMES
           h == frame_index
           m == next_frame
<1>0. /\ n \in Nat \ {0} /\ h \in 0 .. n - 1 /\ m \in 0 .. n /\ Frames = 0 .. n - 1
      /\ m < n => h = 0
  BY SizeAssumption DEF IndInv, TypeOK, PagingConsistent, FramesFillInOrder, Frames
<1>1. \A x \in 0 .. n : (h + x) % n = IF h + x < n THEN h + x ELSE h + x - n
  BY <1>0, OffsetInRing
<1>2. ASSUME NEW k \in 1 .. m
      PROVE  Place(k) = IF h + k - 1 < n THEN h + k - 1 ELSE h + k - 1 - n
  <2>1. k - 1 \in 0 .. n /\ h + (k - 1) = h + k - 1
    BY <1>0
  <2>2. Place(k) = (h + (k - 1)) % n
    BY <2>1 DEF Place
  <2> QED
    BY <1>1, <2>1, <2>2
<1> HIDE DEF n, h, m
<1>3. ASSUME NEW k \in 1 .. m
      PROVE  Place(k) \in Frames /\ Place(k) < m
  BY <1>0, <1>2
<1>4. ASSUME NEW g \in Frames, g < m
      PROVE  \E k \in 1 .. m : Place(k) = g
  <2>1. CASE h <= g
    <3>1. g - h + 1 \in 1 .. m /\ h + (g - h + 1) - 1 = g
      BY <1>0, <1>4, <2>1
    <3>2. Place(g - h + 1) = g
      BY <1>0, <1>2, <3>1
    <3> QED
      BY <3>1, <3>2
  <2>2. CASE g < h
    <3>1. g - h + n + 1 \in 1 .. m /\ h + (g - h + n + 1) - 1 = g + n /\ g + n - n = g
          /\ ~(g + n < n)
      BY <1>0, <1>4, <2>2
    <3>2. Place(g - h + n + 1) = g
      BY <1>0, <1>2, <3>1
    <3> QED
      BY <3>1, <3>2
  <2> QED
    BY <1>0, <2>1, <2>2
<1> QED
  BY <1>0, <1>2, <1>3, <1>4 DEF n, h, m

LEMMA ResidentElements ==
  ASSUME IndInv
  PROVE  /\ Resident \in [1 .. next_frame -> Pages]
         /\ \A k \in 1 .. next_frame : Resident[k] = page_order[Place(k)]
<1>1. \A k \in 1 .. next_frame : Place(k) \in Frames /\ Place(k) < next_frame
  BY PlacesAreFramesInUse
<1>2. \A k \in 1 .. next_frame : page_order[Place(k)] \in Pages
  BY <1>1 DEF IndInv, TypeOK, PagingConsistent, FramesFillInOrder
<1> QED
  BY <1>2 DEF Resident, Place

(* The k-th page of the queue, without a remainder.                        *)
ResidentIsRing ==
  \A k \in 1 .. next_frame :
    /\ Resident[k] = page_order[Place(k)]
    /\ Place(k) = IF frame_index + k - 1 < NUM_FRAMES THEN frame_index + k - 1
                  ELSE frame_index + k - 1 - NUM_FRAMES

LEMMA ResidentRing == IndInv => ResidentIsRing
BY PlacesAreFramesInUse, ResidentElements DEF ResidentIsRing

(* The queue is a sequence as long as the number of frames in use.         *)
ResidentOK == Resident \in Seq(Pages) /\ Len(Resident) = next_frame

LEMMA ResidentType == IndInv => ResidentOK
<1> SUFFICES ASSUME IndInv PROVE ResidentOK
  OBVIOUS
<1>1. next_frame \in Nat
  BY SizeAssumption DEF IndInv, TypeOK
<1>2. Resident \in [1 .. next_frame -> Pages]
  BY ResidentElements
<1> QED
  BY <1>1, <1>2 DEF ResidentOK

(* A page is in the queue exactly when the page table has a frame for it.  *)
LEMMA ResidentIsMapped ==
  ASSUME IndInv, NEW p \in Pages
  PROVE  (\E k \in 1 .. next_frame : Resident[k] = p) <=> page_table[p] # None
<1>0. p # None
  BY SizeAssumption DEF Pages, None
<1>1. ASSUME NEW k \in 1 .. next_frame, Resident[k] = p
      PROVE  page_table[p] # None
  <2>1. Place(k) \in Frames /\ page_order[Place(k)] = p
    BY <1>1, PlacesAreFramesInUse, ResidentElements
  <2>2. page_table[p] = Place(k)
    BY <1>0, <2>1 DEF IndInv, PagingConsistent, TablesAreInverse
  <2>3. \A g \in Frames : g # None
    BY SizeAssumption DEF Frames, None
  <2> QED
    BY <2>1, <2>2, <2>3
<1>2. ASSUME page_table[p] # None
      PROVE  \E k \in 1 .. next_frame : Resident[k] = p
  <2>1. /\ page_table[p] \in Frames /\ page_order[page_table[p]] = p
        /\ page_table[p] < next_frame
    BY <1>0, <1>2 DEF IndInv, TypeOK, PagingConsistent, FramesFillInOrder, TablesAreInverse
  <2>2. PICK k \in 1 .. next_frame : Place(k) = page_table[p]
    BY <2>1, PlacesAreFramesInUse
  <2> QED
    BY <2>1, <2>2, ResidentElements
<1> QED
  BY <1>1, <1>2

(* The same with the length of the queue in place of next_frame.           *)
LEMMA IsResidentIsMapped ==
  ASSUME IndInv, NEW p \in Pages
  PROVE  Paging!IsResident(p) <=> page_table[p] # None
<1>1. Len(Resident) = next_frame
  BY ResidentType DEF ResidentOK
<1>2. Paging!IsResident(p) <=> \E k \in 1 .. next_frame : Resident[k] = p
  BY <1>1 DEF Paging!IsResident
<1> QED
  BY <1>2, ResidentIsMapped

-----------------------------------------------------------------------------
(* Nothing is in memory when the program starts.                           *)
LEMMA InitMapsToInit == Init => Paging!Init
<1> SUFFICES ASSUME Init PROVE Paging!Init
  OBVIOUS
<1>1. Resident \in Seq(Pages) /\ Len(Resident) = 0
  BY InitEstablishesIndInv, ResidentType DEF Init, ResidentOK
<1>2. Resident = <<>>
  BY <1>1, EmptySeq
<1> QED
  BY <1>2 DEF Init, Nothing, Paging!Init

(* A hit, of the TLB or of the page table, finds a page that is in memory  *)
(* and leaves the queue alone.                                             *)
LEMMA HitIsHit ==
  ASSUME IndInv, NEW p \in Pages, TLBHit(p) \/ PageTableHit(p)
  PROVE  Paging!Access(p)
<1>1. /\ page_table[p] # None
      /\ UNCHANGED <<paging, page_faults>>
      /\ total_addresses' = total_addresses + 1
      /\ out'.page = p
  BY SearchIsRight DEF IndInv, TLBHit, PageTableHit, Answer
<1>2. Resident' = Resident
  BY <1>1 DEF Resident, paging
<1>3. AnswersWithRightPage'
  BY TLBHitKeepsIndInv, PageTableHitKeepsIndInv DEF IndInv
<1>4. Paging!IsResident(p)
  BY <1>1, IsResidentIsMapped
<1> QED
  BY <1>1, <1>2, <1>3, <1>4 DEF AnswersWithRightPage, Paging!Access, Paging!Hit

(* Where frames are free the queue begins at frame 0 and ends before       *)
(* next_frame, the frame the page is loaded into.                          *)
LEMMA LoadQueues ==
  ASSUME IndInv, NEW p \in Pages, LoadIntoFreeFrame(p)
  PROVE  /\ next_frame < NUM_FRAMES /\ next_frame \in Nat /\ next_frame' = next_frame + 1
         /\ Resident'[next_frame + 1] = p
         /\ \A k \in 1 .. next_frame : Resident'[k] = Resident[k]
<1>1. IndInv'
  BY LoadIntoFreeFrameKeepsIndInv
<1>2. /\ next_frame < NUM_FRAMES /\ next_frame \in 0 .. NUM_FRAMES /\ NUM_FRAMES \in Nat
      /\ frame_index = 0 /\ frame_index' = 0
      /\ next_frame' = next_frame + 1
      /\ page_order' = [page_order EXCEPT ![next_frame] = p]
      /\ page_order \in [Frames -> Pages \cup {None}]
  BY SizeAssumption
     DEF IndInv, TypeOK, PagingConsistent, FramesFillInOrder, LoadIntoFreeFrame, Fault
<1>3. \A k \in 1 .. next_frame + 1 : Place(k)' = Place(k)
  BY <1>2 DEF Place
<1>4. \A k \in 1 .. next_frame' : /\ Resident'[k] = page_order'[Place(k)']
                                  /\ Place(k)' = k - 1
  <2>1. ResidentIsRing'
    BY <1>1, ResidentRing, PTL
  <2> QED
    BY <2>1, <1>2 DEF ResidentIsRing
<1>5. \A k \in 1 .. next_frame : Resident[k] = page_order[Place(k)]
  BY ResidentElements
<1>6. Resident'[next_frame + 1] = p
  <2>1. next_frame + 1 \in 1 .. next_frame' /\ (next_frame + 1) - 1 = next_frame
        /\ next_frame \in Frames
    BY <1>2 DEF Frames
  <2> QED
    BY <2>1, <1>2, <1>4
<1>7. ASSUME NEW k \in 1 .. next_frame
      PROVE  Resident'[k] = Resident[k]
  <2>1. k \in 1 .. next_frame' /\ k - 1 \in Frames /\ k - 1 # next_frame
        /\ k \in 1 .. next_frame + 1
    BY <1>2 DEF Frames
  <2>2. Resident'[k] = page_order'[k - 1] /\ Resident[k] = page_order[k - 1]
    BY <2>1, <1>3, <1>4, <1>5
  <2> QED
    BY <2>1, <2>2, <1>2
<1> QED
  BY <1>2, <1>6, <1>7

LEMMA LoadIsLoad ==
  ASSUME IndInv, NEW p \in Pages, LoadIntoFreeFrame(p)
  PROVE  Paging!Access(p)
<1>1. IndInv'
  BY LoadIntoFreeFrameKeepsIndInv
<1>2. ResidentOK /\ ResidentOK'
  BY <1>1, ResidentType, PTL
<1>3. /\ next_frame < NUM_FRAMES /\ next_frame' = next_frame + 1
      /\ Resident'[next_frame + 1] = p
      /\ \A k \in 1 .. next_frame : Resident'[k] = Resident[k]
  BY LoadQueues
<1>4. Resident' = Append(Resident, p)
  BY <1>2, <1>3, AppendIs DEF ResidentOK
<1>5. ~ Paging!IsResident(p)
  BY IsResidentIsMapped DEF LoadIntoFreeFrame, Fault
<1>6. Len(Resident) < NUM_FRAMES
  BY <1>2, <1>3 DEF ResidentOK
<1>7. /\ page_faults' = page_faults + 1 /\ total_addresses' = total_addresses + 1
      /\ out'.byte = p
  BY <1>1 DEF IndInv, AnswersWithRightPage, LoadIntoFreeFrame, Fault, Answer
<1> QED
  BY <1>4, <1>5, <1>6, <1>7 DEF Paging!Access, Paging!Load

(* Once every frame is in use the head of the queue is the page in         *)
(* frame_index, and the frames after it move up by one place.              *)
LEMMA ReplaceQueues ==
  ASSUME IndInv, NEW p \in Pages, ReplaceOldest(p)
  PROVE  /\ next_frame = NUM_FRAMES /\ next_frame' = NUM_FRAMES
         /\ Resident'[NUM_FRAMES] = p
         /\ \A k \in 1 .. NUM_FRAMES - 1 : Resident'[k] = Resident[k + 1]
<1> DEFINE n == NUM_FRAMES
<1>1. IndInv'
  BY ReplaceOldestKeepsIndInv
<1>2. PICK h \in Frames : h = frame_index
  BY DEF IndInv, TypeOK
<1>3. /\ next_frame = n /\ next_frame' = n /\ n \in Nat \ {0} /\ h \in 0 .. n - 1
      /\ Frames = 0 .. n - 1
      /\ frame_index' = (h + 1) % n
      /\ page_order' = [page_order EXCEPT ![h] = p]
      /\ page_order \in [Frames -> Pages \cup {None}]
  BY <1>2, SizeAssumption DEF IndInv, TypeOK, ReplaceOldest, Fault, Frames
<1>4. frame_index' = IF h + 1 = n THEN 0 ELSE h + 1
  BY <1>3, NextIndex
<1>5. /\ \A k \in 1 .. n : Resident[k] = page_order[Place(k)]
      /\ \A k \in 1 .. n : Place(k) = IF h + k - 1 < n THEN h + k - 1 ELSE h + k - 1 - n
  BY <1>2, <1>3, ResidentElements, PlacesAreFramesInUse
<1>6. /\ \A k \in 1 .. n : Resident'[k] = page_order'[Place(k)']
      /\ \A k \in 1 .. n : Place(k)' = IF frame_index' + k - 1 < n THEN frame_index' + k - 1
                                       ELSE frame_index' + k - 1 - n
  <2>1. ResidentIsRing'
    BY <1>1, ResidentRing, PTL
  <2> QED
    BY <2>1, <1>3 DEF ResidentIsRing
<1> HIDE DEF n
<1>7. Resident'[n] = p
  <2>1. n \in 1 .. n
    BY <1>3
  <2>2. Place(n)' = h
    BY <2>1, <1>3, <1>4, <1>6
  <2> QED
    BY <2>1, <2>2, <1>3, <1>6
<1>8. ASSUME NEW k \in 1 .. n - 1
      PROVE  Resident'[k] = Resident[k + 1]
  <2>1. k \in 1 .. n /\ k + 1 \in 1 .. n
    BY <1>3
  <2>2. Place(k)' = Place(k + 1)
    <3>1. Place(k)' = IF frame_index' + k - 1 < n THEN frame_index' + k - 1
                      ELSE frame_index' + k - 1 - n
      BY <2>1, <1>6
    <3>2. Place(k + 1) = IF h + (k + 1) - 1 < n THEN h + (k + 1) - 1
                         ELSE h + (k + 1) - 1 - n
      BY <2>1, <1>5
    <3> QED
      BY <2>1, <3>1, <3>2, <1>3, <1>4
  <2>3. Place(k + 1) # h /\ Place(k + 1) \in Frames
    BY <2>1, <1>3, <1>5
  <2>4. page_order'[Place(k + 1)] = page_order[Place(k + 1)]
    BY <2>3, <1>3
  <2> QED
    BY <2>1, <2>2, <2>4, <1>5, <1>6
<1> QED
  BY <1>3, <1>7, <1>8 DEF n

LEMMA ReplaceIsReplace ==
  ASSUME IndInv, NEW p \in Pages, ReplaceOldest(p)
  PROVE  Paging!Access(p)
<1>1. IndInv'
  BY ReplaceOldestKeepsIndInv
<1>2. ResidentOK /\ ResidentOK'
  BY <1>1, ResidentType, PTL
<1>3. /\ next_frame = NUM_FRAMES /\ next_frame' = NUM_FRAMES /\ NUM_FRAMES # 0
      /\ Resident'[NUM_FRAMES] = p
      /\ \A k \in 1 .. NUM_FRAMES - 1 : Resident'[k] = Resident[k + 1]
  BY ReplaceQueues, SizeAssumption
<1>4. Resident' = Append(Tail(Resident), p)
  BY <1>2, <1>3, AppendToTailIs DEF ResidentOK
<1>5. ~ Paging!IsResident(p)
  BY IsResidentIsMapped DEF ReplaceOldest, Fault
<1>6. Len(Resident) = NUM_FRAMES
  BY <1>2, <1>3 DEF ResidentOK
<1>7. /\ page_faults' = page_faults + 1 /\ total_addresses' = total_addresses + 1
      /\ out'.byte = p
  BY <1>1 DEF IndInv, AnswersWithRightPage, ReplaceOldest, Fault, Answer
<1> QED
  BY <1>4, <1>5, <1>6, <1>7 DEF Paging!Access, Paging!Replace

(* Every translation is an access of demand paging to the same page.       *)
LEMMA NextMapsToNext == IndInv /\ [Next]_vars => [Paging!Next]_(Paging!vars)
<1> SUFFICES ASSUME IndInv, [Next]_vars PROVE [Paging!Next]_(Paging!vars)
  OBVIOUS
<1>1. ASSUME NEW line \in Lines, Translate(PageNumber(line))
      PROVE  Paging!Next
  <2>1. PICK p \in Pages : Translate(p)
    BY <1>1, PageNumberType
  <2>2. Paging!Access(p)
    BY <2>1, HitIsHit, LoadIsLoad, ReplaceIsReplace DEF Translate
  <2> QED
    BY <2>2 DEF Paging!Next
<1>2. CASE UNCHANGED vars
  BY <1>2 DEF vars, paging, Resident, Paging!vars
<1> QED
  BY <1>1, <1>2 DEF Next

(* With its TLB, tables and frames hidden the simulator is FIFO demand     *)
(* paging: it faults exactly on the pages that are not in memory, the      *)
(* oldest page makes room, and every answer is of the page asked for.      *)
THEOREM IsDemandPaging == Spec => ImplementsDemandPaging
BY InitMapsToInit, NextMapsToNext, IndInvHolds, PTL
   DEF Spec, ImplementsDemandPaging, Paging!Spec
=============================================================================
