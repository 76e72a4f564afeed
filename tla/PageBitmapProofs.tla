-------------------------- MODULE PageBitmapProofs --------------------------
(***************************************************************************)
(* The properties of PageBitmap, proved for every page size, every size    *)
(* of the kernel and every boot information the assumptions allow; behind  *)
(* them those of Multiboot, for tags of any number, sizes and order.       *)
(***************************************************************************)
EXTENDS Multiboot, WellFoundedInduction, TLAPS

LEMMA DivBounds ==
  ASSUME NEW a \in Nat, NEW b \in Nat \ {0}
  PROVE  /\ a \div b \in Nat
         /\ (a \div b) * b <= a
         /\ a < (a \div b) * b + b
OBVIOUS

LEMMA MulMono ==
  ASSUME NEW a \in Nat, NEW b \in Nat, NEW c \in Nat, a <= b
  PROVE  a * c <= b * c /\ a * c \in Nat /\ b * c \in Nat
OBVIOUS

LEMMA DivUnique ==
  ASSUME NEW a \in Nat, NEW b \in Nat \ {0}, NEW q \in Nat, q * b <= a, a < q * b + b
  PROVE  a \div b = q
<1>1. PICK p \in Nat : p = a \div b /\ p * b <= a /\ a < p * b + b
  BY DivBounds
<1>2. ~ p < q
  <2>1. p < q => (p + 1) * b <= q * b
    BY <1>1, MulMono
  <2>2. (p + 1) * b = p * b + b /\ p * b \in Nat /\ q * b \in Nat
    BY <1>1
  <2> QED  BY <1>1, <2>1, <2>2
<1>3. ~ q < p
  <2>1. q < p => (q + 1) * b <= p * b
    BY <1>1, MulMono
  <2>2. (q + 1) * b = q * b + b /\ p * b \in Nat /\ q * b \in Nat
    BY <1>1
  <2> QED  BY <1>1, <2>1, <2>2
<1> QED  BY <1>1, <1>2, <1>3

LEMMA RowAndBit ==
  ASSUME NEW i \in Nat
  PROVE  /\ i \div 8 \in Nat
         /\ i % 8 \in 0 .. 7
         /\ i = (i \div 8) * 8 + (i % 8)
OBVIOUS

Bits == 0 .. BITS_PER_ROW - 1

\* The sizes init_pmm computes are numbers, and the rows cover no more than
\* the memory there is.
LEMMA SizeFacts ==
  ASSUME boot \in BootInfos
  PROVE  /\ MemorySize \in Nat
         /\ Rows \in Nat
         /\ Rows * BITS_PER_ROW \in Nat
         /\ Rows * BITS_PER_ROW * PageSize <= MemorySize
         /\ MemorySize <= UpperBase + boot.mem_upper
         /\ boot.mem_upper \in Nat
         /\ Rows + PageSize <= Slack
<1>1. IsBootInfo(boot) /\ Rows + PageSize <= Slack
  BY BootAssumption, BitmapAssumption DEF Rows, MemorySize
<1>2. /\ MemorySize \in Nat /\ boot.mem_upper \in Nat
      /\ MemorySize <= UpperBase + boot.mem_upper
  BY <1>1, MachineAssumption DEF IsBootInfo, MemorySize
<1> DEFINE pages == MemorySize \div PageSize
<1>3. pages \in Nat /\ pages * PageSize <= MemorySize
  BY <1>2, DivBounds, MachineAssumption
<1>4. Rows \in Nat /\ Rows * 8 <= pages
  <2> HIDE DEF pages
  <2>1. pages \div 8 \in Nat /\ (pages \div 8) * 8 <= pages
    BY <1>3, DivBounds
  <2>2. Rows = pages \div 8
    BY DEF Rows, BITS_PER_ROW, pages
  <2> QED  BY <2>1, <2>2
<1>5. (Rows * 8) * PageSize <= pages * PageSize
  <2> HIDE DEF pages
  <2> QED  BY <1>3, <1>4, MulMono, MachineAssumption
<1>6. (Rows * 8) * PageSize \in Nat /\ pages * PageSize \in Nat
  <2> HIDE DEF pages
  <2> QED  BY <1>3, <1>4, MachineAssumption
<1> QED
  <2> HIDE DEF pages
  <2> QED  BY <1>1, <1>2, <1>3, <1>4, <1>5, <1>6 DEF BITS_PER_ROW

LEMMA RangeUsedType ==
  ASSUME NEW n \in Nat, NEW bm \in [0 .. n - 1 -> SUBSET Bits],
         NEW start, NEW end
  PROVE  /\ RangeUsed(bm, start, end) \in [0 .. n - 1 -> SUBSET Bits]
         /\ \A r \in 0 .. n - 1 : bm[r] \subseteq RangeUsed(bm, start, end)[r]
BY DEF RangeUsed, Bits

----------------------------------------------------------------------------
(***************************************************************************)
(* Type correctness.                                                       *)
(***************************************************************************)
LEMMA TypeInit == Init => TypeOK
BY DEF Init, TypeOK, PageIndex

LEMMA TypeStep == TypeOK /\ [Next]_vars => TypeOK'
<1> SUFFICES ASSUME TypeOK, [Next]_vars PROVE TypeOK'
  OBVIOUS
<1> USE DEF TypeOK
<1>1. MemorySize \in Nat /\ Rows \in Nat /\ Rows * BITS_PER_ROW \in Nat
  BY SizeFacts
<1>2. CASE init_bitmap
  <2>1. boot' = boot /\ Rows' = Rows /\ held' = {} /\ result' \in Nat
    BY <1>2 DEF init_bitmap, Rows, MemorySize, PageIndex
  <2>2. [r \in 0 .. Rows - 1 |-> {}] \in [0 .. Rows - 1 -> SUBSET Bits]
    OBVIOUS
  <2>3. bitmap' \in [0 .. Rows - 1 -> SUBSET Bits]
    BY <1>1, <1>2, <2>2, RangeUsedType DEF init_bitmap
  <2> QED
    BY <1>2, <2>1, <2>3 DEF init_bitmap, Bits
<1>3. CASE parse_mmap
  <2>1. boot' = boot /\ Rows' = Rows /\ total_pages' = total_pages
    BY <1>3 DEF parse_mmap, Rows, MemorySize
  <2>2. bitmap \in [0 .. Rows - 1 -> SUBSET Bits]
    BY <1>3 DEF parse_mmap, Bits
  <2>3. \A a, e : \A r \in 0 .. Rows - 1 : RangeUsed(bitmap, a, e)[r] \subseteq Bits
    BY <1>1, <2>2, RangeUsedType
  <2>4. bitmap' \in [0 .. Rows - 1 -> SUBSET Bits]
    BY <1>3, <2>2, <2>3 DEF parse_mmap, ReservedBits
  <2> QED
    BY <1>3, <2>1, <2>4 DEF parse_mmap, Bits, PageIndex
<1>4. CASE allocate_physical_page
  <2>1. /\ boot' = boot /\ phase' = "ready" /\ phase = "ready"
        /\ Rows' = Rows /\ total_pages' = total_pages
    BY <1>4 DEF allocate_physical_page, Rows, MemorySize
  <2>2. PICK i \in PageIndex :
          set_page_used(i) /\ result' = i * PageSize /\ held' = held \cup {i}
    BY <1>4 DEF allocate_physical_page, FreePages
  <2>3. i \in Nat /\ result' \in Nat
    BY <2>2, MachineAssumption DEF PageIndex
  <2>4. i % BITS_PER_ROW \in Bits
    BY <2>3, RowAndBit DEF Bits, BITS_PER_ROW
  <2>5. bitmap' \in [0 .. Rows - 1 -> SUBSET Bits]
    BY <2>1, <2>2, <2>4 DEF set_page_used, Bits
  <2> QED
    BY <2>1, <2>2, <2>3, <2>5 DEF Bits, PageIndex
<1>5. CASE allocate_exhausted
  BY <1>5 DEF allocate_exhausted, PageIndex, Rows, MemorySize
<1>6. CASE free_page
  <2>1. /\ boot' = boot /\ phase' = "ready" /\ phase = "ready"
        /\ Rows' = Rows /\ total_pages' = total_pages /\ result' = result
    BY <1>6 DEF free_page, Rows, MemorySize
  <2>2. bitmap' \in [0 .. Rows - 1 -> SUBSET Bits] /\ held' \subseteq held
    BY <1>6, <2>1 DEF free_page, set_page_free, Bits
  <2> QED
    BY <2>1, <2>2 DEF Bits, PageIndex
<1>7. CASE UNCHANGED vars
  BY <1>7 DEF vars, PageIndex, Rows, MemorySize
<1> QED
  BY <1>2, <1>3, <1>4, <1>5, <1>6, <1>7 DEF Next

\* The variables of the allocator keep their types.
THEOREM TypeCorrect == Spec => []TypeOK
BY TypeInit, TypeStep, PTL DEF Spec
----------------------------------------------------------------------------
(***************************************************************************)
(* What the two bit operations do to the set of marked pages.              *)
(***************************************************************************)
LEMMA RowInRange ==
  ASSUME NEW n \in Nat, NEW i \in 0 .. n * 8 - 1
  PROVE  i \div 8 \in 0 .. n - 1
BY RowAndBit

LEMMA SetUsedEffect ==
  ASSUME TypeOK, phase # "init_bitmap",
         NEW i \in PageIndex, set_page_used(i),
         NEW j \in PageIndex
  PROVE  Marked(j)' <=> j = i \/ Marked(j)
<1>1. Rows \in Nat /\ bitmap \in [0 .. Rows - 1 -> SUBSET (0 .. 7)]
      /\ PageIndex = 0 .. Rows * 8 - 1
  BY SizeFacts DEF TypeOK, PageIndex, BITS_PER_ROW
<1>2. i \in Nat /\ j \in Nat /\ i \div 8 \in 0 .. Rows - 1 /\ j \div 8 \in 0 .. Rows - 1
  BY <1>1, RowInRange
<1>3. i = j <=> i \div 8 = j \div 8 /\ i % 8 = j % 8
  BY <1>2, RowAndBit
<1>4. bitmap' = [bitmap EXCEPT ![i \div 8] = @ \cup {i % 8}]
  BY DEF set_page_used, BITS_PER_ROW
<1>5. bitmap'[j \div 8] = IF i \div 8 = j \div 8
                            THEN bitmap[i \div 8] \cup {i % 8} ELSE bitmap[j \div 8]
  BY <1>1, <1>2, <1>4
<1> QED
  BY <1>3, <1>5 DEF Marked, is_page_free, BITS_PER_ROW

LEMMA SetFreeEffect ==
  ASSUME TypeOK, phase # "init_bitmap",
         NEW i \in PageIndex, set_page_free(i),
         NEW j \in PageIndex
  PROVE  Marked(j)' <=> j # i /\ Marked(j)
<1>1. Rows \in Nat /\ bitmap \in [0 .. Rows - 1 -> SUBSET (0 .. 7)]
      /\ PageIndex = 0 .. Rows * 8 - 1
  BY SizeFacts DEF TypeOK, PageIndex, BITS_PER_ROW
<1>2. i \in Nat /\ j \in Nat /\ i \div 8 \in 0 .. Rows - 1 /\ j \div 8 \in 0 .. Rows - 1
  BY <1>1, RowInRange
<1>3. i = j <=> i \div 8 = j \div 8 /\ i % 8 = j % 8
  BY <1>2, RowAndBit
<1>4. bitmap' = [bitmap EXCEPT ![i \div 8] = @ \ {i % 8}]
  BY DEF set_page_free, BITS_PER_ROW
<1>5. bitmap'[j \div 8] = IF i \div 8 = j \div 8
                            THEN bitmap[i \div 8] \ {i % 8} ELSE bitmap[j \div 8]
  BY <1>1, <1>2, <1>4
<1> QED
  BY <1>3, <1>5 DEF Marked, is_page_free, BITS_PER_ROW

\* A range that starts at address 0 marks every page it covers in full.
LEMMA RangeUsedMarks ==
  ASSUME NEW n \in Nat, NEW bm \in [0 .. n - 1 -> SUBSET Bits],
         NEW end \in Nat, NEW i \in 0 .. n * 8 - 1, i < end \div PageSize
  PROVE  i % 8 \in RangeUsed(bm, 0, end)[i \div 8]
<1>1. i \in Nat /\ i \div 8 \in 0 .. n - 1 /\ i % 8 \in 0 .. 7
      /\ (i \div 8) * 8 + (i % 8) = i
  BY RowAndBit, RowInRange
<1>2. 0 \div PageSize = 0
  BY MachineAssumption
<1>3. i % 8 \in {k \in Bits : /\ 0 \div PageSize <= (i \div 8) * 8 + k
                              /\ (i \div 8) * 8 + k < end \div PageSize}
  BY <1>1, <1>2 DEF Bits, BITS_PER_ROW
<1> QED
  BY <1>1, <1>3 DEF RangeUsed, Bits, BITS_PER_ROW
----------------------------------------------------------------------------
(***************************************************************************)
(* The inductive invariant, and what follows from it.                      *)
(***************************************************************************)
LEMMA InvInit == Init => Inv
BY TypeInit DEF Init, Inv, PageIndex

LEMMA InvStep == Inv /\ [Next]_vars => Inv'
<1> SUFFICES ASSUME Inv, [Next]_vars PROVE Inv'
  OBVIOUS
<1>1. TypeOK /\ TypeOK'
  BY TypeStep DEF Inv
<1>2. Rows \in Nat /\ FirstPage' = FirstPage
  BY <1>1, SizeFacts DEF TypeOK, FirstPage
<1>3. CASE init_bitmap
  <2>1. PageIndex' = 0 .. Rows * 8 - 1 /\ held' = held /\ held = {} /\ phase' = "parse_mmap"
    BY <1>3 DEF init_bitmap, PageIndex, BITS_PER_ROW, Inv
  <2>2. KernelEnd + Slack \in Nat
    BY MachineAssumption
  <2>3. ASSUME NEW i \in PageIndex', i < FirstPage PROVE Marked(i)'
    <3>1. [r \in 0 .. Rows - 1 |-> {}] \in [0 .. Rows - 1 -> SUBSET Bits]
      OBVIOUS
    <3>2. i % 8 \in bitmap'[i \div 8]
      BY <1>2, <1>3, <2>1, <2>2, <2>3, <3>1, RangeUsedMarks DEF init_bitmap, FirstPage
    <3> QED
      BY <3>2 DEF Marked, is_page_free, BITS_PER_ROW
  <2> QED
    BY <1>1, <1>2, <2>1, <2>3 DEF Inv
<1>4. CASE parse_mmap
  <2>1. PageIndex' = PageIndex /\ held' = held /\ held = {} /\ phase # "init_bitmap"
    BY <1>4 DEF parse_mmap, PageIndex, Inv
  <2>2. ASSUME NEW i \in PageIndex, Marked(i) PROVE Marked(i)'
    <3>1. i \div 8 \in DOMAIN bitmap
      BY <1>1, <1>2, <2>1, RowInRange DEF TypeOK, PageIndex, BITS_PER_ROW
    <3>2. bitmap[i \div 8] \subseteq bitmap'[i \div 8]
      BY <1>4, <3>1 DEF parse_mmap
    <3> QED
      BY <2>2, <3>2 DEF Marked, is_page_free, BITS_PER_ROW
  <2> QED
    BY <1>1, <1>2, <2>1, <2>2 DEF Inv
<1>5. CASE allocate_physical_page
  <2>1. phase = "ready" /\ phase' = "ready" /\ PageIndex' = PageIndex
    BY <1>5 DEF allocate_physical_page, PageIndex
  <2>2. PICK i \in PageIndex : /\ is_page_free(i)
                               /\ set_page_used(i)
                               /\ held' = held \cup {i}
    BY <1>5 DEF allocate_physical_page, FreePages
  <2>3. \A j \in PageIndex : Marked(j)' <=> j = i \/ Marked(j)
    BY <1>1, <2>1, <2>2, SetUsedEffect
  <2>4. FirstPage <= i
    <3>1. FirstPage \in Nat /\ i \in Nat
      BY MachineAssumption, DivBounds DEF FirstPage, PageIndex
    <3> QED
      BY <2>1, <2>2, <3>1 DEF Inv, Marked
  <2>5. held \subseteq PageIndex
    BY <1>1 DEF TypeOK
  <2> QED
    BY <1>1, <1>2, <2>1, <2>2, <2>3, <2>4, <2>5 DEF Inv
<1>6. CASE allocate_exhausted
  BY <1>1, <1>2, <1>6 DEF allocate_exhausted, Inv, Marked, is_page_free, PageIndex
<1>7. CASE free_page
  <2>1. phase = "ready" /\ phase' = "ready" /\ PageIndex' = PageIndex
    BY <1>7 DEF free_page, PageIndex
  <2>2. PICK i \in held : set_page_free(i) /\ held' = held \ {i}
    BY <1>7 DEF free_page
  <2>3. held \subseteq PageIndex
    BY <1>1 DEF TypeOK
  <2>4. \A j \in PageIndex : Marked(j)' <=> j # i /\ Marked(j)
    BY <1>1, <2>1, <2>2, <2>3, SetFreeEffect
  <2>5. \A j \in PageIndex : j < FirstPage => j # i
    <3>1. FirstPage \in Nat /\ FirstPage <= i /\ i \in Nat
      BY <2>2, <2>3, MachineAssumption, DivBounds DEF FirstPage, PageIndex, Inv
    <3> QED
      BY <3>1 DEF PageIndex
  <2> QED
    BY <1>1, <1>2, <2>1, <2>2, <2>3, <2>4, <2>5 DEF Inv
<1>8. CASE UNCHANGED vars
  BY <1>1, <1>2, <1>8 DEF vars, Inv, Marked, is_page_free, PageIndex
<1> QED
  BY <1>3, <1>4, <1>5, <1>6, <1>7, <1>8 DEF Next

LEMMA Invariance == Spec => []Inv
BY InvInit, InvStep, PTL DEF Spec

LEMMA InvImpliesUsable == Inv => HeldPagesAreUsable
<1> SUFFICES ASSUME Inv, NEW p \in held
             PROVE  /\ KernelEnd + Rows <= p * PageSize
                    /\ (p + 1) * PageSize <= UpperBase + boot.mem_upper
                    /\ \A i \in DOMAIN boot.mmap :
                         boot.mmap[i].type # AVAILABLE =>
                            ClearOf(p, boot.mmap[i].addr, boot.mmap[i].len)
  BY DEF HeldPagesAreUsable
<1>1. TypeOK /\ phase = "ready" /\ FirstPage <= p
  BY DEF Inv
<1>2. /\ boot \in BootInfos /\ Rows \in Nat /\ Rows * 8 \in Nat
      /\ Rows * 8 * PageSize <= UpperBase + boot.mem_upper
      /\ UpperBase + boot.mem_upper \in Nat
      /\ Rows + PageSize <= Slack
      /\ Rows * 8 * PageSize \in Nat
  <2>1. boot \in BootInfos
    BY <1>1 DEF TypeOK
  <2>2. /\ Rows \in Nat
        /\ Rows * 8 * PageSize <= MemorySize /\ MemorySize \in Nat
        /\ MemorySize <= UpperBase + boot.mem_upper
        /\ boot.mem_upper \in Nat
        /\ Rows + PageSize <= Slack
    BY <2>1, SizeFacts DEF BITS_PER_ROW
  <2>3. Rows * 8 \in Nat /\ Rows * 8 * PageSize \in Nat
    BY <2>2, MachineAssumption
  <2> QED
    BY <2>1, <2>2, <2>3, MachineAssumption
<1>3. p \in Nat /\ p + 1 \in Nat /\ p + 1 <= Rows * 8
  BY <1>1, <1>2 DEF TypeOK, PageIndex, BITS_PER_ROW
<1>4. (p + 1) * PageSize <= UpperBase + boot.mem_upper
  <2>1. (p + 1) * PageSize <= (Rows * 8) * PageSize
    BY <1>2, <1>3, MulMono, MachineAssumption
  <2> QED
    BY <1>2, <1>3, <2>1, MachineAssumption
<1>5. KernelEnd + Rows <= p * PageSize
  <2>1. /\ FirstPage \in Nat
        /\ KernelEnd + Slack < FirstPage * PageSize + PageSize
    BY MachineAssumption, DivBounds DEF FirstPage
  <2>2. FirstPage * PageSize <= p * PageSize /\ FirstPage * PageSize \in Nat /\ p * PageSize \in Nat
    BY <1>1, <1>3, <2>1, MulMono, MachineAssumption
  <2> QED
    BY <1>2, <2>1, <2>2, MachineAssumption
<1>6. ASSUME NEW i \in DOMAIN boot.mmap, boot.mmap[i].type # AVAILABLE
      PROVE  ClearOf(p, boot.mmap[i].addr, boot.mmap[i].len)
  <2>1. \/ boot.mmap[i].addr + boot.mmap[i].len <= UpperBase
        \/ UpperBase + boot.mem_upper <= boot.mmap[i].addr
    BY <1>2, <1>6, BootAssumption DEF IsBootInfo
  <2>2. boot.mmap[i].addr \in Nat /\ boot.mmap[i].len \in Nat
    <3>1. boot.mmap \in Seq(Region)
      BY <1>2, BootAssumption DEF IsBootInfo
    <3>2. boot.mmap[i] \in Region
      BY <3>1, <1>6
    <3> QED
      BY <3>2 DEF Region
  <2>3. p * PageSize \in Nat /\ (p + 1) * PageSize \in Nat
    BY <1>3, MachineAssumption
  <2> QED
    BY <1>2, <1>4, <1>5, <2>1, <2>2, <2>3, MachineAssumption DEF ClearOf
<1> QED
  BY <1>4, <1>5, <1>6

\* No page given out overlaps the kernel, the bitmap or a region of the
\* memory map that is not available, on any machine GRUB may describe.
THEOREM PagesUsable == Spec => []HeldPagesAreUsable
BY Invariance, InvImpliesUsable, PTL

LEMMA StepConserves == Inv /\ [Next]_vars => (phase = "ready" => (FreePages \cup held)' = FreePages \cup held)
<1> SUFFICES ASSUME Inv, [Next]_vars, phase = "ready"
             PROVE  (FreePages \cup held)' = FreePages \cup held
  OBVIOUS
<1>1. TypeOK /\ held \subseteq PageIndex
  BY DEF Inv, TypeOK
<1>2. CASE allocate_physical_page
  <2>1. PICK i \in FreePages : set_page_used(i) /\ held' = held \cup {i}
    BY <1>2 DEF allocate_physical_page
  <2>2. PageIndex' = PageIndex /\ i \in PageIndex
    BY <1>2 DEF allocate_physical_page, PageIndex, FreePages
  <2>3. \A j \in PageIndex : Marked(j)' <=> j = i \/ Marked(j)
    BY <1>1, <2>1, <2>2, SetUsedEffect
  <2>4. FreePages' = FreePages \ {i}
    BY <2>2, <2>3 DEF FreePages, Marked
  <2> QED
    BY <2>1, <2>4
<1>3. CASE free_page
  <2>1. PICK i \in held : set_page_free(i) /\ held' = held \ {i}
    BY <1>3 DEF free_page
  <2>2. PageIndex' = PageIndex /\ i \in PageIndex
    BY <1>1, <1>3 DEF free_page, PageIndex
  <2>3. \A j \in PageIndex : Marked(j)' <=> j # i /\ Marked(j)
    BY <1>1, <2>1, <2>2, SetFreeEffect
  <2>4. FreePages' = FreePages \cup {i}
    BY <2>2, <2>3 DEF FreePages, Marked
  <2> QED
    BY <2>1, <2>4
<1>4. CASE allocate_exhausted
  BY <1>4 DEF allocate_exhausted, FreePages, PageIndex, is_page_free
<1>5. CASE UNCHANGED vars
  BY <1>5 DEF vars, FreePages, PageIndex, is_page_free
<1>6. ~init_bitmap /\ ~parse_mmap
  BY DEF init_bitmap, parse_mmap
<1> QED
  BY <1>2, <1>3, <1>4, <1>5, <1>6 DEF Next

\* Once the allocator is ready no step loses a page, or gives it twice.
THEOREM Conservation == Spec => PagesConserved
BY Invariance, StepConserves, PTL DEF Spec, PagesConserved
----------------------------------------------------------------------------
(***************************************************************************)
(* The bitmap implements the abstract pool of pages.                       *)
(***************************************************************************)
LEMMA DivOfMultiple ==
  ASSUME NEW i \in Nat, NEW b \in Nat \ {0}
  PROVE  (i * b) \div b = i
<1>1. i * b \in Nat /\ i * b < i * b + b
  OBVIOUS
<1> QED  BY <1>1, DivUnique

\* Page 0, whose address is the answer "no page left", is never free.
LEMMA PageZeroTaken == Inv /\ phase = "ready" => FreePages \subseteq Nat \ {0}
<1> SUFFICES ASSUME Inv, phase = "ready" PROVE FreePages \subseteq Nat \ {0}
  OBVIOUS
<1>1. FirstPage \in Nat /\ KernelEnd + Slack < FirstPage * PageSize + PageSize
  BY MachineAssumption, DivBounds DEF FirstPage
<1>2. FirstPage # 0
  BY <1>1, MachineAssumption
<1>3. 0 \in PageIndex => Marked(0)
  BY <1>1, <1>2 DEF Inv
<1> QED
  BY <1>3 DEF FreePages, PageIndex, Marked

LEMMA PoolInit == Init => Pool!Init
<1>1. 0 \div PageSize = 0
  BY MachineAssumption
<1> QED
  BY <1>1 DEF Init, Pool!Init, NoPage

LEMMA PoolStep == Inv /\ Inv' /\ [Next]_vars => [Pool!Next]_(Pool!poolVars)
<1> SUFFICES ASSUME Inv, Inv', [Next]_vars
             PROVE  Pool!Next \/ UNCHANGED Pool!poolVars
  OBVIOUS
<1>0. TypeOK /\ held \subseteq PageIndex /\ PageIndex \subseteq Nat
  BY DEF Inv, TypeOK, PageIndex
<1>1. CASE init_bitmap
  BY <1>1 DEF init_bitmap, Pool!poolVars
<1>2. CASE parse_mmap
  <2>1. phase # "ready" /\ phase' = "ready" /\ held' = held /\ result' = result
    BY <1>2 DEF parse_mmap
  <2>2. FreePages' \subseteq Nat \ {0}
    <3>1. (Inv /\ phase = "ready" => FreePages \subseteq Nat \ {0})'
      BY PageZeroTaken, PTL
    <3> QED
      BY <2>1, <3>1
  <2>3. Pool!Fill
    BY <2>1, <2>2 DEF Pool!Fill
  <2> QED
    BY <2>3 DEF Pool!Next
<1>3. CASE allocate_physical_page
  <2>1. phase = "ready" /\ phase' = "ready" /\ PageIndex' = PageIndex
    BY <1>3 DEF allocate_physical_page, PageIndex
  <2>2. PICK i \in FreePages : /\ set_page_used(i)
                               /\ result' = i * PageSize
                               /\ held' = held \cup {i}
    BY <1>3 DEF allocate_physical_page
  <2>3. i \in PageIndex /\ i \in Nat
    BY <1>0, <2>2 DEF FreePages
  <2>4. \A j \in PageIndex : Marked(j)' <=> j = i \/ Marked(j)
    BY <1>0, <2>1, <2>2, <2>3, SetUsedEffect
  <2>5. FreePages' = FreePages \ {i}
    BY <2>1, <2>4 DEF FreePages, Marked
  <2>6. result' \div PageSize = i
    BY <2>2, <2>3, DivOfMultiple, MachineAssumption
  <2>7. Pool!Grant(i)
    BY <2>1, <2>2, <2>5, <2>6 DEF Pool!Grant
  <2> QED
    BY <2>1, <2>2, <2>7 DEF Pool!Next
<1>4. CASE allocate_exhausted
  <2>1. /\ phase = "ready" /\ phase' = "ready" /\ FreePages' = FreePages
        /\ FreePages = {} /\ held' = held /\ result' = 0
    BY <1>4 DEF allocate_exhausted, FreePages, PageIndex, is_page_free
  <2>2. 0 \div PageSize = 0
    BY MachineAssumption
  <2>3. Pool!Refuse
    BY <2>1, <2>2 DEF Pool!Refuse, NoPage
  <2> QED
    BY <2>3 DEF Pool!Next
<1>5. CASE free_page
  <2>1. /\ phase = "ready" /\ phase' = "ready" /\ PageIndex' = PageIndex
        /\ result' = result
    BY <1>5 DEF free_page, PageIndex
  <2>2. PICK i \in held : set_page_free(i) /\ held' = held \ {i}
    BY <1>5 DEF free_page
  <2>3. \A j \in PageIndex : Marked(j)' <=> j # i /\ Marked(j)
    BY <1>0, <2>1, <2>2, SetFreeEffect
  <2>4. FreePages' = FreePages \cup {i}
    BY <1>0, <2>1, <2>2, <2>3 DEF FreePages, Marked
  <2>5. Pool!Release(i)
    BY <2>1, <2>2, <2>4 DEF Pool!Release
  <2> QED
    BY <2>2, <2>5 DEF Pool!Next
<1>6. CASE UNCHANGED vars
  BY <1>6 DEF vars, Pool!poolVars, FreePages, PageIndex, is_page_free
<1> QED
  BY <1>1, <1>2, <1>3, <1>4, <1>5, <1>6 DEF Next

\* Every behaviour of the bitmap is one of the abstract pool: one client per
\* page, and an answer of 0 exactly when no page is left.
THEOREM Implementation == Spec => ImplementsPool
BY Invariance, PoolInit, PoolStep, PTL DEF Spec, ImplementsPool, Pool!Spec

----------------------------------------------------------------------------
(***************************************************************************)
(* Induction: what holds of 0, and of n + 1 if of n, holds of each number. *)
(***************************************************************************)
LEMMA LeastNatural ==
  ASSUME NEW T \in SUBSET Nat, T # {}
  PROVE  \E n \in T : \A m \in T : n <= m
<1> DEFINE R == OpToRel(<, Nat)
<1>1. \A n, m \in Nat : m < n => <<m, n>> \in R
  BY DEF OpToRel
<1>2. IsWellFoundedOn(R, Nat)
  BY NatLessThanWellFounded
<1> HIDE DEF R
<1>3. PICK n \in T : \A m \in T : ~ (<<m, n>> \in R)
  BY <1>2, WFMin
<1>4. ASSUME NEW m \in T
      PROVE  n <= m
  <2>1. m \in Nat /\ n \in Nat /\ ~ (m < n)
    BY <1>1, <1>3
  <2> QED  BY <2>1
<1> QED  BY <1>4

LEMMA SetInduction ==
  ASSUME NEW S, 0 \in S, \A n \in Nat : n \in S => n + 1 \in S
  PROVE  \A n \in Nat : n \in S
<1> DEFINE T == {n \in Nat : n \notin S}
<1> SUFFICES ASSUME T # {}
             PROVE  FALSE
  OBVIOUS
<1>1. PICK n \in T : \A m \in T : n <= m
  BY LeastNatural
<1>2. n # 0 /\ n \in Nat
  BY <1>1
<1>3. n - 1 \in Nat /\ n - 1 \notin T
  BY <1>1, <1>2
<1> QED  BY <1>1, <1>2, <1>3

----------------------------------------------------------------------------
(***************************************************************************)
(* Multiboot: where the tags are.                                          *)
(***************************************************************************)
LEMMA PaddedIsAligned ==
  ASSUME NEW n \in Nat
  PROVE  /\ Padded(n) \in Nat /\ n <= Padded(n)
         /\ \E q \in Nat : Padded(n) = q * ALIGN
<1> DEFINE a == n + ALIGN - 1
           q == a \div ALIGN
<1>1. ALIGN \in Nat \ {0} /\ a \in Nat
  BY InfoAssumption
<1>2. q \in Nat /\ q * ALIGN <= a /\ a < q * ALIGN + ALIGN
  BY <1>1, DivBounds
<1>3. Padded(n) = q * ALIGN
  BY DEF Padded
<1> HIDE DEF q
<1>4. q * ALIGN \in Nat
  BY <1>1, <1>2
<1> QED  BY <1>1, <1>2, <1>3, <1>4

\* (a + size + 7) & ~7 is what it takes from one tag to the next one.
LEMMA PaddedFromAligned ==
  ASSUME NEW q \in Nat, NEW n \in Nat
  PROVE  Padded(q * ALIGN + n) = q * ALIGN + Padded(n)
<1> DEFINE a == n + ALIGN - 1
           p == a \div ALIGN
<1>1. ALIGN \in Nat \ {0} /\ a \in Nat /\ q * ALIGN \in Nat
  BY InfoAssumption
<1>2. p \in Nat /\ p * ALIGN <= a /\ a < p * ALIGN + ALIGN
  BY <1>1, DivBounds
<1> HIDE DEF p, a
<1>3. (q + p) * ALIGN = q * ALIGN + p * ALIGN /\ p * ALIGN \in Nat /\ q + p \in Nat
  BY <1>1, <1>2
<1>4. (q * ALIGN + a) \div ALIGN = q + p
  <2> DEFINE b == q * ALIGN + a
  <2>1. b \in Nat /\ (q + p) * ALIGN <= b /\ b < (q + p) * ALIGN + ALIGN
    BY <1>1, <1>2, <1>3
  <2> HIDE DEF b
  <2>2. b \div ALIGN = q + p
    BY <1>1, <1>3, <2>1, DivUnique
  <2> QED  BY <2>2 DEF b
<1>5. q * ALIGN + n + ALIGN - 1 = q * ALIGN + a
  BY <1>1 DEF a
<1>6. Padded(q * ALIGN + n) = (q + p) * ALIGN
  BY <1>4, <1>5 DEF Padded
<1>7. Padded(n) = p * ALIGN
  BY DEF Padded, p, a
<1> QED  BY <1>3, <1>6, <1>7

LEMMA TagTypes ==
  ASSUME NEW m \in Infos
  PROVE  /\ Len(m.tags) \in Nat
         /\ \A i \in 1 .. Len(m.tags) :
              /\ m.tags[i].type \in Nat \ {END}
              /\ m.tags[i].size \in Nat /\ ALIGN <= m.tags[i].size
              /\ Padded(m.tags[i].size) \in Nat
<1>1. IsInfo(m)
  BY InfoAssumption
<1>2. ASSUME NEW i \in 1 .. Len(m.tags)
      PROVE  /\ m.tags[i].type \in Nat \ {END}
             /\ m.tags[i].size \in Nat /\ ALIGN <= m.tags[i].size
             /\ Padded(m.tags[i].size) \in Nat
  <2>1. m.tags \in Seq([type : Nat, size : Nat]) /\ DOMAIN m.tags = 1 .. Len(m.tags)
    BY <1>1 DEF IsInfo
  <2>2. m.tags[i] \in [type : Nat, size : Nat]
    <3> DEFINE R == [type : Nat, size : Nat]
    <3>1. m.tags \in Seq(R)
      BY <2>1
    <3> HIDE DEF R
    <3>2. m.tags[i] \in R
      BY <3>1
    <3> QED  BY <3>2 DEF R
  <2>3. m.tags[i].type # END /\ m.tags[i].size >= ALIGN
    BY <1>1, <2>1 DEF IsInfo
  <2> QED  BY <2>2, <2>3, InfoAssumption, PaddedIsAligned
<1> QED  BY <1>1, <1>2 DEF IsInfo

\* The recursion of Offsets has a solution, so Offsets is one.
LEMMA OffsetsAre ==
  ASSUME NEW m \in Infos
  PROVE  /\ Offsets(m) \in [1 .. Len(m.tags) + 1 -> Nat]
         /\ Offsets(m)[1] = ALIGN
         /\ \A i \in 1 .. Len(m.tags) :
              Offsets(m)[i + 1] = Offsets(m)[i] + Padded(m.tags[i].size)
<1> DEFINE n == Len(m.tags)
           step(i) == Padded(m.tags[i].size)
           Is(g, k) == /\ g \in [1 .. k + 1 -> Nat] /\ g[1] = ALIGN
                       /\ \A i \in 1 .. k : g[i + 1] = g[i] + step(i)
           S == {k \in Nat : k <= n => \E g : Is(g, k)}
<1>1. n \in Nat /\ \A i \in 1 .. n : step(i) \in Nat
  BY TagTypes
<1>2. ALIGN \in Nat
  BY InfoAssumption
<1> HIDE DEF n, step
<1>3. 0 \in S
  <2>1. Is([i \in 1 .. 1 |-> ALIGN], 0)
    BY <1>2
  <2> QED  BY <2>1
<1>4. ASSUME NEW k \in Nat, k \in S, k + 1 <= n
      PROVE  \E g : Is(g, k + 1)
  <2>1. PICK g : Is(g, k)
    BY <1>1, <1>4
  <2> DEFINE h == [i \in 1 .. k + 2 |-> IF i = k + 2 THEN g[k + 1] + step(k + 1) ELSE g[i]]
  <2>2. h \in [1 .. k + 2 -> Nat]
    BY <1>1, <1>4, <2>1
  <2>3. h[1] = ALIGN
    BY <2>1
  <2>4. ASSUME NEW i \in 1 .. k + 1
        PROVE  h[i + 1] = h[i] + step(i)
    BY <2>1
  <2>5. k + 1 + 1 = k + 2
    OBVIOUS
  <2> HIDE DEF h
  <2>6. Is(h, k + 1)
    BY <2>2, <2>3, <2>4, <2>5
  <2> QED  BY <2>6
<1>5. n \in S
  <2> HIDE DEF Is
  <2>1. \A k \in Nat : k \in S => k + 1 \in S
    BY <1>1, <1>4
  <2> HIDE DEF S
  <2> QED  BY <1>1, <1>3, <2>1, SetInduction
<1>6. PICK g : Is(g, n)
  BY <1>1, <1>5
<1> DEFINE F(f) == [i \in 1 .. n + 1 |-> IF i = 1 THEN ALIGN ELSE f[i - 1] + step(i - 1)]
<1>7. g = F(g)
  <2>1. ASSUME NEW i \in 1 .. n + 1
        PROVE  g[i] = IF i = 1 THEN ALIGN ELSE g[i - 1] + step(i - 1)
    <3>1. CASE i # 1
      <4>1. i - 1 \in 1 .. n /\ i - 1 + 1 = i
        BY <1>1, <3>1
      <4> QED  BY <1>6, <3>1, <4>1
    <3> QED  BY <1>6, <3>1
  <2> QED  BY <1>6, <2>1
<1>8. Offsets(m) = CHOOSE f : f = F(f)
  BY DEF Offsets, n, step
<1>9. Offsets(m) = F(Offsets(m))
  <2> HIDE DEF F
  <2> QED  BY <1>7, <1>8
<1> HIDE DEF Is
<1> DEFINE f == Offsets(m)
           U == {k \in Nat : k <= n => f[k + 1] \in Nat}
<1> HIDE DEF f
<1>10. /\ f[1] = ALIGN
       /\ \A i \in 1 .. n : f[i + 1] = f[i] + step(i)
  <2>1. \A i \in 1 .. n + 1 : f[i] = IF i = 1 THEN ALIGN ELSE f[i - 1] + step(i - 1)
    BY <1>9 DEF f
  <2>2. 1 \in 1 .. n + 1 /\ \A i \in 1 .. n : i + 1 \in 1 .. n + 1 /\ i + 1 # 1 /\ i + 1 - 1 = i
    BY <1>1
  <2> QED  BY <2>1, <2>2
<1>11. \A k \in Nat : k \in U
  <2>1. 0 \in U
    BY <1>2, <1>10
  <2>2. ASSUME NEW k \in Nat, k \in U
        PROVE  k + 1 \in U
    BY <1>1, <1>10, <2>2
  <2> HIDE DEF U
  <2> QED  BY <2>1, <2>2, SetInduction
<1>12. f \in [1 .. n + 1 -> Nat]
  <2>1. ASSUME NEW i \in 1 .. n + 1
        PROVE  f[i] \in Nat
    <3>1. i - 1 \in Nat /\ i - 1 <= n /\ i - 1 + 1 = i
      BY <1>1
    <3>2. i - 1 \in U
      BY <1>11, <3>1
    <3> QED  BY <3>1, <3>2
  <2>2. f = [i \in 1 .. n + 1 |-> f[i]]
    BY <1>9 DEF f
  <2> QED  BY <2>1, <2>2
<1> QED  BY <1>10, <1>12 DEF f, n, step


\* Tags are aligned, and each ends before those behind it.
LEMMA TagsInOrder ==
  ASSUME NEW m \in Infos
  PROVE  /\ \A i \in 1 .. Len(m.tags) + 1 : \E q \in Nat : Offsets(m)[i] = q * ALIGN
         /\ \A j \in 1 .. Len(m.tags) + 1 : \A i \in 1 .. j - 1 :
              Offsets(m)[i] + Padded(m.tags[i].size) <= Offsets(m)[j]
<1> DEFINE n == Len(m.tags)
           at == Offsets(m)
           step(i) == Padded(m.tags[i].size)
           Aligned(j) == \E q \in Nat : at[j] = q * ALIGN
           Behind(j) == \A i \in 1 .. j - 1 : at[i] + step(i) <= at[j]
           S == {k \in Nat : k <= n => Aligned(k + 1) /\ Behind(k + 1)}
<1>1. /\ n \in Nat /\ at \in [1 .. n + 1 -> Nat] /\ at[1] = ALIGN
      /\ \A i \in 1 .. n : at[i + 1] = at[i] + step(i)
  BY OffsetsAre, TagTypes
<1>2. \A i \in 1 .. n : step(i) \in Nat /\ \E q \in Nat : step(i) = q * ALIGN
  BY TagTypes, PaddedIsAligned
<1>3. ALIGN \in Nat
  BY InfoAssumption
<1> HIDE DEF n, at, step
<1>4. 0 \in S
  <2>1. at[1] = 1 * ALIGN
    BY <1>1, <1>3
  <2> QED  BY <2>1
<1>5. ASSUME NEW k \in Nat, k \in S, k + 1 <= n
      PROVE  Aligned(k + 2) /\ Behind(k + 2)
  <2>1. k + 1 \in 1 .. n /\ Aligned(k + 1) /\ Behind(k + 1) /\ at[k + 1] \in Nat
    BY <1>1, <1>5
  <2>2. at[k + 2] = at[k + 1] + step(k + 1) /\ step(k + 1) \in Nat
    BY <1>1, <1>2, <2>1
  <2>3. Aligned(k + 2)
    <3>1. PICK q \in Nat : at[k + 1] = q * ALIGN
      BY <2>1
    <3>2. PICK p \in Nat : step(k + 1) = p * ALIGN
      BY <1>2, <2>1
    <3>3. at[k + 2] = (q + p) * ALIGN /\ q + p \in Nat
      BY <1>3, <2>2, <3>1, <3>2
    <3> QED  BY <3>3
  <2>4. ASSUME NEW i \in 1 .. k + 1
        PROVE  at[i] + step(i) <= at[k + 2]
    <3>1. CASE i = k + 1
      BY <2>1, <2>2, <3>1
    <3>2. CASE i # k + 1
      <4>1. i \in 1 .. k /\ i \in 1 .. n /\ i \in 1 .. n + 1
        BY <1>1, <2>1, <3>2
      <4>2. at[i] \in Nat /\ step(i) \in Nat
        BY <1>1, <1>2, <4>1
      <4>3. at[i] + step(i) <= at[k + 1]
        BY <2>1, <4>1
      <4> QED  BY <2>1, <2>2, <4>2, <4>3
    <3> QED  BY <3>1, <3>2
  <2> QED  BY <2>3, <2>4
<1>6. \A k \in Nat : k \in S
  <2> HIDE DEF Aligned, Behind
  <2>1. \A k \in Nat : k \in S => k + 1 \in S
    <3> SUFFICES ASSUME NEW k \in Nat, k \in S, k + 1 <= n
                 PROVE  Aligned(k + 1 + 1) /\ Behind(k + 1 + 1)
      OBVIOUS
    <3>1. k + 1 + 1 = k + 2
      OBVIOUS
    <3> QED  BY <1>5, <3>1
  <2> HIDE DEF S
  <2> QED  BY <1>4, <2>1, SetInduction
<1>7. ASSUME NEW j \in 1 .. n + 1
      PROVE  Aligned(j) /\ Behind(j)
  <2>1. j - 1 \in Nat /\ j - 1 <= n /\ j - 1 + 1 = j
    BY <1>1
  <2> HIDE DEF Aligned, Behind
  <2> QED  BY <1>6, <2>1
<1> QED  BY <1>7 DEF n, at, step

\* What the lemmas above mean for the tags of info: tag i is the one at its
\* address, addresses grow, the loop goes from one to the next, and a tag lies
\* inside the information.
Last == Len(info.tags) + 1

LEMMA Walk ==
  ASSUME info \in Infos
  PROVE  /\ Last \in Nat \ {0} /\ info.base \in Nat /\ Length(info) \in Nat
         /\ DOMAIN AllTags(info) = 1 .. Last
         /\ \A i \in 1 .. Last :
              /\ AddressOf(i) \in Nat /\ info.base < AddressOf(i)
              /\ TagAt(AddressOf(i)) = AllTags(info)[i]
              /\ AllTags(info)[i].size \in Nat
              /\ AddressOf(i) + AllTags(info)[i].size <= info.base + Length(info)
              /\ AllTags(info)[i].type = END <=> i = Last
              /\ i # Last => AddressOf(i + 1) = NextTag(AddressOf(i), AllTags(info)[i].size)
         /\ \A i, j \in 1 .. Last : i < j => AddressOf(i) < AddressOf(j)
         /\ AddressOf(1) = info.base + ALIGN
         /\ EndTags = {AddressOf(Last)}
<1> DEFINE n == Len(info.tags)
           at == Offsets(info)
           tag(i) == AllTags(info)[i]
<1>1. /\ n \in Nat /\ at \in [1 .. n + 1 -> Nat] /\ at[1] = ALIGN
      /\ \A i \in 1 .. n : at[i + 1] = at[i] + Padded(info.tags[i].size)
  BY OffsetsAre, TagTypes
<1>2. \A i \in 1 .. n : /\ info.tags[i].type \in Nat \ {END}
                        /\ info.tags[i].size \in Nat /\ ALIGN <= info.tags[i].size
                        /\ Padded(info.tags[i].size) \in Nat
                        /\ info.tags[i].size <= Padded(info.tags[i].size)
  BY TagTypes, PaddedIsAligned
<1>3. ALIGN \in Nat \ {0} /\ info.base \in Nat /\ info.base % ALIGN = 0
  BY InfoAssumption DEF IsInfo
<1>4. /\ DOMAIN AllTags(info) = 1 .. n + 1
      /\ \A i \in 1 .. n : tag(i) = info.tags[i]
      /\ tag(n + 1) = [type |-> END, size |-> ALIGN]
  <2> DEFINE R == [type : Nat, size : Nat]
             e == [type |-> END, size |-> ALIGN]
  <2>1. info.tags \in Seq(R)
    BY InfoAssumption DEF IsInfo
  <2>2. AllTags(info) = Append(info.tags, e)
    BY DEF AllTags
  <2> HIDE DEF R, e
  <2>3. /\ DOMAIN Append(info.tags, e) = 1 .. n + 1
        /\ \A i \in 1 .. n : Append(info.tags, e)[i] = info.tags[i]
        /\ Append(info.tags, e)[n + 1] = e
    BY <2>1
  <2> QED  BY <2>2, <2>3 DEF e
<1>5. /\ \A i \in 1 .. n + 1 : tag(i).size \in Nat /\ ALIGN <= tag(i).size
      /\ \A i \in 1 .. n + 1 : tag(i).type = END <=> i = n + 1
  <2> SUFFICES ASSUME NEW i \in 1 .. n + 1
               PROVE  tag(i).size \in Nat /\ ALIGN <= tag(i).size /\ (tag(i).type = END <=> i = n + 1)
    OBVIOUS
  <2>1. CASE i = n + 1
    <3>1. tag(i).size = ALIGN /\ tag(i).type = END
      BY <1>4, <2>1
    <3> QED  BY <1>3, <2>1, <3>1
  <2>2. CASE i # n + 1
    <3>1. i \in 1 .. n
      BY <1>1, <2>2
    <3>2. tag(i) = info.tags[i]
      BY <1>4, <3>1
    <3> QED  BY <1>2, <2>2, <3>1, <3>2
  <2> QED  BY <2>1, <2>2
<1>6. \A i, j \in 1 .. n + 1 : i < j => at[i] + tag(i).size <= at[j]
  <2> SUFFICES ASSUME NEW i \in 1 .. n + 1, NEW j \in 1 .. n + 1, i < j
               PROVE  at[i] + tag(i).size <= at[j]
    OBVIOUS
  <2>1. i \in 1 .. n /\ i \in 1 .. j - 1 /\ at[i] \in Nat /\ at[j] \in Nat
    BY <1>1
  <2>2. at[i] + Padded(info.tags[i].size) <= at[j]
    BY <2>1, TagsInOrder
  <2>3. tag(i) = info.tags[i]
    BY <1>4, <2>1
  <2> HIDE DEF tag, at, n
  <2> QED  BY <1>2, <2>1, <2>2, <2>3
<1>7. \A i \in 1 .. n + 1 : \E q \in Nat : at[i] = q * ALIGN
  BY TagsInOrder
<1>8. Length(info) = at[n + 1] + ALIGN /\ \A i : AddressOf(i) = info.base + at[i]
  BY DEF Length, AddressOf
<1> HIDE DEF n, at, tag
<1>9. \A i, j \in 1 .. n + 1 : i < j => AddressOf(i) < AddressOf(j)
  <2> SUFFICES ASSUME NEW i \in 1 .. n + 1, NEW j \in 1 .. n + 1, i < j
               PROVE  info.base + at[i] < info.base + at[j]
    BY <1>8
  <2>1. at[i] + tag(i).size <= at[j] /\ at[i] \in Nat /\ at[j] \in Nat
    BY <1>1, <1>6
  <2> QED  BY <1>3, <1>5, <2>1
<1>10. ASSUME NEW i \in 1 .. n + 1
       PROVE  TagAt(AddressOf(i)) = tag(i)
  <2>1. \A j \in 1 .. n + 1 : AddressOf(j) = AddressOf(i) => j = i
    <3> SUFFICES ASSUME NEW j \in 1 .. n + 1, AddressOf(j) = AddressOf(i), j # i
                 PROVE  FALSE
      OBVIOUS
    <3>1. AddressOf(i) \in Int
      <4>1. at[i] \in Nat /\ AddressOf(i) = info.base + at[i]
        BY <1>1, <1>8
      <4> QED  BY <1>3, <4>1
    <3>2. j < i \/ i < j
      BY <1>1
    <3> QED  BY <1>9, <3>1, <3>2
  <2>2. (CHOOSE j \in 1 .. n + 1 : AddressOf(j) = AddressOf(i)) = i
    BY <2>1
  <2> QED  BY <1>4, <2>2 DEF TagAt, tag
<1>11. ASSUME NEW i \in 1 .. n
       PROVE  AddressOf(i + 1) = NextTag(AddressOf(i), tag(i).size)
  <2>1. PICK q \in Nat : at[i] = q * ALIGN
    BY <1>1, <1>7
  <2>2. PICK p \in Nat : info.base = p * ALIGN
    BY <1>3
  <2>3. (p + q) * ALIGN = info.base + at[i] /\ p + q \in Nat /\ tag(i).size \in Nat
    BY <1>1, <1>3, <1>5, <2>1, <2>2
  <2>4. Padded((p + q) * ALIGN + tag(i).size) = (p + q) * ALIGN + Padded(tag(i).size)
    BY <2>3, PaddedFromAligned
  <2>5. at[i + 1] = at[i] + Padded(tag(i).size) /\ Padded(tag(i).size) \in Nat
    BY <1>1, <1>2, <1>4
  <2>6. NextTag(AddressOf(i), tag(i).size) = Padded((p + q) * ALIGN + tag(i).size)
    BY <1>8, <2>3 DEF NextTag
  <2>7. AddressOf(i + 1) = info.base + at[i + 1]
    BY <1>8
  <2>8. at[i] \in Nat
    BY <1>1
  <2> DEFINE r == (p + q) * ALIGN
  <2>9. /\ r = info.base + at[i]
        /\ NextTag(AddressOf(i), tag(i).size) = r + Padded(tag(i).size)
    BY <2>3, <2>4, <2>6
  <2> HIDE DEF r
  <2> QED  BY <1>3, <2>5, <2>7, <2>8, <2>9
<1>12. ASSUME NEW i \in 1 .. n + 1
       PROVE  /\ AddressOf(i) \in Nat /\ info.base < AddressOf(i)
              /\ AddressOf(i) + tag(i).size <= info.base + Length(info)
  <2>1. at[i] \in Nat /\ at[n + 1] \in Nat /\ at[1] = ALIGN
    BY <1>1
  <2>2. ALIGN <= at[i]
    <3>1. CASE i = 1
      BY <1>1, <1>3, <3>1
    <3>2. CASE i # 1
      <4>1. at[1] + tag(1).size <= at[i] /\ tag(1).size \in Nat
        BY <1>1, <1>5, <1>6, <3>2
      <4> QED  BY <1>3, <2>1, <4>1
    <3> QED  BY <3>1, <3>2
  <2>3. at[i] + tag(i).size <= at[n + 1] + ALIGN
    <3>1. CASE i = n + 1
      BY <1>3, <1>4, <2>1, <3>1 DEF tag
    <3>2. CASE i # n + 1
      <4>1. at[i] + tag(i).size <= at[n + 1] /\ tag(i).size \in Nat
        BY <1>1, <1>5, <1>6, <3>2
      <4> QED  BY <1>3, <2>1, <4>1
    <3> QED  BY <3>1, <3>2
  <2>4. AddressOf(i) = info.base + at[i] /\ tag(i).size \in Nat
    BY <1>5, <1>8
  <2> QED  BY <1>3, <1>8, <2>1, <2>2, <2>3, <2>4
<1>13. EndTags = {AddressOf(n + 1)}
  <2>1. TagsOf({END}) = {AddressOf(n + 1)}
    BY <1>1, <1>4, <1>5 DEF TagsOf, tag
  <2>2. TagAt(AddressOf(n + 1)).size = ALIGN
    BY <1>1, <1>4, <1>10
  <2> QED  BY <2>1, <2>2 DEF EndTags
<1>14. Last = n + 1 /\ AddressOf(1) = info.base + ALIGN /\ Length(info) \in Nat
  <2>1. Last = n + 1
    BY DEF Last, n
  <2>2. AddressOf(1) = info.base + at[1] /\ at[1] = ALIGN
    BY <1>1, <1>8
  <2>3. at[n + 1] \in Nat /\ Length(info) = at[n + 1] + ALIGN
    BY <1>1, <1>8
  <2> QED  BY <1>3, <2>1, <2>2, <2>3
<1>15. /\ \A i \in 1 .. Last : /\ AddressOf(i) \in Nat /\ info.base < AddressOf(i)
                               /\ TagAt(AddressOf(i)) = tag(i)
                               /\ AddressOf(i) + tag(i).size <= info.base + Length(info)
       /\ \A i \in 1 .. Last : tag(i).size \in Nat /\ (tag(i).type = END <=> i = Last)
  BY <1>5, <1>10, <1>12, <1>14
<1>16. \A i \in 1 .. Last : i # Last => AddressOf(i + 1) = NextTag(AddressOf(i), tag(i).size)
  BY <1>1, <1>11, <1>14
<1>17. /\ Last \in Nat \ {0} /\ DOMAIN AllTags(info) = 1 .. Last
       /\ \A i, j \in 1 .. Last : i < j => AddressOf(i) < AddressOf(j)
       /\ EndTags = {AddressOf(Last)}
  <2>1. Last = n + 1 /\ n + 1 \in Nat \ {0}
    BY <1>1, <1>14
  <2> QED  BY <1>4, <1>9, <1>13, <2>1
<1> QED  BY <1>3, <1>14, <1>15, <1>16, <1>17 DEF tag


----------------------------------------------------------------------------
(***************************************************************************)
(* Multiboot: what read_multiboot has found when it looks at tag c, and    *)
(* what becomes of the information once the kernel runs.                   *)
(***************************************************************************)
Names == {"framebuffer", "mmap", "basic_meminfo", "acpi"}

IsWanted(d, i) == AllTags(info)[i].type \in Wanted(d)

Found(d, c) ==
  \/ data[d] = 0 /\ \A i \in 1 .. c - 1 : ~IsWanted(d, i)
  \/ \E i \in 1 .. c - 1 :
       /\ data[d] = AddressOf(i) /\ IsWanted(d, i)
       /\ \A j \in 1 .. c - 1 : IsWanted(d, j) => j <= i

At(c) ==
  /\ rax = AddressOf(c)
  /\ reading <=> c < Last
  /\ \A d \in Names : Found(d, c)

BootInv ==
  /\ Inv
  /\ info \in Infos /\ boot = info.boot
  /\ DOMAIN data = Names
  /\ \E c \in 1 .. Last : At(c)
  /\ garbled => info.base \in Bytes(KernelEnd, Rows)

LEMMA BootStepIsPageStep == [BootNext]_bootVars => [Next]_vars
BY DEF BootNext, bootVars, read_multiboot, InKernel, parse_intact, parse_garbage, Next

LEMMA BootBegins == BootInit => BootInv
<1> SUFFICES ASSUME BootInit
             PROVE  BootInv
  OBVIOUS
<1>1. Inv /\ info \in Infos /\ boot = info.boot /\ garbled = FALSE
  BY InvInit DEF BootInit
<1>2. DOMAIN data = Names /\ \A d \in Names : data[d] = 0
  BY DEF BootInit, Names
<1>3. 1 \in 1 .. Last /\ 1 < Last
  <2>1. /\ info.tags \in Seq([type : Nat, size : Nat])
        /\ MMAP \in {info.tags[i].type : i \in DOMAIN info.tags}
    BY <1>1, InfoAssumption DEF IsInfo
  <2>2. Len(info.tags) \in Nat /\ Len(info.tags) # 0
    BY <2>1
  <2> QED  BY <2>2 DEF Last
<1>4. At(1)
  <2>1. rax = AddressOf(1) /\ reading = TRUE
    BY <1>1, Walk DEF BootInit
  <2>2. \A d \in Names : Found(d, 1)
    BY <1>2 DEF Found
  <2> QED  BY <1>3, <2>1, <2>2 DEF At
<1> QED  BY <1>1, <1>2, <1>3, <1>4 DEF BootInv

LEMMA ReadKeeps ==
  ASSUME BootInv, read_multiboot
  PROVE  BootInv'
<1>1. PICK c \in 1 .. Last : At(c)
  BY DEF BootInv
<1>2. /\ Inv /\ info \in Infos /\ boot = info.boot /\ DOMAIN data = Names
      /\ garbled => info.base \in Bytes(KernelEnd, Rows)
  BY DEF BootInv
<1>3. reading /\ c < Last /\ rax = AddressOf(c) /\ \A d \in Names : Found(d, c)
  BY <1>1 DEF At, read_multiboot
<1>4. /\ UNCHANGED <<vars, info, garbled>>
      /\ data' = [d \in Names |-> IF TagAt(rax).type \in Wanted(d) THEN rax ELSE data[d]]
      /\ rax' = NextTag(rax, TagAt(rax).size)
      /\ reading' = (rax' \notin EndTags)
  BY <1>2 DEF read_multiboot
<1>5. c + 1 \in 1 .. Last /\ c \in 1 .. c + 1 - 1 /\ Last \in Nat
  BY <1>2, <1>3, Walk
<1>6. TagAt(rax) = AllTags(info)[c] /\ rax' = AddressOf(c + 1)
  <2>1. TagAt(AddressOf(c)) = AllTags(info)[c]
    BY <1>2, Walk
  <2>2. AddressOf(c + 1) = NextTag(AddressOf(c), AllTags(info)[c].size)
    BY <1>2, <1>3, <1>5, Walk
  <2> QED  BY <1>3, <1>4, <2>1, <2>2
<1>7. reading' <=> c + 1 < Last
  <2>1. EndTags = {AddressOf(Last)}
    BY <1>2, Walk
  <2>2. CASE c + 1 = Last
    <3>1. ~reading'
      BY <1>4, <1>6, <2>1, <2>2
    <3>2. ~ (c + 1 < Last)
      BY <1>5, <2>2
    <3> QED  BY <3>1, <3>2
  <2>3. CASE c + 1 < Last
    <3>1. AddressOf(c + 1) \in Nat /\ AddressOf(c + 1) < AddressOf(Last)
      BY <1>2, <1>5, <2>3, Walk
    <3>2. AddressOf(c + 1) # AddressOf(Last)
      BY <3>1
    <3>3. reading'
      BY <1>4, <1>6, <2>1, <3>2
    <3> QED  BY <2>3, <3>3
  <2> QED  BY <1>5, <2>2, <2>3
<1>8. ASSUME NEW d \in Names
      PROVE  \/ data'[d] = 0 /\ \A i \in 1 .. c : ~IsWanted(d, i)
             \/ \E i \in 1 .. c :
                  /\ data'[d] = AddressOf(i) /\ IsWanted(d, i)
                  /\ \A j \in 1 .. c : IsWanted(d, j) => j <= i
  <2>1. CASE IsWanted(d, c)
    <3>1. data'[d] = AddressOf(c)
      BY <1>3, <1>4, <1>6, <2>1 DEF IsWanted
    <3> QED  BY <1>5, <2>1, <3>1
  <2>2. CASE ~IsWanted(d, c)
    <3>1. data'[d] = data[d]
      BY <1>3, <1>4, <1>6, <2>2 DEF IsWanted
    <3>2. \A j \in 1 .. c : j \in 1 .. c - 1 \/ j = c
      OBVIOUS
    <3>3. CASE data[d] = 0 /\ \A i \in 1 .. c - 1 : ~IsWanted(d, i)
      BY <2>2, <3>1, <3>2, <3>3
    <3>4. CASE \E i \in 1 .. c - 1 :
                 /\ data[d] = AddressOf(i) /\ IsWanted(d, i)
                 /\ \A j \in 1 .. c - 1 : IsWanted(d, j) => j <= i
      <4>1. PICK i \in 1 .. c - 1 :
              /\ data[d] = AddressOf(i) /\ IsWanted(d, i)
              /\ \A j \in 1 .. c - 1 : IsWanted(d, j) => j <= i
        BY <3>4
      <4>2. i \in 1 .. c /\ \A j \in 1 .. c : IsWanted(d, j) => j <= i
        BY <2>2, <3>2, <4>1
      <4> QED  BY <3>1, <4>1, <4>2
    <3> QED  BY <1>3, <3>3, <3>4 DEF Found
  <2> QED  BY <2>1, <2>2
<1>9. At(c + 1)'
  <2>1. c + 1 - 1 = c
    BY <1>5
  <2>2. \A d \in Names : Found(d, c + 1)'
    BY <1>4, <1>8, <2>1 DEF Found, IsWanted, AddressOf
  <2> QED  BY <1>4, <1>6, <1>7, <2>2 DEF At, AddressOf, Last
<1>10. Last' = Last /\ DOMAIN data' = Names
  BY <1>4 DEF Last
<1>11. Inv'
  BY <1>2, <1>4, InvStep
<1>12. info' \in Infos /\ boot' = info'.boot
       /\ (garbled' => info'.base \in Bytes(KernelEnd, Rows'))
  BY <1>2, <1>4 DEF vars, Rows, MemorySize
<1> QED  BY <1>5, <1>9, <1>10, <1>11, <1>12 DEF BootInv

\* The memory map is a part of the information, and what the bitmap can meet
\* of that lies behind the kernel.
LEMMA OnlyBehindTheKernel ==
  ASSUME BootInv, ~reading, MapBytes \cap BitmapBytes # {}
  PROVE  info.base \in Bytes(KernelEnd, Rows)
<1>1. PICK c \in 1 .. Last : At(c)
  BY DEF BootInv
<1>2. info \in Infos /\ IsInfo(info) /\ Inv /\ boot = info.boot
  BY InfoAssumption DEF BootInv
<1>3. Found("mmap", c) /\ c = Last /\ Last \in Nat
  <2>1. Last \in Nat \ {0}
    BY <1>2, Walk
  <2>2. ~ (c < Last) /\ Found("mmap", c)
    BY <1>1 DEF At, Names
  <2> QED  BY <2>1, <2>2
<1>4. PICK i \in 1 .. Last : data["mmap"] = AddressOf(i)
  <2>1. PICK k \in DOMAIN info.tags : info.tags[k].type = MMAP
    BY <1>2 DEF IsInfo
  <2>2. /\ info.tags \in Seq([type : Nat, size : Nat])
        /\ DOMAIN info.tags = 1 .. Last - 1 /\ Len(info.tags) \in Nat
    <3>1. info.tags \in Seq([type : Nat, size : Nat])
      BY <1>2 DEF IsInfo
    <3>2. DOMAIN info.tags = 1 .. Len(info.tags) /\ Len(info.tags) \in Nat
      BY <3>1
    <3>3. Len(info.tags) = Last - 1
      BY <3>2 DEF Last
    <3> QED  BY <3>1, <3>2, <3>3
  <2>3. k \in 1 .. Last - 1 /\ AllTags(info)[k] = info.tags[k]
    BY <2>1, <2>2 DEF AllTags, Last
  <2>4. IsWanted("mmap", k)
    BY <2>1, <2>3 DEF IsWanted, Wanted
  <2> QED  BY <1>3, <2>3, <2>4 DEF Found
<1>5. /\ TagAt(AddressOf(i)) = AllTags(info)[i]
      /\ AllTags(info)[i].size \in Nat
      /\ AddressOf(i) \in Nat /\ info.base < AddressOf(i)
      /\ AddressOf(i) + AllTags(info)[i].size <= info.base + Length(info)
      /\ info.base \in Nat /\ Length(info) \in Nat
  BY <1>2, Walk
<1>6. PICK x : x \in MapBytes /\ x \in BitmapBytes
  OBVIOUS
<1>7. Rows \in Nat /\ KernelEnd \in Nat /\ UpperBase \in Nat /\ UpperBase <= KernelEnd
  BY <1>2, SizeFacts, MachineAssumption DEF Inv, TypeOK
<1>8. x \in Int /\ info.base <= x /\ x < info.base + Length(info)
      /\ KernelEnd <= x /\ x < KernelEnd + Rows
  <2>1. x \in AddressOf(i) .. AddressOf(i) + AllTags(info)[i].size - 1
    BY <1>4, <1>5, <1>6 DEF MapBytes, Bytes
  <2>2. x \in KernelEnd .. KernelEnd + Rows - 1
    BY <1>6 DEF BitmapBytes, Bytes
  <2> QED  BY <1>5, <1>7, <2>1, <2>2
<1>9. info.boot.mem_lower \in Nat /\ info.boot.mem_lower <= UpperBase
  BY <1>2, BootAssumption DEF IsInfo, IsBootInfo
<1>10. KernelEnd <= info.base
  <2>1. info.base + Length(info) <= info.boot.mem_lower \/ KernelEnd <= info.base
    BY <1>2 DEF IsInfo
  <2> QED  BY <1>5, <1>7, <1>8, <1>9, <2>1
<1> QED  BY <1>5, <1>7, <1>8, <1>10 DEF Bytes

LEMMA BootGoesOn == BootInv /\ [BootNext]_bootVars => BootInv'
<1> SUFFICES ASSUME BootInv, [BootNext]_bootVars
             PROVE  BootInv'
  OBVIOUS
<1>1. CASE read_multiboot
  BY <1>1, ReadKeeps
<1>2. CASE ~read_multiboot
  <2>1. UNCHANGED <<info, reading, rax, data>>
    BY <1>2 DEF BootNext, bootVars, tagVars, InKernel, parse_intact, parse_garbage
  <2>2. Inv'
    BY BootStepIsPageStep, InvStep DEF BootInv
  <2>3. boot' = boot
    BY BootStepIsPageStep DEF Next, vars, init_bitmap, parse_mmap, allocate_physical_page,
       allocate_exhausted, free_page
  <2>4. (\E c \in 1 .. Last : At(c))'
    BY <2>1 DEF BootInv, At, Last, Found, IsWanted, AddressOf
  <2>5. Rows' = Rows
    BY <2>3 DEF Rows, MemorySize
  <2>6. garbled' => info.base \in Bytes(KernelEnd, Rows)
    <3>1. garbled' = garbled \/ parse_garbage
      BY <1>2 DEF BootNext, bootVars, tagVars, InKernel, parse_intact
    <3>2. parse_garbage => info.base \in Bytes(KernelEnd, Rows)
      BY OnlyBehindTheKernel DEF parse_garbage
    <3> QED  BY <3>1, <3>2 DEF BootInv
  <2> QED  BY <2>1, <2>2, <2>3, <2>4, <2>5, <2>6 DEF BootInv
<1> QED  BY <1>1, <1>2

LEMMA BootInvariance == BootSpec => []BootInv
BY BootBegins, BootGoesOn, PTL DEF BootSpec

\* A machine that boots through read_multiboot is one of those PageBitmap
\* speaks of: what is proved of its allocator holds of this one.
THEOREM BootImplementsPageBitmap == BootSpec => Spec
BY BootStepIsPageStep, PTL DEF BootSpec, BootInit, Spec

THEOREM PagesUsableAfterBoot == BootSpec => []HeldPagesAreUsable
BY BootImplementsPageBitmap, PagesUsable, PTL

THEOREM PoolAfterBoot == BootSpec => ImplementsPool
BY BootImplementsPageBitmap, Implementation, PTL

\* read_multiboot reaches the end tag from any list of tags, and each address
\* it stores is that of the last tag of its kind.
THEOREM LoopFindsTags == BootSpec => []TagsFound
<1>1. BootInv => TagsFound
  <2> SUFFICES ASSUME BootInv
               PROVE  TagsFound
    OBVIOUS
  <2>1. PICK c \in 1 .. Last : At(c)
    BY DEF BootInv
  <2>2. /\ info \in Infos /\ DOMAIN data = Names /\ DOMAIN AllTags(info) = 1 .. Last
        /\ Last \in Nat /\ EndTags = {AddressOf(Last)}
    BY Walk DEF BootInv
  <2>3. rax = AddressOf(c)
    BY <2>1 DEF At
  <2>4. ASSUME ~reading, NEW d \in Names
        PROVE  IF TagsOf(Wanted(d)) = {} THEN data[d] = 0
               ELSE /\ data[d] \in TagsOf(Wanted(d))
                    /\ \A a \in TagsOf(Wanted(d)) : a <= data[d]
    <3>1. c = Last /\ Found(d, Last)
      BY <2>1, <2>2, <2>4 DEF At
    <3>2. AllTags(info)[Last].type = END
      BY <2>2, Walk
    <3>3. ~IsWanted(d, Last)
      BY <3>2, <2>4 DEF IsWanted, Wanted, Names, END, FRAMEBUFFER, MMAP, BASIC_MEMINFO,
         ACPI_OLD, ACPI_NEW
    <3>4. \A a : a \in TagsOf(Wanted(d)) <=>
                   \E i \in 1 .. Last - 1 : IsWanted(d, i) /\ a = AddressOf(i)
      <4>1. \A i \in 1 .. Last : i \in 1 .. Last - 1 \/ i = Last
        BY <2>2
      <4>2. \A i \in 1 .. Last - 1 : i \in 1 .. Last
        BY <2>2
      <4> QED  BY <2>2, <3>3, <4>1, <4>2 DEF TagsOf, IsWanted
    <3>5. CASE data[d] = 0 /\ \A i \in 1 .. Last - 1 : ~IsWanted(d, i)
      BY <3>4, <3>5
    <3>6. CASE \E i \in 1 .. Last - 1 :
                 /\ data[d] = AddressOf(i) /\ IsWanted(d, i)
                 /\ \A j \in 1 .. Last - 1 : IsWanted(d, j) => j <= i
      <4>1. PICK i \in 1 .. Last - 1 :
              /\ data[d] = AddressOf(i) /\ IsWanted(d, i)
              /\ \A j \in 1 .. Last - 1 : IsWanted(d, j) => j <= i
        BY <3>6
      <4>2. \A j \in 1 .. Last - 1 : j <= i => AddressOf(j) <= AddressOf(i)
        <5> SUFFICES ASSUME NEW j \in 1 .. Last - 1, j <= i
                     PROVE  AddressOf(j) <= AddressOf(i)
          OBVIOUS
        <5>1. i \in 1 .. Last /\ j \in 1 .. Last
          BY <2>2
        <5>2. AddressOf(i) \in Nat /\ (j < i => AddressOf(j) < AddressOf(i))
              /\ AddressOf(j) \in Nat
          BY <2>2, <5>1, Walk
        <5>3. j = i \/ j < i
          BY <5>1
        <5> QED  BY <5>2, <5>3
      <4> QED  BY <3>4, <4>1, <4>2
    <3> QED  BY <3>1, <3>5, <3>6 DEF Found
  <2>5. ~reading => rax = AddressOf(Last)
    BY <2>1, <2>2 DEF At
  <2> QED  BY <2>2, <2>3, <2>4, <2>5 DEF TagsFound
<1> QED  BY <1>1, BootInvariance, PTL

\* No page the allocator gives out meets the boot information, and the bitmap
\* of init_bitmap only does where that lies right behind the kernel.
THEOREM InformationStays == BootSpec => []InformationIsKept
<1>1. BootInv => InformationIsKept
  <2> SUFFICES ASSUME BootInv, NEW p \in held
               PROVE  Bytes(p * PageSize, PageSize) \cap Bytes(info.base, Length(info)) = {}
    BY DEF BootInv, InformationIsKept
  <2>1. /\ info \in Infos /\ IsInfo(info) /\ boot = info.boot /\ Inv
        /\ info.boot.mem_lower \in Nat /\ info.boot.mem_lower <= UpperBase
    BY InfoAssumption, BootAssumption DEF BootInv, IsInfo, IsBootInfo
  <2>2. info.base \in Nat /\ Length(info) \in Nat
    BY <2>1, Walk
  <2>3. /\ PageSize \in Nat \ {0} /\ KernelEnd \in Nat /\ Slack \in Nat /\ UpperBase \in Nat
        /\ PageSize <= Slack /\ UpperBase <= KernelEnd
    BY MachineAssumption
  <2>4. FirstPage \in Nat /\ KernelEnd + Slack < FirstPage * PageSize + PageSize
    BY <2>3, DivBounds DEF FirstPage
  <2>5. p \in Nat /\ FirstPage <= p
    BY <2>1, SizeFacts DEF Inv, TypeOK, PageIndex
  <2>6. /\ FirstPage * PageSize <= p * PageSize
        /\ FirstPage * PageSize \in Nat /\ p * PageSize \in Nat
    BY <2>3, <2>4, <2>5, MulMono
  <2> DEFINE first == FirstPage * PageSize
             here == p * PageSize
             end == info.base + Length(info)
  <2>7. end <= first
    <3>1. end <= info.boot.mem_lower \/ end <= first
      BY <2>1 DEF IsInfo
    <3>2. first \in Nat /\ KernelEnd + Slack < first + PageSize
      BY <2>4, <2>6
    <3> HIDE DEF first
    <3> QED  BY <2>1, <2>2, <2>3, <3>1, <3>2
  <2>8. first <= here /\ first \in Nat /\ here \in Nat
    BY <2>6
  <2> HIDE DEF first, here
  <2>9. Bytes(here, PageSize) \cap Bytes(info.base, Length(info)) = {}
    BY <2>2, <2>3, <2>7, <2>8 DEF Bytes
  <2> QED  BY <2>9 DEF here
<1> QED  BY <1>1, BootInvariance, PTL
=============================================================================
