----------------------------- MODULE PageBitmap -----------------------------
(***************************************************************************)
(* The physical page allocator: src/mem/bitmap.c, filled at boot by        *)
(* init_pmm (src/mem/pmm.c) and parse_mmap (src/mem/mmap.c).               *)
(*                                                                         *)
(* Addresses are bytes, as in the code; PageSize and the sizes of the      *)
(* machine are parameters, so that a run can be small and a theorem can    *)
(* speak of every machine.  A row of the bitmap is the set of its bits     *)
(* that are 1.  Boot runs with interrupts off and no caller of the         *)
(* allocator is an interrupt handler: every function is one atomic step.   *)
(***************************************************************************)
EXTENDS Integers, Sequences

CONSTANTS PageSize,    \* PAGE_SIZE, 4096
          UpperBase,   \* where upper memory starts: 1 megabyte
          KernelEnd,   \* _kernel_physical_end, the first byte after .bss
          Slack,       \* the (1024 * 1024 * 12) of init_bitmap
          BootInfos    \* the multiboot information GRUB may pass

AVAILABLE == 1         \* MULTIBOOT_MEMORY_AVAILABLE
RESERVED == 2          \* MULTIBOOT_MEMORY_RESERVED
BITS_PER_ROW == 8

Region == [addr : Nat, len : Nat, type : Nat]

\* What multiboot2 promises (quoted in pmm.c, init_pmm): lower memory ends
\* below 1 MB, and upper memory, counted from 1 MB, has no hole.  Regions of
\* the map that are not available keep clear of it.
IsBootInfo(b) ==
  /\ b.mem_lower \in Nat /\ b.mem_upper \in Nat
  /\ b.mem_lower <= UpperBase
  /\ b.mmap \in Seq(Region)
  /\ \A i \in DOMAIN b.mmap :
        b.mmap[i].type # AVAILABLE =>
           \/ b.mmap[i].addr + b.mmap[i].len <= UpperBase
           \/ UpperBase + b.mem_upper <= b.mmap[i].addr

ASSUME MachineAssumption ==
  /\ PageSize \in Nat \ {0}
  /\ UpperBase \in Nat /\ KernelEnd \in Nat /\ Slack \in Nat
  /\ UpperBase <= KernelEnd       \* linker.ld: the kernel is loaded at 1M
  /\ PageSize <= Slack

ASSUME BootAssumption == \A b \in BootInfos : IsBootInfo(b)

\* One bit for each page of memory fits between the end of the kernel and the
\* end of the slack: with 12 MB, up to some 380 GB of memory.
ASSUME BitmapAssumption ==
  \A b \in BootInfos :
     ((b.mem_lower + b.mem_upper) \div PageSize) \div BITS_PER_ROW + PageSize
        <= Slack

VARIABLES boot,        \* the multiboot information of this machine
          phase,       \* how far init_pmm is
          total_pages,
          bitmap,
          held,        \* history: pages given out and not given back
          result       \* the address the last allocate_physical_page returned

vars == <<boot, phase, total_pages, bitmap, held, result>>

----------------------------------------------------------------------------
PageIndex == 0 .. total_pages - 1

is_page_free(i) == (i % BITS_PER_ROW) \notin bitmap[i \div BITS_PER_ROW]

FreePages == {i \in PageIndex : is_page_free(i)}

\* all_memory * 1024: the two sizes are added, so the gap between the end of
\* lower memory and 1 MB is not counted.
MemorySize == boot.mem_lower + boot.mem_upper

Rows == (MemorySize \div PageSize) \div BITS_PER_ROW

\* set_page_range_used: set_page_used drops an index beyond the last row.
RangeUsed(bm, start, end) ==
  [r \in DOMAIN bm |->
     bm[r] \cup {k \in 0 .. BITS_PER_ROW - 1 :
                   /\ start \div PageSize <= r * BITS_PER_ROW + k
                   /\ r * BITS_PER_ROW + k < end \div PageSize}]

\* Variants named ..._Bad are seeded bugs: they belong to no specification and
\* show that a run would notice the mistake.  Here: 1 << (page_index / 8).
set_page_used_Bad(i) ==
  bitmap' = [bitmap EXCEPT ![i \div BITS_PER_ROW] = @ \cup {i \div BITS_PER_ROW}]

\* An index beyond the last page is no row of the bitmap: nothing changes.
set_page_used(i) ==
  bitmap' = [bitmap EXCEPT ![i \div BITS_PER_ROW] = @ \cup {i % BITS_PER_ROW}]

set_page_free(i) ==
  bitmap' = [bitmap EXCEPT ![i \div BITS_PER_ROW] = @ \ {i % BITS_PER_ROW}]

\* The entries parse_mmap reaches: it leaves the loop at the first reserved
\* region that ends beyond the memory size.
EndsBeyondMemory(e) == e.type = RESERVED /\ e.addr + e.len > MemorySize

Reached ==
  {i \in DOMAIN boot.mmap : \A j \in 1 .. i : ~EndsBeyondMemory(boot.mmap[j])}

\* Row r of the bitmap after the ranges of all reserved regions reached.
ReservedBits(r) ==
  UNION {RangeUsed(bitmap, boot.mmap[i].addr,
                   boot.mmap[i].addr + boot.mmap[i].len)[r] :
           i \in {j \in Reached : boot.mmap[j].type = RESERVED}}

----------------------------------------------------------------------------
Init ==
  /\ boot \in BootInfos
  /\ phase = "init_bitmap"
  /\ total_pages = 0
  /\ bitmap = << >>
  /\ held = {}
  /\ result = 0

\* Seeded bug: the area is reserved up to the end of the kernel only.
init_bitmap_BadRange ==
  /\ phase = "init_bitmap"
  /\ total_pages' = Rows * BITS_PER_ROW
  /\ bitmap' = RangeUsed([r \in 0 .. Rows - 1 |-> {}], 0, KernelEnd)
  /\ phase' = "parse_mmap"
  /\ UNCHANGED <<boot, held, result>>

init_bitmap ==
  /\ phase = "init_bitmap"
  /\ total_pages' = Rows * BITS_PER_ROW
  /\ bitmap' = RangeUsed([r \in 0 .. Rows - 1 |-> {}], 0, KernelEnd + Slack)
  /\ phase' = "parse_mmap"
  /\ UNCHANGED <<boot, held, result>>

parse_mmap ==
  /\ phase = "parse_mmap"
  /\ bitmap' = [r \in DOMAIN bitmap |-> bitmap[r] \cup ReservedBits(r)]
  /\ phase' = "ready"
  /\ UNCHANGED <<boot, total_pages, held, result>>

\* The search takes the lowest free page.
allocate_physical_page ==
  /\ phase = "ready"
  /\ \E i \in FreePages :
       /\ \A j \in FreePages : i <= j
       /\ set_page_used(i)
       /\ result' = i * PageSize
       /\ held' = held \cup {i}
  /\ UNCHANGED <<boot, phase, total_pages>>

\* With every bit set the loop ends without a break and 0 is returned.
allocate_exhausted ==
  /\ phase = "ready"
  /\ FreePages = {}
  /\ result' = 0
  /\ UNCHANGED <<boot, phase, total_pages, bitmap, held>>

\* A client gives back a page it was given (the use vmm_free makes of it).
free_page ==
  /\ phase = "ready"
  /\ \E i \in held : set_page_free(i) /\ held' = held \ {i}
  /\ UNCHANGED <<boot, phase, total_pages, result>>

Next ==
  \/ init_bitmap
  \/ parse_mmap
  \/ allocate_physical_page
  \/ allocate_exhausted
  \/ free_page

Spec == Init /\ [][Next]_vars

----------------------------------------------------------------------------
(***************************************************************************)
(* Properties.                                                             *)
(***************************************************************************)
TypeOK ==
  /\ boot \in BootInfos
  /\ phase \in {"init_bitmap", "parse_mmap", "ready"}
  /\ total_pages = IF phase = "init_bitmap" THEN 0 ELSE Rows * BITS_PER_ROW
  /\ bitmap \in IF phase = "init_bitmap"
                  THEN {<< >>}
                  ELSE [0 .. Rows - 1 -> SUBSET (0 .. BITS_PER_ROW - 1)]
  /\ held \subseteq PageIndex
  /\ result \in Nat

\* The bytes of page p and the region starting at addr do not meet.
ClearOf(p, addr, len) ==
  \/ (p + 1) * PageSize <= addr
  \/ addr + len <= p * PageSize

\* "Kernel must take care not to overwrite these regions" (mmap.h, pmm.c): a
\* page given out lies in RAM, and clear of the kernel image, of the bitmap
\* stored behind it, and of every region of the memory map that is not
\* available -- although parse_mmap stops at the first reserved region beyond
\* memory, rounds the end of a region down, and looks at one type only.
HeldPagesAreUsable ==
  \A p \in held :
    /\ KernelEnd + Rows <= p * PageSize
    /\ (p + 1) * PageSize <= UpperBase + boot.mem_upper
    /\ \A i \in DOMAIN boot.mmap :
         boot.mmap[i].type # AVAILABLE =>
            ClearOf(p, boot.mmap[i].addr, boot.mmap[i].len)

\* The inductive invariant behind it: the area the boot reserves stays marked,
\* and so do the pages with a client, which all lie behind that area.
FirstPage == (KernelEnd + Slack) \div PageSize

Marked(i) == ~is_page_free(i)

Inv ==
  /\ TypeOK
  /\ phase # "init_bitmap" => \A i \in PageIndex : i < FirstPage => Marked(i)
  /\ \A i \in held : FirstPage <= i /\ Marked(i)
  /\ phase # "ready" => held = {}

\* No page is lost or conjured up once the allocator is ready: a step moves
\* pages between the free and the held ones, and a bit of one page never
\* disturbs its seven neighbours in the row.
PagesConserved ==
  [][phase = "ready" => (FreePages \cup held)' = FreePages \cup held]_vars

\* The bitmap implements the abstract pool: a page is given to one client at a
\* time, an answer of 0 means that no page is left, and only then.
NoPage == 0

Pool == INSTANCE PagePool WITH
          Page   <- Nat \ {0},
          open   <- phase = "ready",
          free   <- IF phase = "ready" THEN FreePages ELSE {},
          answer <- result \div PageSize

ImplementsPool == Pool!Spec
=============================================================================
