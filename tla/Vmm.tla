--------------------------------- MODULE Vmm ---------------------------------
(***************************************************************************)
(* The virtual memory manager, src/mem/vmm.c, on the page tables of        *)
(* Paging: a list of regions behind one another, each with its header in   *)
(* its first page.                                                         *)
(*                                                                         *)
(* A region is named by the number of its first page, counted from         *)
(* vm_root; an address is a number of bytes from there.  The search of     *)
(* vmm_allocate for a gap between two regions is left out: a gap needs a   *)
(* vmm_free that returns, and RegionsAreContiguous and FreeFaults show     *)
(* that there is none.                                                     *)
(***************************************************************************)
EXTENDS Paging

CONSTANTS PAGE_SIZE,
          HEADER,      \* sizeof(vmm_region)
          Sizes,       \* the sizes clients ask for
          MaxPages     \* bound: pages the VMM gets to

\* The kernel is run with 128 MB (Makefile:93).  All that matters is that
\* memory ends below the first gigabyte, which the area therefore is, and that
\* there is more of it than the boot needs.
ASSUME VmmAssumption ==
  /\ PAGE_SIZE \in Nat \ {0}
  /\ HEADER \in 1 .. PAGE_SIZE
  /\ Sizes \subseteq Nat
  /\ W > PD_LOOP_LIMIT + 1
  /\ MaxPages \in 1 .. W * W
  /\ Spare \subseteq 0 .. W * W - 1
  /\ \E f, g \in Spare : f # g
  \* The lowest frames are clear of the framebuffer's virtual addresses.
  /\ Spare \cap (FB_SLOT * W .. FB_SLOT * W + TOP) = {}

NULL == -1
WILD == -2             \* a pointer made of what happens to be in memory

VARIABLES status,      \* "boot", "up", "halted" or "lost"
          header,      \* the header of every region that was ever made
          blocks       \* history: what clients were given

vmmVars == <<vars, status, header, blocks>>

vm_root == 0

\* Seeded bug: the gigabyte is left out, the area begins in p2_table.
PageAt_Bad(n) == <<0, 0, (n \div W) % W, n % W>>

\* The indices of a page: &vmm_area + ONE_GIGABYTE wraps to the lower half,
\* where nothing is mapped yet.
PageAt(n) == <<0, 1 + n \div (W * W), (n \div W) % W, n % W>>

VmmInit ==
  /\ Init
  /\ status = "boot"
  /\ header = << >>
  /\ blocks = {}

----------------------------------------------------------------------------
\* Seeded bug: the loop counts whole pages behind the first.
Area_Bad(s, first, n) ==
  LET area[k \in 0 .. n] ==
        IF k = 0 THEN s
        ELSE LET t == area[k-1]
             IN  map_page(Allocated(t), PageAt(first + k), Lowest(t.free))
  IN  area[n]

\* vmm_allocate_area: a frame for each page of the region.
Area(s, first, n) ==
  LET area[k \in 0 .. n] ==
        IF k = 0 THEN s
        ELSE LET t == area[k-1]
             IN  map_page(Allocated(t), PageAt(first + k - 1), Lowest(t.free))
  IN  area[n]

\* align_to_nearest_page, in pages.
PagesFor(bytes) == (bytes + PAGE_SIZE - 1) \div PAGE_SIZE

\* The regions on the list: the least set with vm_root in it, and with each
\* region the one it points to.
Chain ==
  LET Closed(S) == /\ vm_root \in S
                   /\ \A r \in S :
                        header[r].next \in DOMAIN header => header[r].next \in S
  IN  {r \in DOMAIN header : \A S \in SUBSET DOMAIN header : Closed(S) => r \in S}

Last == CHOOSE r \in Chain : header[r].next = NULL

\* The headers when the region new of n pages is put behind the last one.
Behind(h, last, new, n) ==
  [r \in DOMAIN h \cup {new} |->
     IF r = new THEN [next |-> NULL, size |-> n]
     ELSE IF r = last THEN [next |-> new, size |-> h[r].size]
     ELSE h[r]]

\* The root region is one page.  Its size is set; its next pointer is what the
\* frame holds.
init_vmm ==
  /\ status = "boot"
  /\ Becomes(Area(Now, vm_root, 1))
  /\ \E n \in {NULL, WILD} : header' = [r \in {vm_root} |-> [next |-> n, size |-> 1]]
  /\ status' = "up"
  /\ UNCHANGED <<owned, blocks>>

\* Seeded bug: the region behind the last one starts a page behind its header.
vmm_allocate_Bad(size) ==
  /\ status = "up" /\ ~out
  /\ header[vm_root].next # WILD
  /\ LET new == Last + 1
         n   == PagesFor(size + HEADER)
     IN  /\ new + n <= MaxPages
         /\ Becomes(Area(Now, new, n))
         /\ header' = Behind(header, Last, new, n)
         /\ blocks' = blocks \cup {[addr |-> new * PAGE_SIZE + HEADER, len |-> size]}
  /\ UNCHANGED <<owned, status>>

\* A region behind the last one; the header is written when it is mapped.
vmm_allocate(size) ==
  /\ status = "up" /\ ~out
  /\ header[vm_root].next # WILD
  /\ LET new == Last + header[Last].size
         n   == PagesFor(size + HEADER)
     IN  /\ new + n <= MaxPages
         /\ Becomes(Area(Now, new, n))
         /\ header' = Behind(header, Last, new, n)
         /\ blocks' = blocks \cup {[addr |-> new * PAGE_SIZE + HEADER, len |-> size]}
  /\ UNCHANGED <<owned, status>>

\* The list is followed into whatever the root points to.
vmm_allocate_wild ==
  /\ status = "up"
  /\ header[vm_root].next = WILD
  /\ status' = "lost"
  /\ UNCHANGED <<vars, header, blocks>>

\* get_physical_address takes the frames it finds in the tables for pointers.
\* They are, where the frame's own address is mapped to it.
Readable(f) == MMU(mem, <<f \div (W * W * W), (f \div (W * W)) % W,
                          (f \div W) % W, f % W>>) # NONE

Faults(page) ==
  \E t \in {PDPR(mem, page), PD(mem, page), PT(mem, page)} :
    t # NONE /\ ~Readable(t)

\* The region leaves the list (the root has no previous node: a write to
\* address 0).  Reading its tables is a page fault, and the handler halts.
vmm_free(addr) ==
  /\ status = "up"
  /\ header[vm_root].next # WILD
  /\ \E r \in Chain :
       /\ r * PAGE_SIZE = addr - HEADER
       /\ header' = [p \in DOMAIN header |->
                       IF p \in Chain /\ header[p].next = r
                         THEN [header[p] EXCEPT !.next = header[r].next]
                         ELSE header[p]]
       /\ Faults(PageAt(r))
  /\ status' = "halted"
  /\ blocks' = {b \in blocks : b.addr # addr}
  /\ UNCHANGED vars

\* The address is none of a region: the list is walked for nothing.
vmm_free_unknown(addr) ==
  /\ status = "up"
  /\ header[vm_root].next # WILD
  /\ \A r \in Chain : r * PAGE_SIZE # addr - HEADER
  /\ UNCHANGED vmmVars

Addresses == {b.addr : b \in blocks} \cup {HEADER, 0}

VmmNext ==
  \/ init_vmm
  \/ \E size \in Sizes : vmm_allocate(size)
  \/ vmm_allocate_wild
  \/ \E addr \in Addresses : vmm_free(addr) \/ vmm_free_unknown(addr)

VmmSpec == VmmInit /\ [][VmmNext]_vmmVars

----------------------------------------------------------------------------
(***************************************************************************)
(* Properties.                                                             *)
(***************************************************************************)
VmmTypeOK ==
  /\ TypeOK
  /\ status \in {"boot", "up", "halted", "lost"}
  /\ DOMAIN header \subseteq 0 .. MaxPages - 1
  /\ \A r \in DOMAIN header :
       /\ header[r].next \in (DOMAIN header) \cup {NULL, WILD}
       /\ header[r].size \in 1 .. MaxPages
  /\ blocks \subseteq [addr : Nat, len : Sizes]

\* Each region on the list begins where the one before it ends, so that the
\* search of vmm_allocate never meets a gap it could fill.
RegionsAreContiguous ==
  status = "up" =>
    \A r \in Chain :
      header[r].next \in {NULL, WILD, r + header[r].size}

\* All pages of all regions are mapped, each to a frame of its own, and a block
\* lies in the pages of its region, behind the header: with regions that do
\* not meet, no client has a byte of another one's block or of a header.
RegionsAreBacked ==
  ~out =>
    LET pages == UNION {r .. r + header[r].size - 1 : r \in DOMAIN header}
        frame(n) == MMU(mem, PageAt(n))
    IN  /\ \A n \in pages : frame(n) \in Spare \ free
        /\ \A n, k \in pages : frame(n) = frame(k) => n = k
        /\ \A b \in blocks : \E r \in DOMAIN header :
             /\ b.addr = r * PAGE_SIZE + HEADER
             /\ b.addr + b.len <= (r + header[r].size) * PAGE_SIZE

\* vmm_free cannot find the frame of any region: tables taken from the bitmap
\* are nowhere mapped to their own address.
FreeFaults == \A r \in DOMAIN header : Faults(PageAt(r))

\* "unmap it!" (vmm.c, vmm_free): the page of a region that was freed is not
\* mapped any more.
FreedIsUnmapped ==
  [][\A b \in blocks \ blocks' :
       MMU(mem', PageAt((b.addr - HEADER) \div PAGE_SIZE)) = NONE]_vmmVars
=============================================================================
