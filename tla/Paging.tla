------------------------------- MODULE Paging -------------------------------
(***************************************************************************)
(* The page tables: src/mem/paging.c on the tables src/boot/boot.asm       *)
(* builds.                                                                 *)
(*                                                                         *)
(* A table is a frame of memory.  The code never uses its physical         *)
(* address: slot RECURSIVE of the top table points to the top table, and   *)
(* an address made of that slot and the first indices of a virtual address *)
(* is a window to the table at that place.  So a window is a virtual page  *)
(* like any other, and what it reaches is found by the same walk, MMU.     *)
(*                                                                         *)
(* A virtual page is its four indices.  An entry is the frame it points    *)
(* to, or NONE; the flags are the same in all entries.  Addresses are      *)
(* frame numbers.  All of this runs with interrupts off: map_page is one   *)
(* step, made of the same four stages as the code.                         *)
(***************************************************************************)
EXTENDS Integers, FiniteSets

CONSTANTS W,           \* entries in a table: 512
          SELF,        \* the recursive slot: 510
          FB_SLOT,     \* the slot of p2_table for the framebuffer: 488
          BSS,         \* the frame of p4_table
          FbFrame,     \* the first frame of the framebuffer
          Spare,       \* the frames free after init_pmm
          Pages,       \* the virtual pages clients ask for
          Contents     \* what memory may hold that no table was put in

PD_LOOP_LIMIT == 2
Index == 0 .. W - 1
TOP == W - 1           \* slot 511

VirtualPage == Index \X Index \X Index \X Index

\* Frames of RAM that matter here: those the boot maps, and those it leaves.
IdentityMapped == 0 .. PD_LOOP_LIMIT * W - 1
Frame == IdentityMapped \cup Spare
NONE == -1
Entry == Frame \cup (FbFrame .. FbFrame + W - 1) \cup {NONE}

\* boot.asm, section .bss: the tables lie one behind the other.
p4_table == BSS
p3_table == BSS + 1
p2_table == BSS + 2
pt_tables == BSS + 3
fbb_pt_tables == BSS + 7

ASSUME PagingAssumption ==
  /\ W \in Nat /\ W > PD_LOOP_LIMIT
  /\ BSS \in Nat \ {0} /\ fbb_pt_tables < PD_LOOP_LIMIT * W
  /\ SELF = TOP - 1
  /\ FB_SLOT \in PD_LOOP_LIMIT .. TOP
  /\ Spare \subseteq Nat
  /\ Spare \cap IdentityMapped = {}  \* init_bitmap keeps 12 MB, boot.asm maps 4
  /\ FbFrame \in Nat                  \* a device, not RAM
  /\ (FbFrame .. FbFrame + W - 1) \cap Frame = {}
  /\ Pages \subseteq VirtualPage
  /\ \A p \in Pages : p[1] # SELF
  /\ Contents \subseteq [Index -> Entry]

VARIABLES mem,     \* what each frame holds, read as a table
          free,    \* the frames the bitmap has free
          out,     \* history: a request for a frame was answered with 0
          owned    \* history: pages clients asked for

vars == <<mem, free, out, owned>>

----------------------------------------------------------------------------
\* An entry of a table; a walk that meets no table ends in NONE, and the
\* access it was made for is a page fault.
At(m, table, i) == IF table \in Frame THEN m[table][i] ELSE NONE

\* The walk the processor makes, four levels from cr3.
MMU(m, page) ==
  At(m, At(m, At(m, At(m, p4_table, page[1]), page[2]), page[3]), page[4])

Empty == [i \in Index |-> NONE]

\* The tables of boot.asm: slots 0 and TOP of the top table share p3_table,
\* slots 0 and TOP - 1 of that one share p2_table.
BootTable(f, other) ==
  CASE f = p4_table -> [Empty EXCEPT ![0] = p3_table, ![TOP] = p3_table,
                                     ![SELF] = p4_table]
    [] f = p3_table -> [Empty EXCEPT ![0] = p2_table, ![TOP - 1] = p2_table]
    [] f = p2_table -> [i \in Index |->
                          IF i < PD_LOOP_LIMIT THEN pt_tables + i
                          ELSE IF i = FB_SLOT THEN fbb_pt_tables ELSE NONE]
    [] f \in pt_tables .. pt_tables + PD_LOOP_LIMIT - 1 ->
                       [i \in Index |-> (f - pt_tables) * W + i]
    [] f = fbb_pt_tables -> [i \in Index |-> FbFrame + i]
    [] OTHER -> other

Init ==
  /\ \E c \in Contents : mem = [f \in Frame |-> BootTable(f, c)]
  /\ free = Spare
  /\ out = FALSE
  /\ owned = {}

----------------------------------------------------------------------------
\* allocate_physical_page: the lowest free frame, or 0.
Lowest(S) == IF S = {} THEN 0 ELSE CHOOSE f \in S : \A g \in S : f <= g

\* The state a function of paging.c works on.
Now == [mem |-> mem, free |-> free, out |-> out]

Allocated(s) ==
  [s EXCEPT !.free = @ \ {Lowest(s.free)}, !.out = @ \/ s.free = {}]

\* The store table[i] = f.
Put(m, table, i, f) == [m EXCEPT ![table] = [@ EXCEPT ![i] = f]]

\* The new table is cleaned through its own window.
clean_new_table(m, window) == [m EXCEPT ![MMU(m, window)] = Empty]

\* Seeded bugs: the new table is not cleaned; a frame is taken before the
\* entry is looked at.
Ensured_BadDirty(s, w, i, c) ==
  LET table == MMU(s.mem, w)
  IN  IF At(s.mem, table, i) # NONE THEN s
      ELSE [Allocated(s) EXCEPT !.mem = Put(@, table, i, Lowest(s.free))]

Ensured_BadEager(s, w, i, c) ==
  LET table  == MMU(s.mem, w)
      linked == Put(s.mem, table, i, Lowest(s.free))
  IN  IF At(s.mem, table, i) # NONE THEN Allocated(s)
      ELSE [Allocated(s) EXCEPT !.mem = clean_new_table(linked, c)]

\* If entry i of the table in window w is not present, link a new table, and
\* clean it in window c.
Ensured(s, w, i, c) ==
  LET table  == MMU(s.mem, w)
      linked == Put(s.mem, table, i, Lowest(s.free))
  IN  IF At(s.mem, table, i) # NONE THEN s
      ELSE [Allocated(s) EXCEPT !.mem = clean_new_table(linked, c)]

map_page(s, page, entry) ==
  LET R  == SELF
      s1 == Ensured(s,  <<R, R, R, R>>, page[1], <<R, R, R, page[1]>>)
      s2 == Ensured(s1, <<R, R, R, page[1]>>, page[2], <<R, R, page[1], page[2]>>)
      s3 == Ensured(s2, <<R, R, page[1], page[2]>>, page[3],
                        <<R, page[1], page[2], page[3]>>)
      pt == MMU(s3.mem, <<R, page[1], page[2], page[3]>>)
  IN  IF At(s3.mem, pt, page[4]) # NONE THEN s3
      ELSE [s3 EXCEPT !.mem = Put(@, pt, page[4], entry)]

Becomes(s) == mem' = s.mem /\ free' = s.free /\ out' = s.out

----------------------------------------------------------------------------
\* Seeded bug: the frame is handed out and stays free.
map_fresh_Bad(page) ==
  /\ Becomes(map_page(Now, page, Lowest(free)))
  /\ owned' = owned \cup {page}

\* A turn of the loop of vmm_allocate_area: the frame is taken in any case.
map_fresh(page) ==
  /\ Becomes(map_page(Allocated(Now), page, Lowest(free)))
  /\ owned' = owned \cup {page}

is_virtual_memory_mapped(page) ==
  LET R == SELF
      pml4 == MMU(mem, <<R, R, R, R>>)
      pdpr == MMU(mem, <<R, R, R, page[1]>>)
      pd   == MMU(mem, <<R, R, page[1], page[2]>>)
      pt   == MMU(mem, <<R, page[1], page[2], page[3]>>)
  IN  /\ At(mem, pml4, page[1]) # NONE
      /\ At(mem, pdpr, page[2]) # NONE
      /\ At(mem, pd, page[3]) # NONE
      /\ At(mem, pt, page[4]) # NONE

map_if_not_mapped(page) ==
  /\ ~is_virtual_memory_mapped(page)
  /\ Becomes(map_page(Allocated(Now), page, Lowest(free)))
  /\ owned' = owned \cup {page}

already_mapped(page) ==
  /\ is_virtual_memory_mapped(page)
  /\ owned' = owned \cup {page}
  /\ UNCHANGED <<mem, free, out>>

\* map_page(address, 0, p4_table, 0): an entry that is not present, if none is.
unmap(page) ==
  /\ Becomes(map_page(Now, page, NONE))
  /\ UNCHANGED owned

\* A client writes to memory it was given; what the boot mapped is the kernel.
store(page) ==
  /\ page \in owned
  /\ MMU(mem, page) \in Spare
  /\ \E c \in Contents :
       mem' = [mem EXCEPT ![MMU(mem, page)] = c]
  /\ UNCHANGED <<free, out, owned>>

Next ==
  /\ ~out
  /\ \E page \in Pages :
       \/ map_fresh(page) \/ map_if_not_mapped(page) \/ already_mapped(page)
       \/ unmap(page)     \/ store(page)

Spec == Init /\ [][Next]_vars

----------------------------------------------------------------------------
(***************************************************************************)
(* Properties.                                                             *)
(***************************************************************************)
TypeOK ==
  /\ mem \in [Frame -> [Index -> Entry]]
  /\ free \subseteq Spare
  /\ out \in BOOLEAN
  /\ owned \subseteq Pages

\* The three tables that the walk to a page uses.
PDPR(m, w) == At(m, p4_table, w[1])
PD(m, w) == At(m, PDPR(m, w), w[2])
PT(m, w) == At(m, PD(m, w), w[3])

\* The walks outside the windows.  A table that boot.asm gave two names is
\* counted under one.
Walks ==
  {w \in (Index \ {SELF, TOP}) \X Index \X Index :
     w[1] = 0 => w[2] # TOP - 1}

Tables(m) ==
  ({PDPR(m, w) : w \in Walks} \cup {PD(m, w) : w \in Walks}
     \cup {PT(m, w) : w \in Walks}) \ {NONE}

\* Every page that has a frame, with the frame.
Mapping(m) ==
  LET reached == {w \in Walks : PT(m, w) # NONE}
      leaves(t) == {i \in Index : m[t][i] # NONE}
  IN  UNION {{<< <<w[1], w[2], w[3], i>>, m[PT(m, w)][i] >> : i \in leaves(PT(m, w))} :
               w \in reached}

InPages(m) == {e[2] : e \in Mapping(m)}

\* No client has a page that is a page table: the tables taken from the bitmap
\* are in no page outside the windows, so that a store cannot change them.
TablesArePrivate ==
  ~out => Tables(mem) \cap Spare \cap InPages(mem) = {}

\* A frame leaves the bitmap to be a table or the frame of a page; the only one
\* that is lost is the one vmm_allocate_area takes for a page that has one.
FramesAreUsed ==
  [][~out' =>
       \/ free \ free' \subseteq Tables(mem') \cup InPages(mem')
       \/ \E p \in Pages : map_fresh(p) /\ MMU(mem, p) # NONE]_vars

\* map_page gives a frame to one page that has none, and no walk to any other
\* page is changed by a table that is created, cleaned or filled on the way.
Space == INSTANCE AddressSpace WITH
           mapping <- Mapping(mem),
           spare   <- free,
           valid   <- ~out

ImplementsAddressSpace == Space!Spec
=============================================================================
