----------------------------- MODULE HeapPages -----------------------------
(***************************************************************************)
(* The pages under the kernel heap, src/mem/kheap.c.                       *)
(*                                                                         *)
(* init_kheap takes a region from the virtual memory manager, which maps   *)
(* it at once.  Behind the region the heap goes on growing: kmalloc asks   *)
(* map_if_not_mapped for the page of each node its search comes to, and    *)
(* for the page its block starts in.  Every step of KHeap is taken here    *)
(* with the pages it touches and the pages it maps; touching a page that   *)
(* is not mapped is a page fault, and interrupt_dispatch halts.  There are *)
(* always frames (see Paging for when there are none).                     *)
(***************************************************************************)
EXTENDS KHeap

CONSTANTS PAGE,     \* bytes in a page
          Origin,   \* offset of heap_start in its page
          Regions   \* sizes, in pages, of the region init_kheap may get

ASSUME PagesAssumption ==
  /\ PAGE \in Nat \ {0}
  /\ Origin \in Nat
  /\ Origin + HDR <= PAGE   \* heap_start is 160 bytes behind a page boundary
  /\ Regions \subseteq Nat \ {0}

VARIABLES
  region,   \* the number of pages init_kheap got
  mapped,   \* the pages that are mapped, from the one of heap_start on
  fault     \* the page fault that halted the kernel

pageVars == <<vars, region, mapped, fault>>

----------------------------------------------------------------------------
Page(a) == (a + Origin) \div PAGE

Pages(first, last) == {Page(a) : a \in first .. last}

NoFault == [by |-> "none", at |-> 0]

\* Seeded fault, for RegionHolds: the last page of the region is forgotten.
InRegion_Bad == 0 .. region - 2

\* vmm_allocate maps a page at a time, up to the size rounded up.
InRegion == 0 .. region - 1

PagesInit ==
  /\ Init
  /\ region \in Regions
  /\ mapped = InRegion
  /\ fault = NoFault

\* The code goes on where touched is mapped, and halts where it is not.
Runs(touched) == fault = NoFault /\ touched \subseteq mapped

Halts(touched, who, address) ==
  /\ fault = NoFault /\ ~(touched \subseteq mapped)
  /\ fault' = [by |-> who, at |-> address]
  /\ UNCHANGED <<vars, region, mapped>>

HeaderPages(a) == Pages(a, a + HDR - 1)

map_if_not_mapped(a) == mapped' = mapped \cup {Page(a)}

\* A search ends, and a node is told to be unusable, without a fault.
Quiet(A) == A /\ fault = NoFault /\ UNCHANGED <<region, mapped, fault>>

----------------------------------------------------------------------------
(***************************************************************************)
(* kmalloc                                                                 *)
(***************************************************************************)
\* Seeded fault, for FaultsAtPageEdges: the walk goes on to a page nobody mapped.
walk_Bad ==
  /\ Runs(HeaderPages(current)) /\ kmalloc_next
  /\ UNCHANGED <<region, mapped, fault>>

walk ==
  /\ Runs(HeaderPages(current)) /\ kmalloc_next
  /\ map_if_not_mapped(current')
  /\ UNCHANGED <<region, fault>>

\* What is mapped when kmalloc returns the block behind node a: the page the
\* block starts in.  range_map adds nothing: it ends in front of that page.
Granted(a) == mapped \cup {Page(a + HDR)}

\* The client uses all of its block, or does not use it (KHeap forgets the
\* headers in it anyway: what they were may still be read there).
Used(a) == {{}, IF arg = 0 THEN {} ELSE Pages(a + HDR, a + HDR + arg - 1)}

\* The second header of a hole that is split is written before anything is
\* mapped.
SplitPages(a) ==
  UNION {IF HasLeftover(h.size, arg + HDR)
           THEN HeaderPages(a + HDR + arg) ELSE {} :
         h \in {x \in Reads(a) : Fits(x)}}

serve ==
  /\ \/ Runs(HeaderPages(current)) /\ kmalloc_append
     \/ Runs(HeaderPages(current) \cup SplitPages(current)) /\ kmalloc_reuse
  /\ mapped' = Granted(current)
  /\ \E use \in Used(current) :
       fault' = IF use \subseteq Granted(current) THEN NoFault
                ELSE [by |-> "client", at |-> current]
  /\ UNCHANGED region

kmalloc_faults ==
  /\ pc = "kmalloc"
  /\ \/ Halts(HeaderPages(current), "header", current)
     \/ /\ current < heap_head /\ Runs(HeaderPages(current))
        /\ Halts(SplitPages(current), "split", current)

----------------------------------------------------------------------------
(***************************************************************************)
(* kfree: nothing is mapped, and kheap_merge looks at the node behind the  *)
(* one that is freed.                                                      *)
(***************************************************************************)
search == Runs(HeaderPages(current)) /\ kfree_next /\ UNCHANGED <<region, mapped, fault>>

\* kheap_merge reads the status of the next node and, if that is free, its
\* size; the model takes the header to be read as a whole.
NextPages ==
  UNION {HeaderPages(NextOf(current, h)) : h \in {x \in Reads(current) : Matches(x)}}

merge ==
  /\ Runs(HeaderPages(current) \cup NextPages) /\ kfree_found
  /\ UNCHANGED <<region, mapped, fault>>

kfree_faults ==
  /\ pc = "kfree" /\ current < heap_head
  /\ Halts(HeaderPages(current) \cup NextPages, "next", current)

----------------------------------------------------------------------------
PagesLoop ==
  \/ walk \/ serve \/ kmalloc_faults
  \/ search \/ merge \/ kfree_faults \/ Quiet(kfree_unknown)

PagesNext ==
  \/ \E size \in Sizes : Quiet(kmalloc(size))
  \/ \E p \in HDR .. Cells : Quiet(kfree(p))
  \/ PagesLoop

PagesSpec == PagesInit /\ [][PagesNext]_pageVars

\* A call that was made is carried through.
FairPagesSpec == PagesSpec /\ WF_pageVars(PagesLoop)

----------------------------------------------------------------------------
(***************************************************************************)
(* Properties.                                                             *)
(***************************************************************************)
Straddles(a) == Page(a) # Page(a + HDR - 1)

\* However far the heap has grown, there are four ways to a page fault, and
\* all of them lead over the edge of a page:
\* - a new node starts at the end of a page, and its header reaches over it;
\* - a hole is split in a later page than its header starts in, where no
\*   client has been so far;
\* - kheap_merge looks at a node behind the end of the chain;
\* - a client gets to the end of the page its block starts in.
\* A block that fits in the page it starts in can be used wherever it is.
FaultsAtPageEdges ==
  /\ fault.by = "header" => Straddles(fault.at) /\ fault.at >= heap_head
  /\ fault.by = "split" =>
       Page(fault.at) # Page(fault.at + HDR + arg + HDR - 1)
  /\ fault.by = "next" => NextOf(fault.at, headers[fault.at]) >= heap_head
  /\ fault.by = "client" =>
       Page(fault.at + HDR) # Page(fault.at + HDR + arg - 1)

\* As long as the chain and the node behind it end in the region, there are
\* no faults at all.
RegionHolds ==
  (\A a \in DOMAIN headers : Page(NextOf(a, headers[a]) + HDR - 1) < region)
     => fault = NoFault

\* Until it halts, every call of kmalloc and kfree returns: a search ends.
CallsReturnOrHalt == pc # "idle" ~> pc = "idle" \/ fault # NoFault
=============================================================================
