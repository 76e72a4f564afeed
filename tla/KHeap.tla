------------------------------- MODULE KHeap -------------------------------
(***************************************************************************)
(* The kernel heap, src/mem/kheap.c: a chain of nodes, each a header and a *)
(* payload right behind it, that is searched from its start.               *)
(*                                                                         *)
(* An address is a number of bytes from heap_start.  Memory is what a      *)
(* header read there would yield: the header itself where one is intact,   *)
(* and anything elsewhere, be it the bytes of a client, a header that was  *)
(* overwritten, or memory never written to: nobody clears the frames the   *)
(* heap gets.  Each turn of a search loop is a step.  No interrupt handler *)
(* uses the heap, and create_process calls it with interrupts off.         *)
(***************************************************************************)
EXTENDS Integers

CONSTANTS HDR,        \* sizeof(heap_node): 9
          Sizes,      \* the sizes callers ask for
          JunkSizes,  \* what other bytes may read as, in the place of a size
          Cells       \* bound: bytes of heap the model looks at

ASSUME HeapAssumption ==
  /\ HDR \in Nat \ {0}
  /\ Sizes \subseteq Nat
  /\ JunkSizes \subseteq Nat   \* no 64-bit sum wraps
  /\ Cells \in Nat

USED == "USED"
FREE == "FREE"

VARIABLES
  headers,    \* the intact headers in memory, by address
  heap_head,
  live,       \* history: the blocks clients have, with the sizes they asked
  pc,         \* which call is running
  arg,        \* its argument: a size, or the pointer to free
  current,    \* current_node
  previous    \* previous, in kfree; -1 stands for NULL

vars == <<headers, heap_head, live, pc, arg, current, previous>>

NULL == -1

----------------------------------------------------------------------------
Header == [size : Nat, status : {USED, FREE}]

\* The headers a read at address a may yield.
Reads(a) ==
  IF a \in DOMAIN headers THEN {headers[a]}
  ELSE [size : JunkSizes, status : {USED, FREE}]

\* Headers that stay intact when the bytes from first to last are written.
Without(hs, first, last) ==
  [a \in {x \in DOMAIN hs : x + HDR <= first \/ last < x} |-> hs[a]]

Write(hs, a, size, status) ==
  LET rest == Without(hs, a, a + HDR - 1)
  IN  [x \in DOMAIN rest \cup {a} |->
         IF x = a THEN [size |-> size, status |-> status] ELSE rest[x]]

NextOf(a, h) == a + h.size + HDR

\* split: node a keeps size bytes and is used, a free node follows it.
split(hs, a, size, leftover) ==
  Write(Write(hs, a, size, USED), a + size + HDR, leftover, FREE)

\* The caller gets the address behind node a, and fills the block.
Return(a, hs) ==
  /\ headers' = Without(hs, a + HDR, a + HDR + arg - 1)
  /\ live' = [p \in DOMAIN live \cup {a + HDR} |->
                IF p = a + HDR THEN arg ELSE live[p]]
  /\ pc' = "idle"
  /\ UNCHANGED <<arg, current, previous>>

Init ==
  /\ headers = << >>
  /\ heap_head = 0
  /\ live = << >>
  /\ pc = "idle" /\ arg = 0 /\ current = 0 /\ previous = NULL

\* The bound: calls are made while n more bytes fit behind every header.
RoomFor(n) == \A a \in DOMAIN headers : NextOf(a, headers[a]) + n <= Cells

----------------------------------------------------------------------------
(***************************************************************************)
(* kmalloc                                                                 *)
(***************************************************************************)
kmalloc(size) ==
  /\ pc = "idle" /\ RoomFor(HDR + size)
  /\ pc' = "kmalloc" /\ arg' = size /\ current' = 0
  /\ UNCHANGED <<headers, heap_head, live, previous>>

\* Seeded fault, for ImplementsArena: the status is not looked at.
Fits_Bad(h) == h.size >= arg

Fits(h) == h.size >= arg /\ h.status = FREE

kmalloc_next ==
  /\ pc = "kmalloc" /\ current < heap_head
  /\ \E h \in Reads(current) :
       /\ ~Fits(h)
       /\ current' = NextOf(current, h)
  /\ UNCHANGED <<headers, heap_head, live, pc, arg, previous>>

\* A hole is split if it is larger than the block and one more header.
HasLeftover(gap, need) == need < gap

kmalloc_reuse ==
  /\ pc = "kmalloc" /\ current < heap_head
  /\ \E h \in Reads(current) :
       /\ Fits(h)
       /\ LET need == arg + HDR
          IN  \/ /\ HasLeftover(h.size, need)
                 /\ Return(current, split(headers, current, arg, h.size - need))
              \/ /\ ~HasLeftover(h.size, need)
                 /\ Return(current, Write(headers, current, h.size, USED))
  /\ UNCHANGED heap_head

\* Seeded fault, for LiveBlocksAreFound: the new node stays behind the end.
kmalloc_append_Bad ==
  /\ pc = "kmalloc" /\ current >= heap_head
  /\ heap_head' = current
  /\ Return(current, Write(headers, current, arg, USED))

\* The end of the chain: a new node, whatever memory there is.
kmalloc_append ==
  /\ pc = "kmalloc" /\ current >= heap_head
  /\ heap_head' = current + HDR
  /\ Return(current, Write(headers, current, arg, USED))

----------------------------------------------------------------------------
(***************************************************************************)
(* kfree                                                                   *)
(***************************************************************************)
kfree(p) ==
  /\ pc = "idle" /\ RoomFor(HDR)
  /\ pc' = "kfree" /\ arg' = p /\ current' = 0 /\ previous' = NULL
  /\ UNCHANGED <<headers, heap_head, live>>

Matches(h) == current = arg - HDR /\ h.status = USED

\* Seeded fault, for CallsReturn: previous moves on, current_node does not.
kfree_next_Bad ==
  /\ pc = "kfree" /\ current < heap_head
  /\ \E h \in Reads(current) :
       /\ ~Matches(h)
       /\ previous' = current
  /\ UNCHANGED <<headers, heap_head, live, pc, arg, current>>

kfree_next ==
  /\ pc = "kfree" /\ current < heap_head
  /\ \E h \in Reads(current) :
       /\ ~Matches(h)
       /\ previous' = current
       /\ current' = NextOf(current, h)
  /\ UNCHANGED <<headers, heap_head, live, pc, arg>>

\* Seeded fault, for LiveBlocksIntact: the header is counted twice.
Merged_BadHeader(h, n) ==
  IF n.status = FREE THEN h.size + n.size + 2 * HDR ELSE h.size

\* Seeded fault, for Coalesced: the next node is never taken in.
Merged_BadNone(h, n) == h.size

\* kheap_merge: the node takes in the next one, then the previous one takes
\* in the node, if they are free.  next is never NULL: behind the last node
\* of the chain it is whatever memory is there.
Merged(h, n) == IF n.status = FREE THEN h.size + n.size + HDR ELSE h.size

kfree_found ==
  /\ pc = "kfree" /\ current < heap_head
  /\ \E h \in Reads(current) :
       /\ Matches(h)
       /\ \E n \in Reads(NextOf(current, h)) :
            LET freed == Write(headers, current, Merged(h, n), FREE)
            IN  /\ NextOf(current, h) + n.size + HDR <= Cells
                /\ \/ /\ previous = NULL
                      /\ headers' = freed
                   \/ /\ previous # NULL
                      /\ \E q \in Reads(previous) :
                           headers' = IF q.status = FREE
                             THEN Write(freed, previous,
                                        q.size + Merged(h, n) + HDR, FREE)
                             ELSE freed
  /\ live' = [p \in DOMAIN live \ {arg} |-> live[p]]
  /\ pc' = "idle"
  /\ UNCHANGED <<heap_head, arg, current, previous>>

\* "Node not found": nothing changes.
kfree_unknown ==
  /\ pc = "kfree" /\ current >= heap_head
  /\ pc' = "idle"
  /\ UNCHANGED <<headers, heap_head, live, arg, current, previous>>

----------------------------------------------------------------------------
Loop ==
  \/ kmalloc_next \/ kmalloc_reuse \/ kmalloc_append
  \/ kfree_next \/ kfree_found \/ kfree_unknown

Next ==
  \/ \E size \in Sizes : kmalloc(size)
  \/ \E p \in HDR .. Cells : kfree(p)
  \/ Loop

Spec == Init /\ [][Next]_vars

----------------------------------------------------------------------------
(***************************************************************************)
(* Properties.                                                             *)
(***************************************************************************)
TypeOK ==
  /\ DOMAIN headers \subseteq Nat
  /\ \A a \in DOMAIN headers : headers[a] \in Header
  /\ heap_head \in Nat
  /\ \A p \in DOMAIN live : p \in Nat /\ live[p] \in Sizes
  /\ pc \in {"idle", "kmalloc", "kfree"}
  /\ arg \in Nat /\ (pc = "kmalloc" => arg \in Sizes)
  /\ current \in Nat /\ previous \in Nat \cup {NULL}

\* A client's block stays what it was given: its node is there, marked used
\* and large enough, and no header has been written into its bytes -- through
\* any number of splits and merges of the nodes around it.
LiveBlocksIntact ==
  \A p \in DOMAIN live :
    /\ p - HDR \in DOMAIN headers
    /\ headers[p - HDR].status = USED
    /\ headers[p - HDR].size >= live[p]
    /\ \A a \in DOMAIN headers : a + HDR <= p \/ p + live[p] <= a

\* The nodes a search visits: the least set with the first node in it, and
\* with each node in front of heap_head the one it leads to.
Chain ==
  LET Closed(S) == /\ 0 \in S
                   /\ \A a \in S : LET b == NextOf(a, headers[a])
                                   IN  b \in DOMAIN headers /\ b < heap_head => b \in S
  IN  {a \in DOMAIN headers :
         a < heap_head /\ \A S \in SUBSET DOMAIN headers : Closed(S) => a \in S}

\* Where a search ends: behind the last node.
ChainEnd ==
  IF Chain = {} THEN 0
  ELSE LET last == CHOOSE a \in Chain : \A b \in Chain : b <= a
       IN  NextOf(last, headers[last])

\* Freeing merges on both sides, so that no hole is ever split in two: a
\* request fails to find a hole only if there is none of its size.
Coalesced ==
  pc = "idle" =>
    \A a \in Chain :
       LET b == NextOf(a, headers[a])
       IN  ~(b \in Chain /\ headers[a].status = FREE /\ headers[b].status = FREE)

\* kfree finds every block that was not freed yet.
LiveBlocksAreFound == [][kfree_unknown => arg \notin DOMAIN live]_vars

\* "all free, so we can merge them together!" (kheap.c, kheap_merge): what a
\* merge takes in are nodes of the chain, so the chain ends where it ended.
FreeKeepsTheEnd == [][kfree_found => ChainEnd' = ChainEnd]_vars

\* The heap gives out blocks that are disjoint, and takes back no other block
\* than the one it is asked to.
Blocks == INSTANCE Arena WITH
            blocks <- {[addr |-> p, len |-> live[p]] : p \in DOMAIN live}

ImplementsArena == Blocks!Spec
=============================================================================
