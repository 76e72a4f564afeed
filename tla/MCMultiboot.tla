----------------------------- MODULE MCMultiboot -----------------------------
(***************************************************************************)
(* Small machines: a page is 4 bytes, upper memory starts at 24 (page 6),  *)
(* the kernel image ends inside page 8, and tags are aligned to 2 bytes.   *)
(***************************************************************************)
EXTENDS Multiboot, FiniteSets

Entry(a, e, t) == [addr |-> a, len |-> e - a, type |-> t]

\* The map of a PC: low memory, a reserved area below upper memory, upper
\* memory, ACPI tables at its end (type 3), then reserved regions of which
\* parse_mmap reaches none after the first.
PcMap(top) ==
  << Entry(0, 18, AVAILABLE), Entry(18, 24, RESERVED),
     Entry(24, top, AVAILABLE), Entry(top, top + 3, 3),
     Entry(top + 3, top + 20, RESERVED), Entry(top + 30, top + 34, RESERVED) >>

\* A map that is not sorted: the search for reserved regions ends before it
\* has seen the one in low memory.
UnsortedMap ==
  << Entry(118, 125, RESERVED), Entry(12, 24, RESERVED), Entry(24, 112, AVAILABLE) >>

\* 25 pages and a remainder, so three rows and one page out of the bitmap's
\* reach; 24 pages, twice; less memory than the boot reserves, where the
\* allocator starts exhausted; and a machine that leaves no row at all.
Pc == [mem_lower |-> 18, mem_upper |-> 83, mmap |-> PcMap(107)]
Unsorted == [mem_lower |-> 12, mem_upper |-> 88, mmap |-> UnsortedMap]
Even == [mem_lower |-> 16, mem_upper |-> 80, mmap |-> PcMap(104)]
Small == [mem_lower |-> 18, mem_upper |-> 32, mmap |-> PcMap(56)]
Tiny == [mem_lower |-> 18, mem_upper |-> 10, mmap |-> PcMap(34)]

MCBootInfos == {Pc, Unsorted, Even, Small, Tiny}

\* A tag of type 18 is a header only, like the end tag; others end between
\* two aligned addresses.
Tag(t) == [type |-> t, size |-> IF t \in {18, BASIC_MEMINFO} THEN 2 ELSE 3]

\* All orders of the two tags every loader passes and up to two others.
Lists ==
  UNION {{[i \in 1 .. n |-> Tag(p[i])] :
            p \in {q \in [1 .. n -> {1, 4, 6, 8, 14, 15, 18}] :
                     /\ {4, 6} \subseteq {q[i] : i \in 1 .. n}
                     /\ Cardinality({q[i] : i \in 1 .. n}) = n}} : n \in 2 .. 4}

UsualList == << Tag(4), Tag(6), Tag(8) >>
MapFirst == << Tag(6), Tag(8), Tag(4) >>

Passed(list, at, machine) == [tags |-> list, base |-> at, boot |-> machine]

\* Every list in front of a machine that has no page to give; two of them on
\* the others, in low memory, right behind the kernel, and further behind it.
MCInfos ==
  {Passed(l, 34, Small) : l \in Lists}
  \cup {Passed(UsualList, 2, Tiny), Passed(UsualList, 2, Pc), Passed(MapFirst, 2, Even)}
  \cup {Passed(l, at, m) : l \in {UsualList, MapFirst}, at \in {34, 36, 50}, m \in {Pc, Unsorted}}
=============================================================================
