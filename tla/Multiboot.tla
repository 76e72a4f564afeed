------------------------------ MODULE Multiboot ------------------------------
(***************************************************************************)
(* The boot information: read_multiboot of src/boot/boot.asm looks for the *)
(* tags the kernel needs and stores their addresses, and init_pmm follows  *)
(* them (see PageBitmap).  The information stays where the boot loader put *)
(* it, below the end of the memory that boot.asm maps: in low memory or    *)
(* behind the kernel, where the kernel puts its bitmap too.                *)
(***************************************************************************)
EXTENDS PageBitmap

CONSTANTS ALIGN,   \* 8: tags are padded to it, and it is the size of an end tag
          Infos    \* what the boot loader may pass, and where: [tags, base, boot]

\* Types of tags; one ACPI tag is for old and one for new tables.
END == 0
BASIC_MEMINFO == 4
MMAP == 6
FRAMEBUFFER == 8
ACPI_OLD == 14
ACPI_NEW == 15

VARIABLES
  info,      \* the boot information of this machine
  reading,   \* boot.asm is in its loop
  rax,       \* the tag it looks at
  data,      \* multiboot_framebuffer_data, ..._mmap_data and so on; 0 at first
  garbled    \* the map was overwritten before parse_mmap read it

tagVars == <<info, reading, rax, data, garbled>>
bootVars == <<vars, tagVars>>

----------------------------------------------------------------------------
(***************************************************************************)
(* What multiboot2 promises: a fixed part as large as an end tag, then the *)
(* tags, each of them aligned, then the end tag.  Where they lie behind    *)
(* the kernel they end with the pages that init_bitmap reserves there: the *)
(* page in which its 12 MB end is not one of them.                         *)
(***************************************************************************)
Padded(n) == ((n + ALIGN - 1) \div ALIGN) * ALIGN

AllTags(m) == Append(m.tags, [type |-> END, size |-> ALIGN])

\* How far from the start tag i is.
Offsets(m) ==
  LET at[i \in 1 .. Len(m.tags) + 1] ==
        IF i = 1 THEN ALIGN ELSE at[i - 1] + Padded(m.tags[i - 1].size)
  IN  at

Length(m) == Offsets(m)[Len(m.tags) + 1] + ALIGN

IsInfo(m) ==
  /\ m.boot \in BootInfos
  /\ m.base \in Nat /\ m.base % ALIGN = 0
  /\ m.tags \in Seq([type : Nat, size : Nat])
  /\ \A i \in DOMAIN m.tags : m.tags[i].type # END /\ m.tags[i].size >= ALIGN
  /\ {BASIC_MEMINFO, MMAP} \subseteq {m.tags[i].type : i \in DOMAIN m.tags}
  /\ \/ m.base + Length(m) <= m.boot.mem_lower
     \/ /\ KernelEnd <= m.base
        /\ m.base + Length(m) <= UpperBase + m.boot.mem_upper
        /\ m.base + Length(m) <= FirstPage * PageSize

ASSUME InfoAssumption ==
  /\ ALIGN \in Nat \ {0}
  /\ \A m \in Infos : IsInfo(m)

AddressOf(i) == info.base + Offsets(info)[i]

TagAt(a) == AllTags(info)[CHOOSE i \in DOMAIN AllTags(info) : AddressOf(i) = a]

\* The addresses of all tags of some types.
TagsOf(types) ==
  {AddressOf(i) : i \in {j \in DOMAIN AllTags(info) : AllTags(info)[j].type \in types}}

Bytes(a, n) == a .. a + n - 1

BootInit ==
  /\ info \in Infos
  /\ Init /\ boot = info.boot
  /\ reading = TRUE /\ rax = info.base + ALIGN
  /\ data = [d \in {"framebuffer", "mmap", "basic_meminfo", "acpi"} |-> 0]
  /\ garbled = FALSE

----------------------------------------------------------------------------
(***************************************************************************)
(* read_multiboot.  The test for the end comes after the step to the next  *)
(* tag, so that the first one is never taken for the end.  (For what it    *)
(* maps when it finds the framebuffer see Paging.)                         *)
(***************************************************************************)
Wanted(d) ==
  CASE d = "framebuffer"   -> {FRAMEBUFFER}
    [] d = "mmap"          -> {MMAP}
    [] d = "basic_meminfo" -> {BASIC_MEMINFO}
    [] d = "acpi"          -> {ACPI_OLD, ACPI_NEW}

\* Seeded bug: the padding between tags is forgotten.
NextTag_Bad(a, size) == a + size

\* (a + size + 7) & ~7
NextTag(a, size) == Padded(a + size)

EndTags == {a \in TagsOf({END}) : TagAt(a).size = ALIGN}

read_multiboot ==
  /\ reading
  /\ data' = [d \in DOMAIN data |-> IF TagAt(rax).type \in Wanted(d) THEN rax ELSE data[d]]
  /\ rax' = NextTag(rax, TagAt(rax).size)
  /\ reading' = (rax' \notin EndTags)
  /\ UNCHANGED <<vars, info, garbled>>

----------------------------------------------------------------------------
(***************************************************************************)
(* The kernel.  init_bitmap clears a byte for each row, right behind the   *)
(* kernel, after it was told the size of memory and before it reads the    *)
(* map.                                                                    *)
(***************************************************************************)
InKernel(A) == ~reading /\ ~garbled /\ A /\ UNCHANGED tagVars

BitmapBytes == Bytes(KernelEnd, Rows)

MapBytes == Bytes(data["mmap"], TagAt(data["mmap"]).size)

parse_intact == InKernel(parse_mmap) /\ MapBytes \cap BitmapBytes = {}

\* What parse_mmap makes of the bitmap is not modelled.
parse_garbage ==
  /\ ~reading /\ ~garbled /\ phase = "parse_mmap"
  /\ MapBytes \cap BitmapBytes # {}
  /\ garbled' = TRUE
  /\ UNCHANGED <<vars, info, reading, rax, data>>

BootNext ==
  \/ read_multiboot
  \/ InKernel(init_bitmap) \/ parse_intact \/ parse_garbage
  \/ InKernel(allocate_physical_page) \/ InKernel(allocate_exhausted)
  \/ InKernel(free_page)

BootSpec == BootInit /\ [][BootNext]_bootVars

----------------------------------------------------------------------------
(***************************************************************************)
(* Properties.                                                             *)
(***************************************************************************)
\* Whatever their sizes and order, the loop goes from tag to tag up to the end
\* tag and has found each one the kernel needs by then: the last of its kind,
\* or none.
TagsFound ==
  /\ rax \in {AddressOf(i) : i \in DOMAIN AllTags(info)}
  /\ ~reading =>
       /\ rax \in EndTags
       /\ \A d \in DOMAIN data :
            IF TagsOf(Wanted(d)) = {} THEN data[d] = 0
            ELSE /\ data[d] \in TagsOf(Wanted(d))
                 /\ \A a \in TagsOf(Wanted(d)) : a <= data[d]

\* The information is read as long as the kernel runs (the framebuffer tag, for
\* every picture), but nothing in the allocator knows of it: no page that is
\* given out has a byte of it, although the memory map calls it available.
\* Only the bitmap can overwrite it, where it lies right behind the kernel.
InformationIsKept ==
  /\ \A p \in held :
       Bytes(p * PageSize, PageSize) \cap Bytes(info.base, Length(info)) = {}
  /\ garbled => info.base \in Bytes(KernelEnd, Rows)
=============================================================================
