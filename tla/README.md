# PotatOS: models, checks and proofs

This directory is the verification development of the PotatOS kernel: TLA+ modules translated from
its C and assembly sources, TLC configurations that check them on small instances, and theorems that
TLAPS proves for every value of the constants. Paths such as `src/mem/bitmap.c` are those of the
repository (`src/src/mem/bitmap.c` in `PROJECT.json`, where the repository root is `src/`).

## 1. The system

PotatOS is a 64-bit hobby kernel. GRUB loads it, `boot.asm` builds page tables and enters long mode,
and `kernel_main` runs `init_serial, init_vga, init_video, init_idt, init_pmm, init_vmm (which calls
init_kheap), init_scheluder, idt_activate` and then redraws the screen for ever. Everything up to
`init_scheluder` is one thread with interrupts off. The first `create_process` turns them on; from
there on the 18.2 Hz timer preempts whatever runs.

| Component | State | Operations | Interacts with |
|---|---|---|---|
| Physical pages: `mem/bitmap.c`, `mem/pmm.c`, `mem/mmap.c` | `bitmap`, `total_pages` | `init_bitmap`, `parse_mmap`, `allocate_physical_page`, `set_page_used`, `set_page_free` | called by paging and the VMM; fed by the multiboot tags |
| Page tables: `mem/paging.c` | four levels of tables, reached through slot 510 of the PML4 | `map_page`, `map_if_not_mapped`, `is_virtual_memory_mapped`, `get_physical_address` | takes its tables from the bitmap |
| Virtual memory: `mem/vmm.c` | list of regions from `vm_root` | `init_vmm`, `vmm_allocate`, `vmm_free` | paging, bitmap |
| Kernel heap: `mem/kheap.c` | chain of nodes, `heap_head` | `kmalloc`, `kfree` | VMM for its region, paging on demand |
| Scheduler: `scheluding/scheluder.c` | `snapshots`, `currentTask`, `numTasks`, one record per task | `init_scheluder`, `create_process`, `schelude` | heap; called by the timer interrupt |
| Interrupts: `arch/x86_64/idt` | IDT, the PICs, the stack of the interrupted thread | `init_idt`, `idt_activate`, `interrupt_dispatch`, `halt`, the stubs | scheduler, keyboard, framebuffer |
| Console: `drivers/vga.c`, `lib/stdio.c` | cursor, text buffer | `putchar`, `printf`, scrolling | every thread, and the interrupt handler |
| Keyboard: `drivers/keyboard.c` | ring of events, prefix state, modifiers | `keyboard_driver_irq_handler` | console |
| Framebuffer: `drivers/framebuffer` | 800 x 600 back buffer | drawing, `clear_framebuffer`, `flip_framebuffer` | console buffer; called by the boot thread for ever and by `halt` |
| Conversions: `lib/stdlib.c`, `lib/string.c`, `utils/hexdump.c` | none | `itoa`, `itoa64`, `reverse`, copying | `memmove` uses the heap |
| Boot: `boot/boot.asm`, `kernel/gdt.asm`, `linker.ld` | initial page tables, tag pointers | `start`, `read_multiboot` | everything |
| Serial: `drivers/serial.c`, `drivers/ports.c` | none | port writes with a busy wait | everything prints to it |

What is hard, and what makes each component correct:

- **Scheduler and interrupts.** Preemption of the boot thread while it is still creating tasks;
  ticks inside the handler (`schelude` executes `sti`, and the EOI comes before the stub loads the
  new `rsp`); ticks while a new task's registers are popped; stacks that grow over the records of
  their own tasks; an EOI that names no line; lines without a gate. Correct means: no register frame that
  has been overwritten is ever loaded, each save goes to the record of the thread that was
  interrupted, and every task runs again and again.
- **Physical pages.** Rounding, the order of the memory map, exhaustion (answered with address 0), the
  boot information in the memory that is given out. Correct means: a page has one client, is real memory
  nobody else uses, and is never lost.
- **Heap.** Long sequences of splits and merges, the end of the chain, bad pointers, growth behind the
  region. Correct means: live blocks are disjoint, intact and mapped, and holes do not fragment for ever.
- **Page tables and VMM.** Tables that are created on the way, an exhausted bitmap, entries that are
  already present, regions freed in part. Correct means: a mapping is added and nothing else moves.
- **Console, keyboard, framebuffer.** Two tasks printing, boundaries of the screen and of the ring; bytes
  that wait while keys change; a picture that is drawn while its text changes. Correct means: each key is
  handled, the screen gets to show what was printed, and nothing is written or drawn outside it.

`PROJECT.json` lists every hazard at its line and the properties that would catch it.

## 2. Modules and their correspondence with the code

### PagePool, PageBitmap: the physical pages

`PagePool` is the abstract specification: frames that are free or with one client, an answer that
means "none left" and is given only then. `PageBitmap` is `bitmap.c` with its two users at boot.

| Module | Code |
|---|---|
| `bitmap` (rows of set bits), `total_pages` | the variables of `bitmap.c:8-10`; a row is a byte |
| `boot` | the multiboot tags that `init_pmm` reads |
| `phase` | how far `init_pmm` has got |
| `held`, `result` | history: pages out with clients, the last return value |
| `init_bitmap`, `parse_mmap`, `allocate_physical_page` / `allocate_exhausted`, `free_page` | the functions; the last is `set_page_free` as `vmm_free` uses it |

Addresses are bytes, page size and memory sizes are constants. `IsBootInfo` states what the boot
loader promises. Every function is one step, because no interrupt handler calls the allocator and
its callers run with interrupts off.

### Multiboot: from the boot loader's tags to the first page

`Multiboot` extends `PageBitmap` with what comes before it, `read_multiboot` of `boot.asm`, and with the place
of the boot information in memory. `IsInfo` is what multiboot2 promises: aligned tags, an end tag, somewhere
in low memory or behind the kernel; not above `FirstPage`, the end of the kernel and its slack, below which all
memory lies that `boot.asm` maps: anywhere else the first access would fault.

| Module | Code |
|---|---|
| `info` | the tags, with their sizes, and the address they lie at |
| `rax`, `reading`, `data` | the register, the loop, and `multiboot_framebuffer_data`, `..._mmap_data` and so on |
| `read_multiboot` | a turn of the loop, `boot.asm:207-270`; `NextTag` is its padding, `EndTags` its end |
| `InKernel`, `parse_intact` | the actions of `PageBitmap` after it; `parse_mmap` with its map in one piece |
| `parse_garbage` | `parse_mmap` when `init_bitmap` has cleared the map it is about to read |

The last row is no misreading: the bitmap goes right behind the kernel (`bitmap.c:21`), and nothing asks whether the boot
loader has put its information there; "Kernel must take care not to overwrite these regions", says the
comment at `pmm.c:40`. `InformationIsKept` states the exact extent: this is the only way in which
the information is lost. No page that is given out holds any of it, although the memory map calls it
available, because everything `boot.asm` maps lies below the end of the kernel plus the 12 MB of slack.

### RoundRobin, Scheduler: tasks and the timer

`RoundRobin` is the promise: a ring that members join and around which the processor passes, fairly.
`Scheduler` has two actors: the boot program, whose position is `bootpc`, and the timer with its
interrupt handler, whose position is `mode`. A *context* is the address of a saved register frame
(which stack, how deep, at which offset the stack was when the first frame was pushed), and a context
is `Intact` while memory at that place still holds the frame. That is what the properties are about;
the values in the registers are not modelled.

| Module | Code |
|---|---|
| `snapshots`, `proc`, `currentTask`, `numTasks` | the globals of `scheluder.c` and the `context` field of each record; `proc[NULL]` is the record at address 0 |
| `stacks`, `offset`, `thread` | the frames on each stack, and the stack `rsp` points into |
| `mode` | `run`: the thread's own code; `eoi`: in the handler before the EOI; `switch`: from the EOI to `mov rsp, rax`; `enter`: popping a new task's registers from the heap |
| `IF_flag`, `pending`, `in_service` | the interrupt flag and the PIC |
| `init_scheluder` ... `idt_activate` | the boot thread, split where an interrupt can come: `create_process` is one step from `cli` to `sti`, `publish` is the store into the slot after it |
| `timer_interrupt`, `schelude` | the stub's pushes, `interrupt_dispatch` and `schelude` up to the EOI |
| `end_of_interrupt`, `restore_context`, `restore_garbage`, `enter_task` | the EOI, the stack switch and the `iretq` |

The code has four windows in which a tick (or, in the first case, the contents of memory) does harm:

- `memory`: `init_scheluder` writes through pointers it never set (`scheluder.c:160`);
- `publication`: between `sti` in `create_process` and the store of the slot (`scheluder.c:113`, `165-168`), with two or more tasks;
- `nesting`: between the EOI and the load of `rsp` (`idt.c:279`, `idt_stub.asm:15`), with two or more tasks;
- `entry`: while the registers of a new task are popped from the heap (`idt_stub.asm:16-18`).

The constant `Windows` says which of them the behaviours include, and the history variable `hit`
which of them were hit. So the model contains what goes wrong, and the properties say precisely that
nothing else does. `lost` means that the processor has loaded something that is no frame.

### Stacks: where tasks keep what

`Stacks` is the same scheduler seen by the byte. `alloc_stack` returns the *low* end of its block and
`create_process` stores it as `rsp`, so a task never uses its 16 KB: it pushes over the header of
that block, over its own first context, over its own record, and on into the unused block of the
task before it. `schelude` in turn writes `context` and `process_status` into that record.

| Module | Code |
|---|---|
| `RecordOf`, `ContextOf`, `StackOf`, `HeadersOf` | the three blocks of `create_process`, in the order `kmalloc` appends them |
| `depth`, `low` | how much a task has pushed, and the lowest byte its stack has been to |
| `create_process` | three times `kmalloc`, which follows the chain of headers, or what has become of it |
| `run` | the task calls and returns |
| `FrameOf` | where the processor (which aligns to 16) and the stub put the frame of a tick |
| `From`, `Size`, `Hits` | the parts of the stack in a tick: the frames of the handler, the registers the stub has pushed, the five words it returns through, what the task has pushed; and which of them a store hits |
| `BySave`, `ByChoice` | what the stores of `schelude` hit: context and status of the task that was interrupted, status of the next one |
| `Misled`, `InHandler` | the status or the context stored over the address `interrupt_dispatch` returns to, and the context stored where the handler goes on pushing |
| `damage` | what was hit of each task that waits |

Once a task's stack has grown over its record, the stores always land on something, and there is no depth at which the
code is safe by design: it depends on whether what they hit is in use. `DamageDependsOnDepth`
says which part it can be at which depth, in five ranges that overlap. With the kernel's sizes a context pointer
is lost at fewer than 26 bytes of depth and the handler astray at fewer than 66; the saved registers are hit between 4
and 201, the words of the return between 140 and 241, and the task's own data beyond 194. In general a hit *may* matter: a register may not be
in use, a local not read again. The model leaves that open, and counts a task as lost at once where the code may get on for a while. In
one case there is nothing to leave open: where a store lies wholly within the address `interrupt_dispatch` returns to (`Misled`). In the kernel's layout
that is so for the second task that `init_scheluder` creates behind slot 0 (stack at 10 modulo 16) at depths 48 and
56, the entry of `printf`: READY is zero, and the call of the stub returns to where the low half of its address is zero.

No stack ever reaches the stack or record of another task
(`StacksKeepApart`), and the heap is only broken for `create_process` if a task ran before the last one was
created (`HeapHolds`), which takes a tick between two calls of `create_process`. Sizes are the kernel's own.
`StacksAssumption` asks of them that the record ends with its context pointer and that a stack with a frame and a
handler on it fits into its block, at every depth and at none.

### Interrupts: gates, PICs and the way through the handler

| Module | Code |
|---|---|
| `phase` | before and after `init_idt`; `halted` is the loop of `halt` |
| `IF_flag`, `irr`, `isr` | the processor's flag, and what the PICs keep of each line |
| `handlers` | the frames of `interrupt_dispatch` on the stack |
| `full` | the one byte the keyboard controller holds: its line is up as long as it does |
| `init_idt`, `sti`, `cli`, `exception` | `idt.c:76-104` and `164-257` |
| `accept` | the processor takes the line with the highest priority; without a gate that is a protection fault |
| `keyboard_driver_irq_handler`, `schelude`, `end_of_interrupt` | the calls of `interrupt_dispatch`, as far as interrupts notice them |

All sixteen lines are unmasked (`idt.c:89-90`) and three have a gate, so that the interrupt of any other device is a fault
(`accept`); `OnlyStrangersHalt` says that timer and keyboard never are. `end_of_interrupt` is the EOI and the way back to the
thread in one step: a tick between the two (`idt.c:279`, `idt_stub.asm:15-18`), which the `sti` in `schelude` allows, counts here as one on the
thread, since nothing is in service any more. What it does to the stacks is the window `nesting` of `Scheduler`. `init_idt` resets the PICs; a key typed before
that has raised the line already, and as its byte is read only by the handler the line never rises again:
`KeysAreHandled` says that this (`deaf`) is the only way in which a key is never handled. The EOI to the second
PIC (`idt.c:267-270`) is not reached, because no line of it has a gate.

### Arena, KHeap: the kernel heap

`Arena` is the promise: disjoint blocks, handed out and given back. `KHeap` is `kheap.c` with each
turn of a search loop as a step. Memory is `headers`, the intact headers by address. Reading a header anywhere else yields
anything (`JunkSizes`, used or free): what a client or an old header left there, or what was in the frames when the heap got
them, which nobody clears. A client overwrites its whole block when it gets it, which destroys
every old header in it. `kfree` is called with good and with bad pointers. What is external: sizes
are such that no 64-bit sum wraps. The properties speak of `Chain`, the least set of headers that holds the
first one and is closed under "next", and of `ChainEnd` behind its last member.

### HeapPages: the pages under the heap

`HeapPages` takes the steps of `KHeap` together with the pages they touch. `init_kheap` gets a region
that is mapped, `kmalloc` maps one page for each node it comes to and one for the block it returns
(`map_if_not_mapped`; the call of `range_map` behind it adds nothing, for its range ends in front of that page), and `kfree`
maps none. A step that touches a page that is not mapped is a page fault, `fault`, and the kernel halts.

| Module | Code |
|---|---|
| `region`, `mapped` | the pages of `vmm_allocate`, and those and what was mapped since |
| `walk`, `serve` | `kmalloc_next`, and `kmalloc_reuse` or `kmalloc_append` with `kheap.c:151-154`, `174-175` |
| `search`, `merge` | `kfree_next`, and `kfree_found` with the look at the next node |
| `kmalloc_faults`, `kfree_faults`, the client in `serve` | the access that faults |

`RegionHolds`: as long as the chain stays in the region nothing faults. `FaultsAtPageEdges`: behind it,
there are four ways to a fault, and all lead over the edge of a page: a header that straddles it, a split whose second
header lies behind it, the look at the node behind a freed one, and a block that does not end in the page it starts
in. A block that fits into its page can always be used. `PagesAssumption` says that the first header
lies in one page (`heap_start` is 160 bytes behind a boundary).

### AddressSpace, Paging: the page tables

`AddressSpace` is the promise of a mapping function: a page without a frame gets one that was spare, and
no other page notices; it ends when a request finds no spare frame. `Paging` is `paging.c` on the tables of
`boot.asm`. A table is a frame of memory (`mem`), and the code reaches it only through the recursive
slot of the PML4, so that a window on a table is a virtual page like any other and one operator, `MMU`,
does both walks: the processor's and the code's. A new table holds whatever its frame held (`Contents`),
until it is linked (`Put`) and then cleaned through its own window (`clean_new_table`), in the middle of the walk.

| Module | Code |
|---|---|
| `BootTable`, `Init` | `boot.asm:99-152`, `222-243`: two names for `p3_table` and two for `p2_table`, 4 MB mapped to itself, the framebuffer |
| `Ensured` | one of the three blocks of `map_page` that create a missing table |
| `map_page` | the function, as a map from state to state, for its callers to use |
| `map_fresh` | a turn of the loop of `vmm_allocate_area`: the frame is taken before the entry is looked at |
| `map_if_not_mapped` / `already_mapped` | the function; it tests all four levels first |
| `unmap` | `map_page(address, 0, p4_table, 0)` as in `vmm_free` |
| `store` | a client that writes to its memory (external) |
| `free`, `out` | the free bits of the bitmap (see `PagePool`), and whether a request was answered with 0 |

Addresses are numbers of frames and flags are left out: all present entries have the same two. All of it
runs with interrupts off, so a function is a step.

### Vmm: the virtual memory manager

`Vmm` extends `Paging`: regions are named by the number of their first page from `vm_root`, an address is
a number of bytes from there, and `header` is the header of every region. `PageAt` gives the place in the
page tables: `&vmm_area + ONE_GIGABYTE` is pointer arithmetic on `uint64_t`, wraps, and lands
in slot 0 of the PML4, in a gigabyte where nothing is mapped yet. `Chain` is what can be reached from the root,
and a new region goes behind its last member (`Behind`). `VmmAssumption` is about the machine: its memory ends
below the first gigabyte (`Makefile:93` gives it 128 MB), so that the frames are no addresses of the area, its lowest frames are
no addresses of the framebuffer either, and there are two frames more than the boot needs. `status` says what became of the kernel: `halted` after a page
fault, `lost` when it follows the `next` pointer of the root that nobody set. Two pieces of code are left
out because the properties show they are not reached: the search for a gap (`vmm.c:68-85`), for there is
no gap, and the end of `vmm_free`, for it faults before. `RegionsAreBacked` is the promise to
a client: what it asked for lies behind the header, in frames of its own.

### Terminal, Console: what is on the screen

`Terminal` is the promise to a reader: a page of lines that moves up when it is full. `Console` is
`vga.c` under `putchar`. Threads print with interrupts on, so a step makes one access to the cursor or
to the cells and a tick may fall between any two; the kernel is built without optimisation, and an
increment is a load (`inc_x`, `inc_y`, `dec_y`) and a store (`store_...`). Handlers print with
interrupts off, the keyboard's its echo and the timer's the lines of `print_task`: a character of theirs is one step, between any two of the threads'.

| Module | Code |
|---|---|
| `screen` | the cells of `vga_buffer` on the screen, without colours |
| `cursorX`, `cursorY` | the globals of `vga.c:6-7` |
| `call` | where each thread is in `putchar`, with its locals (for the scroll, its counter) |
| `putchar` ... `wrap` | `vga_get_cursor_pos` and the path of a letter in `vga_write_char` |
| `vga_next_line` ... `store_dec_y` | the new line; the loop of `vga_check_if_scroll_needed` with `vga_scroll_screen`, a row at a time |
| `keyboard`, `keyboard_erase` | `keyboard.c:153-155`, `scheluder.c:192`: the same functions in one step |

`overlap` is the history of whether two prints have ever overlapped, and `torn` counts the stores that
put back a cursor somebody else had changed. `ImplementsTerminal` says all is well without overlap; the
other properties say how bad it gets with it: letters are lost, and the cursor can leave the screen by a bounded
distance for each lost increment, but it comes back when the last print returns (`CursorSettles`). A row of the
page is what `draw_text` shows of it: it stops at the first cell that was never written. `ConsoleAssumption` asks for fewer
threads than rows (a handful and 37), or together they could push the cursor around the screen. The cells
that `vga_resize` adds to those `init_vga` cleared are taken to be blank. `DrawnInsidePicture` looks at
`draw_vga_buffer`: the last row does not fit into the 600 lines of the back buffer, and it is the scroll
that keeps it empty.

### Conversions: numbers as text

`itoa`, `itoa64` and `reverse`, a turn of each loop at a time, as the cases of `printf` (`c`...) and
`printfs` (`s`...) call them; `conversion` is the table of those cases. A character is the value of its
digit, and C's division is spelled out, for it rounds to zero; `Power`, of which the widths of words are made, is a recursive
function, so that the proofs can follow it. `Number` reads digits as people do, the highest first. That the digits of a long fit a
buffer with a character for every bit of an int is no accident of the widths that are checked: the assumption `LONG <= 3 * (INT - 1)`
(64 and 93 in the code) says that a digit in base ten is worth three bits. The properties say what holds of which argument, and so
name what does not: base 2 of a negative number and the smallest int are `Unprintable`, the 32 digits
of the smallest int in base 2 need 33 characters of a buffer of 32 (`stdio.c:85-86`), and the console, unlike the serial
port, passes an int to a function for 64 unsigned bits, so that -1 comes out as 2^64 - 1
(`Argument`).

### Keyboard, Input: the way of a key

`Keyboard` is `keyboard.c` against a keyboard whose bytes wait in `port`. A key is a member of `Letters` (has a
character), `Others` or `Shifts`; a byte remembers (for the properties) whether a shift key was held when it was sent. `prefix` and
`keyboard_driver_irq_handler` are the two paths of the handler. The ring has no reader in this
repository, so the promise is only that it holds the latest events (`RingKeepsLatest`). Both shift keys
share one bit: letting go of one turns the other off, which `PrintsAsTyped` excepts. The keyboard sends
no fake shift codes around prefixed keys.

`Input` composes it with `Interrupts`: a byte goes from the keyboard to the controller (`offer`), raises its
line, and is handled (`handle`) when the PIC and the processor get to it, between ticks and the interrupts of other
devices. The other steps of `Interrupts` leave the driver alone (`Beside`). The properties of both
components are checked of the composition, and `KeysAreHandled` is about both.

### Framebuffer: what gets on the screen

`Framebuffer` has the loop of `kernel_main` that draws the picture, a turn of each of its loops at a time,
threads and handlers that print meanwhile and never have to stop, and `halt`, which may come anywhere and draws once more. A pixel is known by
what was drawn there last, and a console row by the number of letters on it. The boot thread reads and draws a row in one turn.

| Module | Code |
|---|---|
| `mode` | width and height in the framebuffer tag; `boot.asm:27-28` only asks for 800 x 600 |
| `buffer`, `video` | `framebuffer_buffer` and what is behind `framebuffer` |
| `pc`, `i` | which function is at work, and the counter of its loop |
| `draw_background_image`, `draw_title`, `draw_vga_buffer`, `flip_framebuffer`, `clear_framebuffer` | the functions; `Rectangle` is a rectangle of `plot_pixel` |
| `rows`, `y`, `line` | what is on the console, its cursor's row, and how far `vga_scroll_screen` has got: the boot thread may draw between two of its rows |
| `print_letter`, `print_new_line`, `print_erase`, `vga_scroll_screen` | one print at a time (its accesses are in `Console`) |
| `print_overlapping` | from the first overlap on (`overlap`): anything may be on any row, at any time |
| `halt`, `halt_clear` ... `halt_flip` | `idt.c:164-175`, and the same loops called from there |

Drawing behind a buffer ends the behaviour with `outside`. `PlotsInside` says that this takes a mode that is wider or higher than the
one asked for, or prints that overlap: those can leave a letter in the last row, which does not fit the picture
(`DrawnInsidePicture` of `Console` is about that row). The other two properties are about the mode asked for. `ScreenCatchesUp` has a condition: *once printing
stops*, the screen shows the console. In this kernel it does not stop, for three tasks and every tick print
(`scheluder.c:192`), and then there is no such promise: the screen may be behind at every moment, and a line may scroll by
between two pictures. (The property without the condition fails in the same run.) What it says of the kernel as it is: whatever
the drawing runs into, no trace of it outlives one more picture.

## 3. Runs

| Run | Module, cfg | What it asks |
|---|---|---|
| `boot` | `MCMultiboot`, `Multiboot.cfg` | are the right tags found, are pages usable and free of boot information, do they form a `PagePool`? |
| `any_tick` | `MCScheduler`, `Scheduler.cfg` | is damage possible anywhere but in the four windows; if none is hit, is this a fair ring, does every task run, does the boot complete? |
| `heap` | `MCHeapPages`, `HeapPages.cfg` | blocks intact, holes merged, an `Arena`; where do calls fault, and do the others return? |
| `heap_end` | `MCKHeap`, `KHeapEnd.cfg` | does freeing keep the end of the chain? (it does not) |
| `paging` | `MCPaging`, `Paging.cfg` | does `map_page` change one page only, and keep tables out of clients' reach? |
| `vmm` | `MCVmm`, `Vmm.cfg` | regions backed, without gaps, large enough; can any be freed? (none) |
| `vmm_free` | `MCVmm`, `VmmFree.cfg` | is a region that was freed unmapped? (it is not) |
| `console` | `MCConsole`, `Console.cfg` | is the screen a page that moves up; where is the cursor when prints overlap? |
| `conversions` | `MCConversions`, `Conversions.cfg` | what prints as what it is, and in how many characters? |
| `input` | `MCInput`, `Input.cfg` | is each key handled, does shift stick, is a line ever blocked, who halts the kernel? |
| `stacks` | `MCStacks`, `Stacks.cfg` | what can a tick hit of a task's stack at which depth, and when is the heap broken? |
| `framebuffer` | `MCFramebuffer`, `Framebuffer.cfg` | is anything drawn outside, does the screen catch up once printing stops, what does `halt` leave? |

**Bounds.**

- `boot`: every order of the two tags each loader passes and up to two others, of sizes that end on and
  between aligned addresses. Pages of 4 bytes, machines of up to 26 pages: three bitmap rows and a page that
  none covers, one whose memory the boot reserves completely, one with no row at all; all control of
  the allocator is per bit and per row. The information lies in low memory, right behind the kernel (in the way of the
  bitmap), just behind that, and at the end of the slack. The long lists are passed to a machine that
  has no page to give: lists and pages do not interact further.
- `any_tick`: three tasks (the ring has a member that is neither current nor next) and two nested frames
  (one nested tick; a deeper one repeats it). All windows are open; the last three properties are about
  the behaviours in which none is hit.
- `heap`: headers of 2 bytes, requests of 0, 1, 3 and 6 bytes, 12 bytes of heap: three blocks in a row, so
  that a free with free neighbours on both sides happens, holes that are split and holes one byte too small to
  be. Pages of 4 bytes, so that a header can straddle two of them and a block can leave a page behind it that nobody has
  touched, where a later split puts its header; a region of one page, which the heap outgrows, or of all it needs.
- `paging`: tables of five entries, the fewest that hold two boot page tables, the framebuffer and the
  recursive slot; six pages that share all, some and none of their tables, one of them with two names;
  seven frames, so that the last request fails in any of the four places a frame is taken.
- `vmm`: pages of 4 bytes with headers of 2, requests that fill one page exactly, miss it by a byte, and
  fill two; eight pages, which need a second page table, and ten frames, so that memory runs out in the middle of a
  region.
- `console`: two threads and a handler on four rows of two letters, so that lines fill up and the screen
  scrolls by several rows; two torn increments (`MaxTorn`), the first of which can be built on by the
  second. Once prints have overlapped no property reads the cells, and a view leaves them out of the
  comparison of states. (Three threads with one torn increment have been checked the same way, in 4 million states.)
- `conversions`: 6 bits for an int and 12 for a long keep the proportions of the code (a buffer of as many
  characters as an int has bits) and reach every boundary.
- `input`: a letter and both shift keys, two bytes on their way (a prefix and its byte, or two keys), a ring
  of two, which is overwritten, and a disk on the second PIC. A view makes one state of all in which the kernel has halted by the same
  line: nothing happens in them, and the properties read no more of them.
- `stacks`: all sizes are the kernel's; three tasks, since a stack reaches no further than into the block
  before it; thirteen depths, on both sides of every field of the record, from the first instruction through the entry of `printf` to deep
  in it. The stacks of two tasks are aligned differently, and a return address that is hit is reached.
- `framebuffer`: a picture of 2 x 6, three rows of two letters (enough for a full row, a new line and a scroll while a picture
  is drawn), prints without a bound, the mode asked for, a smaller one whose size is no multiple of four, a wider and a
  higher one.

Deadlock is not checked where the system may stop: a memory map that was overwritten (`boot`), a lost
processor (`any_tick`), a heap nobody calls or a fault (`heap`), a kernel without frames or after a page fault
(`paging`, `vmm`), one that has halted (`input`, `stacks`, `framebuffer`).

**Fairness.** `any_tick` assumes that the PIT keeps ticking and that the processor takes a pending
interrupt and gets through the handler (weak fairness: nothing in the code masks the timer again),
that ticks do not nest for ever (strong fairness of `Resume`: a tick comes every 55 ms and the handler
is shorter than that), and that a thread makes progress if it gets the processor often enough (strong fairness of the boot
program's step, because a tick can always take the processor away just before it). `EveryTaskRuns` and `BootCompletes`
are promised to behaviours in which no tick hits a window. `heap` assumes
that a call that was made is carried through; no fairness is assumed for clients. `input`: the boot gets to `init_idt`, whoever switched
interrupts off switches them on again, the controller takes the next byte, handlers run (weak fairness), and the
processor takes a line that it can take again and again (strong fairness of `accept` for timer and keyboard,
because `cli` and other handlers come in between; it is per line, and the guard of `tick` says that a
tick has been served before the next one comes, which leaves room for the keyboard's line). That a handler is through within 55 ms holds
on the emulators this kernel runs on; with `DEBUG`, print_task also goes to a serial port, which as real hardware at 38400 baud
could take longer. `framebuffer`: the boot thread goes on drawing, which is `EveryTaskRuns` for slot 0; nothing is assumed of those who print, neither that they
stop nor that they go on.

**Findings.** `heap_end`: `kheap_merge` says "all free, so we can merge them together!"
(`kheap.c:187`), but `next` is computed from the freed node alone; behind the last node it is memory
that is no node. Where it reads as a free node, as zeros do, freeing the last block makes it
at least a header longer than it was and moves the end of the chain.

`vmm_free`: the comment at `vmm.c:120` says "unmap it!", but `get_physical_address` (`paging.c:248-269`)
follows the frames in the page tables as pointers. Only the first 4 MB are mapped to themselves and the tables
of the VMM come from behind the kernel and 12 MB of reserved memory, so the first call for any region
is a page fault and halts (`FreeFaults`); the region is off the list and still mapped. Only the
commented-out `allocation_test` calls it today.

Every property has a seeded fault (the definitions named `..._Bad...`, or listed in `PROJECT.json`)
under which its run fails.

## 4. Proofs

TLAPS proves the following for every value of the constants that meets the named assumptions.

**PageBitmapProofs** (`MachineAssumption`, `BootAssumption`, `BitmapAssumption`): `TypeCorrect`,
`PagesUsable`, `Conservation`, `Implementation`. `HeldPagesAreUsable` is not inductive: nothing in it
says why a *free* page would be usable. The invariant `Inv` adds that every page below `FirstPage`,
the end of the area the boot reserves, stays marked, and that a held page is marked and lies behind
it; then geometry finishes: in front of `FirstPage` lie the kernel and the bitmap, and the bitmap is too
short for anything behind upper memory. This shows what the code relies on: not `parse_mmap`, which
skips regions, but the 12 MB of slack, and the rounding down of the bitmap. `Implementation` maps the
set of free bits to the pool.

**PageBitmapProofs** also has `Multiboot` (`InfoAssumption` besides the three above): `LoopFindsTags`, `InformationStays`,
`BootImplementsPageBitmap`, and with it `PagesUsableAfterBoot` and `PoolAfterBoot`. The loop of the assembly is at one
of the tags, and each pointer holds the last tag of its kind in front of that one, or 0 if there was none (`At`, `Found`).
Where the tags lie is a recursive function, treated by well-founded induction (`OffsetsAre`). `InformationStays` puts
together where the loader may put its information, the place of the bitmap, and `Inv`: pages
that are given out lie behind `FirstPage`, the information in front of it.

**SchedulerProofs** (`SchedulerAssumption`): `TypeCorrect`, `NoEarlyTick`, `Soundness`, `Waiting`,
`RingImplementation`. The inductive invariant is `Inv == TypeOK /\ BootInv /\ (hit = {} => ~lost /\
TableInv /\ StackInv)`: where the boot program is bounds the number of tasks; slots are published in
order and only the last can lag behind; a task that waits is exactly one frame, to which its record
points; inside the handler `rax` is the top frame of the slot that is current, and while there is only
one task, nested ticks form a chain of frames each of which continues the one outside it. It holds for
any number of tasks and any depth of nesting, also with every window present: the windows break only
the third conjunct, and only by being hit. `RingImplementation` is the step simulation under the same
invariant: `ImplementsRing` as the run states it.

**ConsoleProofs** (`ConsoleAssumption`): `TypeCorrect`, `Settles`, `WritesStayNear`, `DrawingFits`,
`ReaderImplementation`. The bounds of TLC (`MaxTorn`, two threads) are gone here.

- `CursorSettles` speaks only of the moment when nobody prints; the invariant says why it comes true: whenever the cursor
  is behind the right edge, some thread is at `wrap` or `next_line`, and whenever it is in the last row or below, some
  thread is in the loop that scrolls. A store that tears puts back any column or row, but the thread that made it
  has its own comparison ahead. That the loops end is not part of it.
- For `WritesStayNear` this is counted (`Bounds`): the cursor is as many columns and rows outside as there are threads on their way to
  a comparison, and lost increments; and what a thread carries along was the cursor once (`Carried`).
- For `DrawingFits`, `Solo`: without overlap one thread is inside `putchar`, and where it is says where the cursor is. The
  last row is empty except while it is being moved up.
- For `ReaderImplementation` (`ImplementsTerminal` as the run states it), `Text`: the page the thread is making has a *draft*, the page last shown or that page with
  the letter at its end. The cells depict the draft, or during a scroll the draft with its first rows moved up, and the cursor is behind its
  last letter as soon as the thread has stored it. The moment the thread returns, `Row` of each cell row is
  the line of the draft, and the draft is one step of `Terminal` away.

**HeapProofs** (`HeapAssumption`, `PagesAssumption`): `HeapIsSound`, `BlocksStayIntact`, `HolesAreMerged`, `FreeFindsItsBlock`,
`HeapImplementsArena` of `KHeap`; `PagesImplementHeap`, `PromisesHoldInPages`, `FaultsNeedPageEdges`, `RegionIsSafe` of `HeapPages`.
None of the promises of the heap is inductive: a block that is intact says nothing about the header that will be split next. The
invariant `IInv` is that there is a set `C` of headers that starts at 0, climbs, and ends behind `heap_head` (`Linked`), has
every live block as the payload of a used member with no header inside (`Held`), has no two holes in a row
(`NoTwoHoles`), and is what the running search goes along (`Searching`; `Seeking` for the node that
`kfree` remembers). Stale headers in old blocks may be anything: no search reads one, except for the look behind the last
node, which is why the invariant asks of that node only that it ends at `heap_head` or behind it. `C` is unique and is
`Chain`. With pages, the steps are those of `KHeap` (`PagesImplementHeap`), and
the invariant adds that the region and every page a search has been to are mapped (`MappedInv`), so that a step faults only in one
of the four ways (`FaultInv`).

**InputProofs** (`InterruptsAssumption`, `InputAssumption`): `ServiceIsRunning`, `StrangersHalt`, `InputImplementsInterrupts`,
`KeysDisturbNoLine`, `RingHoldsLatest`, `TypedIsPrinted`. For the interrupts, `Alone`: there is at most one frame of a handler,
what is in service is its line, and interrupts are off in it unless it is the timer's behind `sti`, which no other line passes. The
composition takes only steps of `Interrupts` and only steps of `Keyboard`, so that each part is proved by itself. For
shift, `Faithful`: for every byte that waits, the last byte of a shift key in front of it, or the driver's bit if there is none,
*says* whether shift was held when it was sent, unless both shift keys have been down. For the ring,
`RingInv` counts positions modulo its size.

**StacksProofs** (`StacksAssumption`): `StacksAreApart`, `ChainBreaksEarly`, `DepthDecides`. `Confined`: a stack has not been
lower than its block. `Where` has the five ranges as inequalities between the sizes of the layout; `HitsTellDepth` gets from a store that overlaps a part
of the stack to its range, whatever the alignment. `Traced` says of each task that waits that all its damage is of a part in whose
range its depth is, which is where `DepthDecides` takes the depth of a task from that is lost only later, when its turn comes.

**ConsoleProofs, the numbers** (`ConversionsAssumption`): `ConversionsTypes`, `NumbersArePrinted`, `NumbersFit` of `Conversions`, for ints and words of
every width. The invariant `Taken` says, after each turn of the loops of `itoa` and `itoa64`, that the digits taken so far and what
is left of the value are together the number (`Number` of what is left, read on through the digits), and that what is left times the base
to the number of digits is no more than it. The first makes the text right. The second makes it short: a number below `2^n` has
no digit beyond its bits (`DigitsFit`), each worth one, three or four of them (`BitsOfDigits`). It holds of the
arguments that are not printed, too, whose remainders are negative. While the text is turned round (`Turned`) or copied (`Copied`), there
are such digits of which it is that much turned or copied. Powers and `Number` are recursive functions: `Iteration` constructs the one
function that solves such a recursion, and induction is done on sets of naturals (`SetInduction`), since the library's is out of reach.

**FramebufferProofs** (`FramebufferAssumption`): `DrawingStaysInside`, `HaltedPicture`, for any number of prints. `InLoops`: counters stay below the number of turns.
`Alternate`: until prints overlap, the last row of the console is empty, also in the middle of a scroll, and the cursor is in
it only during one. `Halted`: once halted, the buffer is clear up to where it was cleared, then holds
the rows drawn so far and nothing else, and the video memory is a copy up to where it was copied.

**VmmProofs** (`PagingAssumption`, `VmmAssumption`). For `Paging`: `TablesFormATree`, `TablesStayPrivate`, `NoFrameIsLost`,
`PagingImplementsAddressSpace`. The invariant is that the tables form a tree: there are levels (`HasTree`) that
descend along entries, the recursive slot aside; tables are no free frames, have one parent, and are no page, and a
page has one leaf. The names that `boot.asm` gives twice are the exception, stated as such (`Alias`). From it follows that a window
shows the table it is meant for at every stage of `map_page`, also between linking a table and cleaning it, and
that a new entry changes one walk. `ImplementsAddressSpace` is as the run states it. It includes that a frame taken for a page which
has one already is lost (`FramesAreUsed` states exactly that).

For `Vmm`: `VmmTypes`, `NoGaps`, `EveryFreeFaults`, `EveryRegionIsBacked`. Regions form a list in which each begins where the last one ends
(`VInv`: `Shape`, `Listed`, `BlocksLie`), so the search of `vmm_allocate` has no gap to find. Its loop over pages is a recursive function, and
`AreaInduction` proves once what each turn preserves. `Held` and `Backed` say that the pages of all
regions, and no other of the area, have frames of their own, as long as the bitmap has not run out. `vmm_free` faults *also* when it has, when the tables
are no tree any more; for that, `Rooted`: the directory of the area stays a frame that is not mapped to its own address.

The `TypeCorrect` theorems, `ConversionsTypes`, `Conservation` and the statements of an invariant (`HeapIsSound`, `TablesFormATree`) are steps of these arguments that
are worth knowing by themselves; the runs do not repeat them.

Only model-checked:

- liveness (`EveryTaskRuns`, `BootCompletes`, `CallsReturnOrHalt`, `KeysAreHandled`, `ScreenCatchesUp`), which is beyond the prover;
- `FreeKeepsTheEnd` and `FreedIsUnmapped`, which do not hold (section 3, findings).

All other properties of the runs are theorems.

## 5. Not modelled

- `include/utils/background.h`, two thirds of the lines of the repository, is the data of one picture, `font.psf` that of
  the letters, `multiboot.h` declarations of third parties. `Framebuffer` knows of the picture that it covers the screen.
- Strings and `hexdump`: `strlen` and `strcpy` are loops over constant names and texts; `memcpy`,
  `memmove`, `memset` and `hexdump` have no caller in the kernel.
- The serial port: registers written once and a busy wait for one bit; no interrupt, nothing kept. What `printfs`
  makes of numbers is part of `Conversions`.
- Functions that only print: `print_pages`, `setup_paging`, `process_status`, `print_tasks`, `kheap_print_travel`, `check_allocations`,
  the report of an exception; test routines that are commented out at their call.
- Colours and the hardware cursor; the search for a gap in `vmm_allocate` and what `vmm_free` does after its fault (not
  reached, see `Vmm`); what `parse_mmap` makes of a map that was overwritten.
- `gdt.asm` and the switch to long mode: straight-line code before there is anything to interleave with.

## 6. Plan

Done: all components of section 2 with their abstract specifications, and the proofs of section 4, which state every property that
the runs show to hold except liveness. Where the code changes, the runs say first what a change breaks, and the
invariants of section 4 where.
