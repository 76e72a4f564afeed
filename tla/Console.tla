------------------------------ MODULE Console ------------------------------
(***************************************************************************)
(* The text console: src/drivers/vga.c under putchar of src/lib/stdio.c.   *)
(*                                                                         *)
(* Every thread prints, and a tick may take the processor from it between  *)
(* any two accesses to the cursor or the cells: a step of a thread makes   *)
(* one of them.  The build does not optimise, so an increment is a load    *)
(* and a store.  An interrupt handler prints (the echo of a key, and the   *)
(* lines of print_task at every tick) with interrupts off, so a character  *)
(* of its text is one step: keyboard.                                      *)
(***************************************************************************)
EXTENDS Integers, Sequences, FiniteSets

CONSTANTS VGA_WIDTH, VGA_HEIGHT,  \* 100 and 37, after vga_resize
          Thread,                 \* the threads that print
          Letters,                \* what they print, but for new lines
          LINE, FB_HEIGHT,        \* pixel rows of a letter and of the picture
          MaxTorn                 \* bound: increments that get lost

NL == "NL"
ERASE == "ERASE"                  \* character 14, which only the keyboard sends
SPACE == "SPACE"
BLANK == "BLANK"                  \* character 0

ASSUME ConsoleAssumption ==
  /\ VGA_WIDTH \in Nat \ {0} /\ VGA_HEIGHT \in Nat \ {0, 1}
  /\ IsFiniteSet(Thread) /\ Thread # {}   \* the boot thread and a few more
  /\ Cardinality(Thread) < VGA_HEIGHT - 1
  /\ Letters \cap {NL, ERASE, SPACE, BLANK} = {}
  /\ LINE \in Nat /\ FB_HEIGHT \in Nat /\ MaxTorn \in Nat
  \* All rows but the last can be drawn: 36 * 16 + 16 <= 600.
  /\ VGA_HEIGHT * LINE <= FB_HEIGHT

VARIABLES screen,            \* the cells of vga_buffer that are on the screen
          cursorX, cursorY,
          call,              \* where each thread is in putchar, and its locals
          overlap,           \* history: two prints have overlapped
          torn,              \* history: stores of a cursor that had been changed
          shown              \* history: the page when nobody was printing

vars == <<screen, cursorX, cursorY, call, overlap, torn, shown>>

Cells == 0 .. VGA_WIDTH * VGA_HEIGHT - 1
Rows == 0 .. VGA_HEIGHT - 1

\* A thread at a place where it has no locals.
Place(pc) == [pc |-> pc, ch |-> NL, x |-> 0, y |-> 0]

Idle == Place("idle")

Busy == {t \in Thread : call[t] # Idle}

Init ==
  /\ screen = [i \in Cells |-> BLANK]
  /\ cursorX = 0 /\ cursorY = 0
  /\ call = [t \in Thread |-> Idle]
  /\ overlap = FALSE
  /\ torn = 0
  /\ shown = << << >> >>

----------------------------------------------------------------------------
\* What a reader sees of a row: draw_text draws it up to its first blank, and it ends
\* with its last letter there.  He sees the rows down to the cursor's.
Row(s, r) ==
  LET cell == [k \in 1 .. VGA_WIDTH |-> s[r * VGA_WIDTH + k - 1]]
      seen(k) == cell[k] \in Letters /\ \A j \in 1 .. k : cell[j] # BLANK
      last == CHOOSE n \in 0 .. VGA_WIDTH :
                (n # 0 => seen(n)) /\ \A k \in n + 1 .. VGA_WIDTH : ~seen(k)
  IN  SubSeq(cell, 1, last)

Page(s, y) == [k \in 1 .. y + 1 |-> Row(s, k - 1)]

\* The history is kept while it has a meaning.
Show(done) ==
  shown' = IF done /\ ~overlap' THEN Page(screen', cursorY') ELSE shown

\* A thread goes on, takes v along, or returns from putchar.
Goto(t, pc) ==
  /\ call' = [call EXCEPT ![t] = Place(pc)]
  /\ UNCHANGED <<overlap, shown>>

Load(t, pc, v) ==
  /\ call' = [call EXCEPT ![t] = [Place(pc) EXCEPT !.x = v]]
  /\ UNCHANGED <<screen, cursorX, cursorY, overlap, torn, shown>>

Return(t) ==
  /\ call' = [call EXCEPT ![t] = Idle]
  /\ UNCHANGED overlap
  /\ Show(TRUE)

\* An increment by d is stored: it is torn if the cursor is not what was loaded.
Store(v, now, d) ==
  /\ torn' = IF v = now + d THEN torn ELSE torn + 1
  /\ torn' <= MaxTorn

At(t, pc) == call[t].pc = pc

----------------------------------------------------------------------------
\* putchar: vga_get_cursor_pos, in two loads.
putchar(t, ch) ==
  /\ At(t, "idle")
  /\ call' = [call EXCEPT ![t] = [pc |-> "get_y", ch |-> ch, x |-> cursorX, y |-> 0]]
  /\ overlap' = (overlap \/ Busy # {})
  /\ UNCHANGED <<screen, cursorX, cursorY, torn, shown>>

get_y(t) ==
  /\ At(t, "get_y")
  /\ call' = [call EXCEPT ![t] = IF call[t].ch = NL THEN Place("next_line")
                                 ELSE [@ EXCEPT !.pc = "write", !.y = cursorY]]
  /\ UNCHANGED <<screen, cursorX, cursorY, overlap, torn, shown>>

\* The cell a thread at "write" means.
Target(t) == call[t].y * VGA_WIDTH + call[t].x

\* vga_write_char, for a letter; behind the last cell it writes nothing.
write(t) ==
  /\ At(t, "write")
  /\ screen' = IF Target(t) \in Cells THEN [screen EXCEPT ![Target(t)] = call[t].ch]
               ELSE screen
  /\ Goto(t, "inc_x")
  /\ UNCHANGED <<cursorX, cursorY, torn>>

inc_x(t) == At(t, "inc_x") /\ Load(t, "store_x", cursorX + 1)

store_x(t) ==
  /\ At(t, "store_x")
  /\ cursorX' = call[t].x
  /\ Store(call[t].x, cursorX, 1)
  /\ Goto(t, "wrap")
  /\ UNCHANGED <<screen, cursorY>>

wrap(t) ==
  /\ At(t, "wrap")
  /\ UNCHANGED <<screen, cursorX, cursorY, torn>>
  /\ IF cursorX >= VGA_WIDTH THEN Goto(t, "next_line") ELSE Return(t)

vga_next_line(t) ==
  /\ At(t, "next_line")
  /\ cursorX' = 0
  /\ Goto(t, "inc_y")
  /\ UNCHANGED <<screen, cursorY, torn>>

inc_y(t) == At(t, "inc_y") /\ Load(t, "store_y", cursorY + 1)

store_y(t) ==
  /\ At(t, "store_y")
  /\ cursorY' = call[t].x
  /\ Store(call[t].x, cursorY, 1)
  /\ Goto(t, "while")
  /\ UNCHANGED <<screen, cursorX>>

\* Seeded bug: the last row is used like the others.
vga_check_if_scroll_needed_Bad(t) ==
  /\ At(t, "while")
  /\ UNCHANGED <<screen, cursorX, cursorY, torn>>
  /\ IF cursorY >= VGA_HEIGHT
       THEN Load(t, "scroll", 0)
       ELSE Return(t)

vga_check_if_scroll_needed(t) ==
  /\ At(t, "while")
  /\ UNCHANGED <<screen, cursorX, cursorY, torn>>
  /\ IF cursorY >= VGA_HEIGHT - 1
       THEN Load(t, "scroll", 0)
       ELSE Return(t)

\* Seeded bug: the copy ends a row too early.
Moved_Bad(s, r) ==
  [i \in Cells |-> IF i \div VGA_WIDTH # r THEN s[i]
                   ELSE IF i + 2 * VGA_WIDTH \in Cells THEN s[i + VGA_WIDTH]
                   ELSE IF i + VGA_WIDTH \in Cells THEN s[i]
                   ELSE BLANK]

\* Row r of the screen after the scroll has reached it.
Moved(s, r) ==
  [i \in Cells |-> IF i \div VGA_WIDTH # r THEN s[i]
                   ELSE IF i + VGA_WIDTH \in Cells THEN s[i + VGA_WIDTH]
                   ELSE BLANK]

\* vga_scroll_screen, a row at a time; the loop counter is in x.
vga_scroll_screen(t) ==
  /\ At(t, "scroll")
  /\ screen' = Moved(screen, call[t].x)
  /\ LET next == call[t].x + 1
     IN  call' = [call EXCEPT ![t] = IF next \in Rows THEN [@ EXCEPT !.x = next]
                                     ELSE Place("dec_y")]
  /\ UNCHANGED <<cursorX, cursorY, overlap, torn, shown>>

dec_y(t) == At(t, "dec_y") /\ Load(t, "store_dec_y", cursorY - 1)

\* Seeded bug: if for while.
store_dec_y_Bad(t) ==
  /\ At(t, "store_dec_y")
  /\ cursorY' = call[t].x
  /\ Store(call[t].x, cursorY, -1)
  /\ UNCHANGED <<screen, cursorX>>
  /\ Return(t)

store_dec_y(t) ==
  /\ At(t, "store_dec_y")
  /\ cursorY' = call[t].x
  /\ Store(call[t].x, cursorY, -1)
  /\ Goto(t, "while")
  /\ UNCHANGED <<screen, cursorX>>

----------------------------------------------------------------------------
\* The handler: all of putchar, without a tick.
Scrolled(s, n) ==
  [i \in Cells |-> IF i + n * VGA_WIDTH \in Cells THEN s[i + n * VGA_WIDTH]
                   ELSE BLANK]

NewLine(s) ==
  LET n == IF s.y + 1 >= VGA_HEIGHT - 1 THEN s.y + 2 - (VGA_HEIGHT - 1) ELSE 0
  IN  [screen |-> Scrolled(s.screen, n), x |-> 0, y |-> s.y + 1 - n]

Letter(s, ch) ==
  LET i == s.y * VGA_WIDTH + s.x
      w == [screen |-> IF i \in Cells THEN [s.screen EXCEPT ![i] = ch] ELSE s.screen,
            x |-> s.x + 1, y |-> s.y]
  IN  IF w.x >= VGA_WIDTH THEN NewLine(w) ELSE w

\* Seeded bug: the cursor leaves the line.
Left_Bad(x) == x - 1

\* One step to the left; the cell is not compared with the last one.
Left(x) == IF x > 0 THEN x - 1 ELSE x

keyboard(ch) ==
  LET s == [screen |-> screen, x |-> cursorX, y |-> cursorY]
      w == IF ch = NL THEN NewLine(s) ELSE Letter(s, ch)
  IN  /\ screen' = w.screen /\ cursorX' = w.x /\ cursorY' = w.y
      /\ overlap' = (overlap \/ Busy # {})
      /\ Show(Busy = {})
      /\ UNCHANGED <<call, torn>>

ErasedCell == cursorY * VGA_WIDTH + Left(cursorX)

keyboard_erase ==
  /\ cursorX' = Left(cursorX)
  /\ screen' = IF ErasedCell \in Cells THEN [screen EXCEPT ![ErasedCell] = SPACE]
               ELSE screen
  /\ overlap' = (overlap \/ Busy # {})
  /\ UNCHANGED <<cursorY, call, torn>>
  /\ Show(Busy = {})

Step(t) ==
  \/ \E ch \in Letters \cup {NL} : putchar(t, ch)
  \/ get_y(t) \/ write(t) \/ inc_x(t) \/ store_x(t) \/ wrap(t)
  \/ vga_next_line(t) \/ inc_y(t) \/ store_y(t)
  \/ vga_check_if_scroll_needed(t) \/ vga_scroll_screen(t)
  \/ dec_y(t) \/ store_dec_y(t)

Next ==
  \/ \E t \in Thread : Step(t)
  \/ \E ch \in Letters \cup {NL} : keyboard(ch)
  \/ keyboard_erase

Spec == Init /\ [][Next]_vars

----------------------------------------------------------------------------
(***************************************************************************)
(* Properties.                                                             *)
(***************************************************************************)
N == Cardinality(Thread)

TypeOK ==
  /\ screen \in [Cells -> Letters \cup {SPACE, BLANK}]
  /\ cursorX \in Nat /\ cursorY \in Int
  /\ overlap \in BOOLEAN
  /\ DOMAIN call = Thread

\* How far the cursor may be off: every increment that was lost may have misled all
\* other threads.  Beyond the last cell of a row, and beyond the last row but one,
\* there is also a place for every thread that is on its way to the next line.
Lost == (N - 1) * torn

Slack == N + Lost

\* However the increments of several threads lose one another, when the last of
\* them returns the cursor is on the screen, above the last row.
CursorSettles ==
  Busy = {} => cursorX < VGA_WIDTH /\ cursorY < VGA_HEIGHT - 1

\* The cells that are written in front of the screen or, by an erase, behind it are
\* near it, and there are none unless prints overlap.
Written == {Target(t) : t \in {u \in Thread : At(u, "write")}} \cup {ErasedCell}

Nearby ==
  - Lost * VGA_WIDTH .. (VGA_HEIGHT - 1 + Slack) * VGA_WIDTH - 1 + Slack

WritesNearScreen ==
  /\ ~overlap => Written \subseteq Cells
  /\ Written \subseteq Nearby

\* draw_text stops at the first blank of a row.
Drawn(r) ==
  \E k \in 0 .. VGA_WIDTH - 1 :
    /\ screen[r * VGA_WIDTH + k] \in Letters
    /\ \A j \in 0 .. k : screen[r * VGA_WIDTH + j] # BLANK

\* No letter is drawn below the picture, where draw_vga_buffer would write behind
\* framebuffer_buffer: 37 rows of 16 lines, from line 16 on, are 8 lines too many.
DrawnInsidePicture ==
  ~overlap => \A r \in Rows : Drawn(r) => (r + 2) * LINE <= FB_HEIGHT

\* Without overlap the screen is a page that moves up.
Reader == INSTANCE Terminal WITH
            Width  <- VGA_WIDTH,
            Height <- VGA_HEIGHT - 1,
            page   <- shown,
            valid  <- ~overlap

ImplementsTerminal == Reader!Spec
=============================================================================
