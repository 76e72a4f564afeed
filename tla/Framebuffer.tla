---------------------------- MODULE Framebuffer ----------------------------
(***************************************************************************)
(* Drawing: src/drivers/framebuffer/framebuffer.c as the boot thread calls *)
(* it for ever (kernel.c) and as halt() of idt.c calls it once more after  *)
(* an exception.                                                           *)
(*                                                                         *)
(* The picture is drawn into framebuffer_buffer, which is made for one     *)
(* mode, and copied to the video memory with the size of the mode the boot *)
(* loader has set, which the multiboot header only asks for.  Threads and  *)
(* the handlers of interrupts print while it is drawn, and never have to   *)
(* stop; the boot thread may draw in the middle of a scroll.  A pixel is   *)
(* known by what was drawn there last, and a letter fills its cell; rows   *)
(* of the console are known by the number of letters on them, and a row is *)
(* read and drawn in one turn.                                             *)
(***************************************************************************)
EXTENDS Integers

CONSTANTS BW, BH,        \* 800 x 600
          ROWS, COLS,    \* 37 x 100, the size of the console
          LINE, GLYPH,   \* 16 and 8: pixel rows and columns of a letter
          TITLE,         \* letters of "PotatOS"
          Window,        \* pixels of video memory that boot.asm maps
          Modes          \* the modes the boot loader may have set

ASSUME FramebufferAssumption ==
  /\ {BW, BH, ROWS, COLS, LINE, GLYPH, TITLE} \subseteq Nat
  /\ BW % 2 = 0 /\ BH % 2 = 0 /\ BW * BH % 4 = 0
  /\ COLS * GLYPH <= BW /\ TITLE * GLYPH <= BW
  /\ ROWS > 1 /\ ROWS * LINE <= BH   \* all rows of the console but the last
  /\ Window \in Nat /\ BW * BH <= Window
  /\ \A m \in Modes : m.w \in Nat \ {0} /\ m.h \in Nat \ {0}

VARIABLES
  mode,      \* width and height in the framebuffer tag
  rows,      \* the letters on each row of the console
  y,         \* its cursor's row
  line,      \* the row a scroll has got to, ROWS if there is none
  overlap,   \* history: two prints have overlapped
  pc, i,     \* what is being drawn, and the counter of its loop
  buffer,    \* framebuffer_buffer
  video,     \* the video memory
  outside    \* something was written behind one of them

vars == <<mode, rows, y, line, overlap, pc, i, buffer, video, outside>>

Buffer == 0 .. BW * BH - 1
Rows == 0 .. ROWS - 1

Init ==
  /\ mode \in Modes
  /\ rows = [r \in Rows |-> 0] /\ y = 0 /\ line = ROWS /\ overlap = FALSE
  /\ pc = "background" /\ i = 0
  /\ buffer = [p \in Buffer |-> "none"]
  /\ video = [p \in 0 .. mode.w * mode.h - 1 |-> "none"]
  /\ outside = FALSE

----------------------------------------------------------------------------
(***************************************************************************)
(* The console (see Console): without overlap, one print at a time.  The   *)
(* cursor is in the last row only while the screen is being scrolled.      *)
(***************************************************************************)
Drawing == pc \in {"background", "title", "console", "flip"} /\ ~outside

Printing ==
  /\ Drawing
  /\ UNCHANGED <<mode, pc, i, buffer, video, outside>>

\* A character of its own: no other print is under way.
Alone == Printing /\ ~overlap /\ line = ROWS /\ UNCHANGED overlap

vga_next_line ==
  /\ y' = y + 1
  /\ line' = IF y + 1 >= ROWS - 1 THEN 0 ELSE ROWS

print_letter ==
  /\ Alone /\ rows[y] < COLS
  /\ rows' = [rows EXCEPT ![y] = rows[y] + 1]
  /\ \/ rows[y] + 1 = COLS /\ vga_next_line
     \/ rows[y] + 1 < COLS /\ UNCHANGED <<y, line>>

print_new_line == Alone /\ vga_next_line /\ UNCHANGED rows

print_erase ==
  /\ Alone /\ rows[y] > 0
  /\ rows' = [rows EXCEPT ![y] = rows[y] - 1]
  /\ UNCHANGED <<y, line>>

\* A row of vga_scroll_screen, and the cursor's way back behind the last one.
vga_scroll_screen ==
  /\ Printing /\ ~overlap /\ line \in Rows
  /\ rows' = [rows EXCEPT ![line] = IF line = ROWS - 1 THEN 0 ELSE rows[line + 1]]
  /\ y' = IF line = ROWS - 1 THEN y - 1 ELSE y
  /\ line' = line + 1
  /\ UNCHANGED overlap

\* From the first overlap on prints may leave anything on the rows, and where
\* the cursor is and how far a scroll has got no longer matters.
print_overlapping ==
  /\ Printing
  /\ rows' \in [Rows -> 0 .. COLS]
  /\ overlap' = TRUE /\ y' = 0 /\ line' = ROWS

----------------------------------------------------------------------------
(***************************************************************************)
(* Drawing into the buffer.                                                *)
(***************************************************************************)
\* plot_pixel, for all pixels of a rectangle: rows are as long as the mode's.
Rectangle(x0, y0, w, h) ==
  {x + v * mode.w : x \in x0 .. x0 + w - 1, v \in y0 .. y0 + h - 1}

Plot(pixels, what) ==
  /\ buffer' = [p \in Buffer |-> IF p \in pixels THEN what ELSE buffer[p]]
  /\ outside' = ~(pixels \subseteq Buffer)
  /\ UNCHANGED <<mode, rows, y, line, overlap, video>>

\* The next turn of a loop of n turns, or what comes behind it.
Turn(n, then) ==
  \/ i < n - 1 /\ i' = i + 1 /\ UNCHANGED pc
  \/ i >= n - 1 /\ i' = 0 /\ pc' = then

\* Seeded fault, for ScreenCatchesUp: the last rows of the image are left out.
IMAGE_ROWS_Bad == BH \div 2 - 1

IMAGE_ROWS == BH \div 2

\* The image has half the size, and each of its pixels is drawn four times.
draw_background_image ==
  /\ pc = "background" /\ ~outside
  /\ Plot(Rectangle(0, 2 * i, BW, 2), "image")
  /\ Turn(IMAGE_ROWS, "title")

draw_title ==
  /\ pc = "title" /\ ~outside
  /\ Plot(Rectangle(0, 0, TITLE * GLYPH, LINE), "title")
  /\ pc' = "console" /\ UNCHANGED i

\* Seeded fault, for PlotsInside: one more line of text above the console.
Top_Bad(r) == r * LINE + 2 * LINE

Top(r) == r * LINE + LINE

RowPixels(r) == Rectangle(0, Top(r), rows[r] * GLYPH, LINE)

draw_vga_buffer(now, then) ==
  /\ pc = now /\ ~outside
  /\ Plot(RowPixels(i), "text")
  /\ Turn(ROWS, then)

\* clear_framebuffer and flip_framebuffer go four pixels at a time, and round
\* the size of the mode up.
Fours == (mode.w * mode.h + 3) \div 4

Four == 4 * i .. 4 * i + 3

clear_framebuffer ==
  /\ pc = "halt_clear" /\ ~outside
  /\ Plot(Four, "clear")
  /\ Turn(Fours, "halt_console")

flip_framebuffer(now, then) ==
  /\ pc = now /\ ~outside
  /\ video' = [p \in DOMAIN video |-> IF p \in Four \cap Buffer THEN buffer[p] ELSE video[p]]
  /\ outside' = ~(Four \subseteq Buffer \cap 0 .. Window - 1)
  /\ Turn(Fours, then)
  /\ UNCHANGED <<mode, rows, y, line, overlap, buffer>>

----------------------------------------------------------------------------
\* Seeded fault, for HaltShowsConsole: the picture is not cleared.
Halting_Bad == "halt_console"

Halting == "halt_clear"

\* An exception, wherever the drawing is.  Interrupts are off from here on,
\* and what the handler prints is on the console by now: a print it has
\* interrupted was overlapped.
halt ==
  /\ Drawing /\ line = ROWS
  /\ pc' = Halting /\ i' = 0
  /\ UNCHANGED <<mode, rows, y, line, overlap, buffer, video, outside>>

Draw ==
  \/ draw_background_image \/ draw_title
  \/ draw_vga_buffer("console", "flip") \/ flip_framebuffer("flip", "background")
  \/ clear_framebuffer
  \/ draw_vga_buffer("halt_console", "halt_flip")
  \/ flip_framebuffer("halt_flip", "halted")

Printer ==
  \/ print_letter \/ print_new_line \/ print_erase \/ vga_scroll_screen
  \/ print_overlapping

Next == Printer \/ halt \/ Draw

Spec == Init /\ [][Next]_vars

\* The boot thread gets the processor again and again (see Scheduler), and
\* halt is not interrupted.
FairSpec == Spec /\ WF_vars(Draw)

----------------------------------------------------------------------------
(***************************************************************************)
(* Properties.                                                             *)
(***************************************************************************)
\* Nothing is drawn or copied behind the end of a buffer, in any mode that is
\* no larger than the one asked for, unless prints have overlapped and left a
\* letter in the last row of the console, which has no place in the picture.
PlotsInside == outside => overlap \/ mode.w > BW \/ mode.h > BH

AsAsked == mode = [w |-> BW, h |-> BH]

TextPixels == UNION {RowPixels(r) : r \in Rows}

\* The picture the kernel halts with shows the console and nothing else, with
\* the report of the exception on it: nothing is left of the picture that was
\* being drawn, nor of the one that was being copied.
HaltShowsConsole ==
  AsAsked /\ pc = "halted" =>
    \A p \in DOMAIN video : video[p] = IF p \in TextPixels THEN "text" ELSE "clear"

\* Once nobody prints any more, what is on the console gets on the screen and
\* what has gone from it goes from there too, whatever of the printing the
\* drawing ran into.  While the printing goes on, as it does at every tick, the
\* screen may be behind for ever, and lines may go by that never get there.
ScreenShowsConsole == \A p \in DOMAIN video : video[p] = "text" <=> p \in TextPixels

ScreenCatchesUp ==
  AsAsked /\ []~outside /\ <>[][UNCHANGED rows]_vars => []<>ScreenShowsConsole
=============================================================================
