------------------------- MODULE FramebufferProofs -------------------------
(***************************************************************************)
(* The safety properties of Framebuffer, proved for every size of the      *)
(* picture, of the console and of the letters, in every mode.              *)
(***************************************************************************)
EXTENDS Framebuffer, TLAPS

Small == mode.w <= BW /\ mode.h <= BH

----------------------------------------------------------------------------
(***************************************************************************)
(* The inductive invariant.  The counter of a loop stays below its number  *)
(* of turns (InLoops).  Until prints overlap the last row of the console   *)
(* stays empty, which has no place in the picture, although the cursor is  *)
(* there during a scroll (Alternate).  Once halted, the buffer is clear up *)
(* to where it was cleared, holds the rows drawn so far and nothing else,  *)
(* and the video memory is a copy of it up to where it was copied (Halted).*)
(***************************************************************************)
InLoops ==
  /\ mode \in Modes
  /\ rows \in [Rows -> 0 .. COLS]
  /\ i \in Nat
  /\ pc = "background" => i < IMAGE_ROWS \/ i = 0
  /\ pc \in {"console", "halt_console"} => i < ROWS
  /\ pc \in {"flip", "halt_clear", "halt_flip"} => i < Fours
  /\ pc = "title" => i = 0
  /\ DOMAIN buffer = Buffer /\ DOMAIN video = 0 .. mode.w * mode.h - 1

Alternate ==
  ~overlap =>
    /\ rows[ROWS - 1] = 0
    /\ \/ line = ROWS /\ y \in 0 .. ROWS - 2
       \/ line \in Rows /\ y = ROWS - 1

\* RowPixels, by its members, in a mode m and with n letters on each row.
InRow(p, m, n, r) ==
  \E x \in 0 .. 0 + n[r] * GLYPH - 1, v \in Top(r) .. Top(r) + LINE - 1 : p = x + v * m.w

Pictured(p, m, n) == \E r \in Rows : InRow(p, m, n, r)

Halted ==
  /\ pc = "halt_clear" =>
       \A p \in Buffer : p < 4 * i => buffer[p] = "clear"
  /\ pc = "halt_console" =>
       \A p \in Buffer :
         buffer[p] = IF \E r \in Rows : r < i /\ InRow(p, mode, rows, r) THEN "text" ELSE "clear"
  /\ pc \in {"halt_flip", "halted"} =>
       \A p \in Buffer : buffer[p] = IF Pictured(p, mode, rows) THEN "text" ELSE "clear"
  /\ pc = "halt_flip" =>
       \A p \in Buffer : p < 4 * i => video[p] = buffer[p]
  /\ pc = "halted" =>
       \A p \in Buffer : video[p] = buffer[p]

IInv == InLoops /\ Alternate /\ PlotsInside /\ (AsAsked => Halted)

----------------------------------------------------------------------------
(***************************************************************************)
(* Sizes: what is drawn in a mode no larger than the picture stays in it.  *)
(***************************************************************************)
LEMMA Numbers ==
  /\ BW \in Nat /\ BH \in Nat /\ ROWS \in Nat /\ COLS \in Nat /\ LINE \in Nat /\ GLYPH \in Nat
  /\ TITLE \in Nat /\ Window \in Nat /\ BH % 2 = 0 /\ ROWS > 1
  /\ \A m \in Modes : m.w \in Nat \ {0} /\ m.h \in Nat \ {0}
BY FramebufferAssumption

LEMMA Products ==
  /\ (BW * BH) % 4 = 0 /\ BW * BH \in Nat /\ BW * BH <= Window
  /\ COLS * GLYPH <= BW /\ TITLE * GLYPH <= BW /\ ROWS * LINE <= BH
  /\ \A p \in Buffer : p \in Nat
BY FramebufferAssumption DEF Buffer

LEMMA MulMono ==
  ASSUME NEW a \in Nat, NEW b \in Nat, NEW c \in Nat, a <= b
  PROVE  a * c <= b * c /\ a * c \in Nat /\ b * c \in Nat
OBVIOUS

LEMMA RectangleFits ==
  ASSUME mode \in Modes, Small, NEW v0 \in Nat, NEW w \in Int, NEW h \in Nat,
         w <= BW, v0 + h <= BH
  PROVE  Rectangle(0, v0, w, h) \subseteq Buffer
<1> SUFFICES ASSUME NEW x \in 0 .. 0 + w - 1, NEW v \in v0 .. v0 + h - 1
             PROVE  x + v * mode.w \in Buffer
  BY DEF Rectangle
<1>1. /\ BW \in Nat /\ BH \in Nat /\ mode.w \in Nat /\ mode.w <= BW
      /\ v \in Nat /\ v + 1 <= BH /\ x \in Nat /\ x <= BW - 1
  BY Numbers DEF Small
<1>2. v * mode.w <= v * BW
  BY <1>1
<1>3. (v + 1) * BW <= BH * BW
  BY <1>1, MulMono
<1>4. /\ (v + 1) * BW = v * BW + BW /\ BH * BW = BW * BH
      /\ v * mode.w \in Nat /\ v * BW \in Nat /\ BW * BH \in Nat
  BY <1>1
<1> DEFINE a == v * mode.w
           b == v * BW
           c == BW * BH
<1>5. a \in Nat /\ b \in Nat /\ c \in Nat /\ a <= b /\ b + BW <= c
  BY <1>2, <1>3, <1>4
<1> HIDE DEF a, b, c
<1>6. x + a \in 0 .. c - 1
  BY <1>1, <1>5
<1> QED  BY <1>6 DEF a, c, Buffer

LEMMA RowIsInRow == \A p, r : p \in RowPixels(r) <=> InRow(p, mode, rows, r)
BY DEF RowPixels, Rectangle, InRow

LEMMA RowFits ==
  ASSUME InLoops, Alternate, Small, ~overlap, NEW r \in Rows
  PROVE  RowPixels(r) \subseteq Buffer
<1>1. /\ r \in Nat /\ r <= ROWS - 1 /\ ROWS \in Nat /\ LINE \in Nat /\ GLYPH \in Nat
      /\ COLS \in Nat /\ rows[r] \in Nat /\ rows[r] <= COLS
  BY Numbers DEF Rows, InLoops
<1>2. CASE r = ROWS - 1
  <2>1. rows[r] * GLYPH = 0
    BY <1>1, <1>2 DEF Alternate
  <2>2. 0 .. 0 + rows[r] * GLYPH - 1 = {}
    BY <2>1
  <2> QED  BY <2>2 DEF RowPixels, Rectangle
<1>3. CASE r # ROWS - 1
  <2>1. rows[r] * GLYPH <= COLS * GLYPH /\ rows[r] * GLYPH \in Nat /\ COLS * GLYPH \in Nat
    BY <1>1, MulMono
  <2>2. rows[r] * GLYPH <= BW
    <3> DEFINE a == rows[r] * GLYPH
               b == COLS * GLYPH
    <3>1. a <= b /\ b <= BW /\ a \in Nat /\ b \in Nat /\ BW \in Nat
      BY <2>1, Products, Numbers
    <3> HIDE DEF a, b
    <3>2. a <= BW
      BY <3>1
    <3> QED  BY <3>2 DEF a
  <2>3. r + 2 \in Nat /\ r + 2 <= ROWS
    BY <1>1, <1>3
  <2>4. (r + 2) * LINE <= ROWS * LINE
    BY <1>1, <2>3, MulMono
  <2>5. /\ (r + 2) * LINE = r * LINE + LINE + LINE
        /\ r * LINE \in Nat /\ ROWS * LINE \in Nat
    BY <1>1
  <2>6. Top(r) \in Nat /\ Top(r) + LINE <= BH
    <3> DEFINE a == r * LINE
               b == ROWS * LINE
    <3>1. a \in Nat /\ b \in Nat /\ a + LINE + LINE <= b /\ b <= BH /\ BH \in Nat
      BY <2>4, <2>5, Products, Numbers
    <3>2. Top(r) = a + LINE
      BY DEF Top
    <3> HIDE DEF a, b
    <3> QED  BY <1>1, <3>1, <3>2
  <2>7. rows[r] * GLYPH \in Int /\ mode \in Modes
    BY <2>1 DEF InLoops
  <2> QED  BY <1>1, <2>2, <2>6, <2>7, RectangleFits DEF RowPixels
<1> QED  BY <1>2, <1>3

\* Four pixels at a time come out even on the size of the picture, and cover
\* all of it in the mode it was made for.
LEMMA FoursFit ==
  ASSUME mode \in Modes
  PROVE  /\ Fours \in Nat \ {0}
         /\ Small => \A q \in 0 .. Fours - 1 : 4 * q .. 4 * q + 3 \subseteq 0 .. BW * BH - 1
         /\ AsAsked => 4 * Fours = BW * BH
<1> DEFINE a == mode.w * mode.h
           b == BW * BH
<1>1. /\ a \in Nat \ {0} /\ b \in Nat /\ b % 4 = 0
      /\ Small => a <= b
      /\ AsAsked => a = b
  <2>1. mode.w \in Nat \ {0} /\ mode.h \in Nat \ {0} /\ BW \in Nat /\ BH \in Nat
    BY Numbers
  <2>2. mode.w * mode.h \in Nat \ {0}
    BY <2>1
  <2>3. Small => mode.w * mode.h <= BW * BH
    <3> SUFFICES ASSUME Small
                 PROVE  mode.w * mode.h <= BW * BH
      OBVIOUS
    <3>1. mode.w * mode.h <= BW * mode.h /\ BW * mode.h \in Nat
      BY <2>1, MulMono DEF Small
    <3>2. mode.h * BW <= BH * BW
      BY <2>1, MulMono DEF Small
    <3>3. BW * mode.h = mode.h * BW /\ BH * BW = BW * BH
      BY <2>1
    <3> QED  BY <2>1, <3>1, <3>2, <3>3
  <2>4. AsAsked => mode.w * mode.h = BW * BH
    BY DEF AsAsked
  <2> QED  BY <2>2, <2>3, <2>4, Products
<1> HIDE DEF a, b
<1>2. Fours = (a + 3) \div 4
  BY DEF Fours, a
<1>3. /\ Fours \in Nat \ {0}
      /\ a <= b => 4 * Fours <= b
      /\ a = b => 4 * Fours = b
  BY <1>1, <1>2
<1>4. ASSUME a <= b, NEW q \in 0 .. Fours - 1
      PROVE  4 * q .. 4 * q + 3 \subseteq 0 .. b - 1
  BY <1>1, <1>3, <1>4
<1> QED  BY <1>1, <1>3, <1>4 DEF b

----------------------------------------------------------------------------
LEMMA IInvInit == Init => IInv
<1> SUFFICES ASSUME Init
             PROVE  IInv
  OBVIOUS
<1>1. InLoops
  <2>1. 0 \in 0 .. COLS
    BY Numbers DEF Rows
  <2> QED  BY <2>1 DEF Init, InLoops
<1>2. Alternate
  <2>1. 0 \in 0 .. ROWS - 2 /\ ROWS - 1 \in Rows
    BY Numbers DEF Rows
  <2> QED  BY <2>1 DEF Init, Alternate
<1> QED  BY <1>1, <1>2 DEF Init, IInv, PlotsInside, Halted

\* Threads print one at a time, in the middle of whatever is being drawn.
LEMMA RowsOfPrints ==
  ASSUME IInv, Printer
  PROVE  rows' \in [Rows -> 0 .. COLS] /\ Alternate'
<1>1. /\ rows \in [Rows -> 0 .. COLS] /\ Alternate
      /\ ROWS \in Nat /\ ROWS > 1 /\ COLS \in Nat
  BY Numbers DEF IInv, InLoops
<1>2. Rows = 0 .. ROWS - 1 /\ ROWS - 1 \in Rows /\ ROWS \notin Rows
  BY <1>1 DEF Rows
<1>3. ASSUME ~overlap, line = ROWS, vga_next_line
      PROVE  \/ line' = ROWS /\ y' \in 0 .. ROWS - 2
             \/ line' \in Rows /\ y' = ROWS - 1
  BY <1>1, <1>2, <1>3 DEF Alternate, vga_next_line
<1>4. CASE print_letter
  <2>1. /\ ~overlap /\ line = ROWS /\ overlap' = overlap /\ rows[y] < COLS
        /\ rows' = [rows EXCEPT ![y] = rows[y] + 1]
        /\ vga_next_line \/ UNCHANGED <<y, line>>
    BY <1>4 DEF print_letter, Alone
  <2>2. rows[ROWS - 1] = 0 /\ y \in 0 .. ROWS - 2
    BY <1>1, <1>2, <2>1 DEF Alternate
  <2>3. rows' \in [Rows -> 0 .. COLS] /\ rows'[ROWS - 1] = 0
    BY <1>1, <1>2, <2>1, <2>2
  <2> QED  BY <1>3, <2>1, <2>2, <2>3 DEF Alternate
<1>5. CASE print_new_line
  <2>1. ~overlap /\ line = ROWS /\ overlap' = overlap /\ vga_next_line /\ rows' = rows
    BY <1>5 DEF print_new_line, Alone
  <2>2. rows[ROWS - 1] = 0
    BY <1>1, <2>1 DEF Alternate
  <2> QED  BY <1>1, <1>3, <2>1, <2>2 DEF Alternate
<1>6. CASE print_erase
  <2>1. /\ ~overlap /\ line = ROWS /\ overlap' = overlap /\ rows[y] > 0
        /\ rows' = [rows EXCEPT ![y] = rows[y] - 1] /\ UNCHANGED <<y, line>>
    BY <1>6 DEF print_erase, Alone
  <2>2. rows[ROWS - 1] = 0 /\ y \in 0 .. ROWS - 2
    BY <1>1, <1>2, <2>1 DEF Alternate
  <2>3. rows' \in [Rows -> 0 .. COLS] /\ rows'[ROWS - 1] = 0
    BY <1>1, <1>2, <2>1, <2>2
  <2> QED  BY <2>1, <2>2, <2>3 DEF Alternate
<1>7. CASE vga_scroll_screen
  <2>1. /\ ~overlap /\ line \in Rows /\ overlap' = overlap
        /\ rows' = [rows EXCEPT ![line] = IF line = ROWS - 1 THEN 0 ELSE rows[line + 1]]
        /\ y' = (IF line = ROWS - 1 THEN y - 1 ELSE y)
        /\ line' = line + 1
    BY <1>7 DEF vga_scroll_screen
  <2>2. rows[ROWS - 1] = 0 /\ y = ROWS - 1
    BY <1>1, <1>2, <2>1 DEF Alternate
  <2>3. rows' \in [Rows -> 0 .. COLS] /\ rows'[ROWS - 1] = 0
    <3>1. CASE line = ROWS - 1
      BY <1>1, <1>2, <2>1, <3>1
    <3>2. CASE line # ROWS - 1
      <4>1. line + 1 \in Rows
        BY <1>1, <1>2, <2>1, <3>2
      <4> QED  BY <1>1, <1>2, <2>1, <2>2, <3>2, <4>1
    <3> QED  BY <3>1, <3>2
  <2>4. \/ line' = ROWS /\ y' \in 0 .. ROWS - 2
        \/ line' \in Rows /\ y' = ROWS - 1
    BY <1>1, <1>2, <2>1, <2>2
  <2> QED  BY <2>3, <2>4 DEF Alternate
<1>8. CASE print_overlapping
  BY <1>8 DEF print_overlapping, Alternate
<1> QED  BY <1>4, <1>5, <1>6, <1>7, <1>8 DEF Printer

\* ... or an exception comes.
LEMMA ConsoleKeeps == IInv /\ (Printer \/ halt) => IInv'
<1> SUFFICES ASSUME IInv, Printer \/ halt
             PROVE  IInv'
  OBVIOUS
<1>1. /\ UNCHANGED <<mode, buffer, video, outside>>
      /\ pc \in {"background", "title", "console", "flip"}
      /\ ~outside
  BY DEF Printer, print_letter, print_new_line, print_erase, vga_scroll_screen,
     print_overlapping, halt, Alone, Printing, Drawing
<1>2. PlotsInside'
  BY <1>1 DEF PlotsInside
<1>3. CASE halt
  <2>1. pc' = "halt_clear" /\ i' = 0 /\ UNCHANGED <<rows, y, line, overlap>>
    BY <1>3 DEF halt, Halting
  <2>2. Fours' = Fours /\ Fours \in Nat \ {0}
    BY <1>1, FoursFit DEF Fours, IInv, InLoops
  <2>3. InLoops' /\ Alternate'
    BY <1>1, <2>1, <2>2 DEF IInv, InLoops, Alternate
  <2>4. Halted'
    BY <2>1 DEF Halted, Buffer
  <2> QED  BY <1>2, <2>3, <2>4 DEF IInv
<1>4. CASE Printer
  <2>1. UNCHANGED <<pc, i>>
    BY <1>4 DEF Printer, print_letter, print_new_line, print_erase, vga_scroll_screen,
       print_overlapping, Alone, Printing
  <2>2. rows' \in [Rows -> 0 .. COLS] /\ Alternate'
    BY <1>4, RowsOfPrints
  <2>3. InLoops'
    BY <1>1, <2>1, <2>2 DEF IInv, InLoops, Fours, Buffer, IMAGE_ROWS
  <2>4. Halted'
    BY <1>1, <2>1 DEF Halted
  <2> QED  BY <1>2, <2>2, <2>3, <2>4 DEF IInv
<1> QED  BY <1>3, <1>4

\* The counter of a loop of n turns is left where the next turn needs it.
LEMMA TurnBounds ==
  ASSUME NEW n \in Nat, NEW then, i \in Nat, Turn(n, then)
  PROVE  /\ i' \in Nat
         /\ \/ i' = i + 1 /\ i' < n /\ pc' = pc
            \/ i' = 0 /\ n <= i + 1 /\ pc' = then
BY DEF Turn

LEMMA PlotKeeps ==
  ASSUME IInv, NEW pixels, NEW what, Plot(pixels, what),
         Small /\ ~overlap => pixels \subseteq Buffer
  PROVE  /\ mode' = mode /\ rows' = rows /\ video' = video
         /\ Alternate'
         /\ buffer' = [p \in Buffer |-> IF p \in pixels THEN what ELSE buffer[p]]
         /\ PlotsInside'
<1>1. mode.w \in Nat /\ mode.h \in Nat /\ BW \in Nat /\ BH \in Nat
  BY Numbers DEF IInv, InLoops
<1>2. outside' => overlap \/ ~Small
  BY DEF Plot
<1> QED  BY <1>1, <1>2 DEF Plot, PlotsInside, Small, IInv, Alternate

LEMMA PictureKeeps ==
  ASSUME IInv, draw_background_image \/ draw_title
  PROVE  IInv'
<1>1. i \in Nat /\ mode \in Modes /\ ROWS \in Nat \ {0} /\ IMAGE_ROWS \in Nat
  BY Numbers DEF IInv, InLoops, IMAGE_ROWS
<1>2. CASE draw_background_image
  <2>1. /\ pc = "background" /\ Plot(Rectangle(0, 2 * i, BW, 2), "image")
        /\ Turn(IMAGE_ROWS, "title")
    BY <1>2 DEF draw_background_image
  <2>2. Small => Rectangle(0, 2 * i, BW, 2) \subseteq Buffer
    <3> SUFFICES ASSUME Small
                 PROVE  Rectangle(0, 2 * i, BW, 2) \subseteq Buffer
      OBVIOUS
    <3>1. BH \in Nat \ {0} /\ BH % 2 = 0 /\ BW \in Nat
      BY <1>1, Numbers DEF Small
    <3>2. i < IMAGE_ROWS \/ i = 0
      BY <2>1 DEF IInv, InLoops
    <3>3. 2 * i + 2 <= BH /\ 2 * i \in Nat
      BY <1>1, <3>1, <3>2 DEF IMAGE_ROWS
    <3> QED  BY <1>1, <3>1, <3>3, RectangleFits
  <2>3. /\ i' \in Nat
        /\ (pc' = "background" /\ i' < IMAGE_ROWS) \/ (pc' = "title" /\ i' = 0)
    BY <1>1, <2>1, TurnBounds
  <2>4. InLoops' /\ Alternate' /\ PlotsInside'
    BY <2>1, <2>2, <2>3, PlotKeeps DEF IInv, InLoops, IMAGE_ROWS, Buffer
  <2> QED  BY <2>3, <2>4 DEF IInv, Halted
<1>3. CASE draw_title
  <2>1. /\ pc = "title" /\ Plot(Rectangle(0, 0, TITLE * GLYPH, LINE), "title")
        /\ pc' = "console" /\ i' = 0
    BY <1>3 DEF draw_title, IInv, InLoops
  <2>2. Small => Rectangle(0, 0, TITLE * GLYPH, LINE) \subseteq Buffer
    <3> SUFFICES ASSUME Small
                 PROVE  Rectangle(0, 0, TITLE * GLYPH, LINE) \subseteq Buffer
      OBVIOUS
    <3>1. TITLE * GLYPH \in Nat /\ TITLE * GLYPH <= BW /\ LINE \in Nat
      BY Products, Numbers
    <3>2. 1 * LINE <= ROWS * LINE /\ 1 * LINE = LINE /\ ROWS * LINE \in Nat
      BY Numbers, MulMono
    <3>3. 0 + LINE <= BH
      <4> DEFINE a == ROWS * LINE
      <4>1. LINE <= a /\ a <= BH /\ a \in Nat /\ BH \in Nat /\ LINE \in Nat
        BY <3>2, Products, Numbers
      <4> HIDE DEF a
      <4> QED  BY <4>1
    <3> QED  BY <1>1, <3>1, <3>3, RectangleFits
  <2>3. InLoops' /\ Alternate' /\ PlotsInside'
    BY <1>1, <2>1, <2>2, PlotKeeps DEF IInv, InLoops, Buffer
  <2> QED  BY <2>1, <2>3 DEF IInv, Halted
<1> QED  BY <1>2, <1>3

LEMMA RowsKeep ==
  ASSUME IInv, NEW now, NEW then, draw_vga_buffer(now, then),
         \/ now = "console" /\ then = "flip"
         \/ now = "halt_console" /\ then = "halt_flip"
  PROVE  IInv'
<1>1. pc = now /\ Plot(RowPixels(i), "text") /\ Turn(ROWS, then)
  BY DEF draw_vga_buffer
<1>2. i \in Rows /\ i \in Nat /\ ROWS \in Nat \ {0} /\ mode \in Modes
  BY <1>1, Numbers DEF IInv, InLoops, Rows
<1>3. Small /\ ~overlap => RowPixels(i) \subseteq Buffer
  BY <1>2, RowFits DEF IInv
<1>4. /\ mode' = mode /\ rows' = rows /\ video' = video
      /\ Alternate'
      /\ buffer' = [p \in Buffer |-> IF p \in RowPixels(i) THEN "text" ELSE buffer[p]]
      /\ PlotsInside'
  BY <1>1, <1>3, PlotKeeps
<1>5. /\ i' \in Nat
      /\ \/ i' = i + 1 /\ i' < ROWS /\ pc' = now
         \/ i' = 0 /\ ROWS <= i + 1 /\ pc' = then
  BY <1>1, <1>2, TurnBounds
<1>6. Fours' = Fours /\ Fours \in Nat \ {0} /\ Buffer' = Buffer
  BY <1>2, <1>4, FoursFit DEF Fours, Buffer
<1>7. InLoops'
  BY <1>1, <1>4, <1>5, <1>6 DEF IInv, InLoops
<1>8. ASSUME AsAsked
      PROVE  Halted'
  <2>1. CASE now = "console"
    BY <1>1, <1>5, <2>1 DEF Halted
  <2>2. CASE now = "halt_console"
    <3>1. then = "halt_flip" /\ pc = "halt_console"
      BY <1>1, <2>2
    <3>2. \A p \in Buffer :
            buffer'[p] = IF \E r \in Rows : r < i + 1 /\ InRow(p, mode, rows, r) THEN "text"
                         ELSE "clear"
      <4>1. \A r \in Rows : r < i + 1 <=> r < i \/ r = i
        BY <1>2 DEF Rows
      <4>2. \A p \in Buffer :
              buffer[p] = IF \E r \in Rows : r < i /\ InRow(p, mode, rows, r) THEN "text" ELSE "clear"
        BY <1>8, <3>1 DEF IInv, Halted
      <4>3. \A p \in Buffer : buffer'[p] = IF InRow(p, mode, rows, i) THEN "text" ELSE buffer[p]
        BY <1>4, RowIsInRow
      <4> QED  BY <1>2, <4>1, <4>2, <4>3
    <3>4. CASE i' = i + 1 /\ pc' = "halt_console"
      BY <1>4, <1>6, <3>2, <3>4 DEF Halted
    <3>5. CASE i' = 0 /\ ROWS <= i + 1 /\ pc' = "halt_flip"
      <4>1. \A r \in Rows : r < i + 1
        BY <1>2, <3>5 DEF Rows
      <4>2. \A p \in Buffer : buffer'[p] = IF Pictured(p, mode, rows) THEN "text" ELSE "clear"
        BY <3>2, <4>1 DEF Pictured
      <4>3. \A p \in Buffer : ~ (p < 4 * i')
        BY <3>5, Products
      <4> QED  BY <1>4, <1>6, <3>5, <4>2, <4>3 DEF Halted, Pictured
    <3> QED  BY <1>5, <2>2, <3>1, <3>4, <3>5
  <2> QED  BY <1>1, <2>1, <2>2
<1> QED  BY <1>4, <1>7, <1>8 DEF IInv, AsAsked

LEMMA ClearKeeps ==
  ASSUME IInv, clear_framebuffer
  PROVE  IInv'
<1>1. pc = "halt_clear" /\ Plot(Four, "clear") /\ Turn(Fours, "halt_console")
  BY DEF clear_framebuffer
<1>2. i \in Nat /\ i < Fours /\ mode \in Modes /\ Fours \in Nat \ {0} /\ ROWS \in Nat \ {0}
  BY <1>1, FoursFit, Numbers DEF IInv, InLoops
<1>3. Small => Four \subseteq Buffer
  BY <1>2, FoursFit DEF Four, Buffer
<1>4. /\ mode' = mode /\ rows' = rows /\ video' = video
      /\ Alternate'
      /\ buffer' = [p \in Buffer |-> IF p \in Four THEN "clear" ELSE buffer[p]]
      /\ PlotsInside'
  BY <1>1, <1>3, PlotKeeps
<1>5. /\ i' \in Nat
      /\ \/ i' = i + 1 /\ i' < Fours /\ pc' = "halt_clear"
         \/ i' = 0 /\ Fours <= i + 1 /\ pc' = "halt_console"
  BY <1>1, <1>2, TurnBounds
<1>6. Fours' = Fours /\ Buffer' = Buffer
  BY <1>4 DEF Fours, Buffer
<1>7. InLoops'
  BY <1>2, <1>4, <1>5, <1>6 DEF IInv, InLoops
<1>8. ASSUME AsAsked
      PROVE  Halted'
  <2>1. \A p \in Buffer : p < 4 * (i + 1) => buffer'[p] = "clear"
    <3>1. \A p \in Buffer : p < 4 * i => buffer[p] = "clear"
      BY <1>1, <1>8 DEF IInv, Halted
    <3>2. \A p \in Buffer : p < 4 * (i + 1) => p < 4 * i \/ p \in Four
      <4>1. \A p \in Buffer : p \in Int
        BY DEF Buffer
      <4> QED  BY <1>2, <4>1 DEF Four
    <3> QED  BY <1>4, <3>1, <3>2
  <2>2. CASE i' = i + 1 /\ pc' = "halt_clear"
    BY <1>6, <2>1, <2>2 DEF Halted
  <2>3. CASE i' = 0 /\ Fours <= i + 1 /\ pc' = "halt_console"
    <3>1. \A p \in Buffer : p < 4 * (i + 1)
      <4> DEFINE b == BW * BH
      <4>1. b \in Nat /\ 4 * Fours = b
        BY <1>2, <1>8, FoursFit, Products
      <4> HIDE DEF b
      <4>2. \A p \in 0 .. b - 1 : p < 4 * (i + 1)
        BY <1>2, <2>3, <4>1
      <4> QED  BY <4>2 DEF Buffer, b
    <3>2. \A r \in Rows : ~ (r < 0)
      BY DEF Rows
    <3> QED  BY <1>6, <2>1, <2>3, <3>1, <3>2 DEF Halted
  <2> QED  BY <1>5, <2>2, <2>3
<1> QED  BY <1>4, <1>7, <1>8 DEF IInv, AsAsked

LEMMA FlipKeeps ==
  ASSUME IInv, NEW now, NEW then, flip_framebuffer(now, then),
         \/ now = "flip" /\ then = "background"
         \/ now = "halt_flip" /\ then = "halted"
  PROVE  IInv'
<1>1. /\ pc = now /\ Turn(Fours, then)
      /\ video' = [p \in DOMAIN video |-> IF p \in Four \cap Buffer THEN buffer[p] ELSE video[p]]
      /\ outside' = ~(Four \subseteq Buffer \cap 0 .. Window - 1)
      /\ mode' = mode /\ rows' = rows /\ y' = y /\ buffer' = buffer
      /\ line' = line /\ overlap' = overlap
  BY DEF flip_framebuffer
<1>2. i \in Nat /\ i < Fours /\ mode \in Modes /\ Fours \in Nat \ {0}
  BY <1>1, FoursFit DEF IInv, InLoops
<1>3. PlotsInside'
  <2>1. Small => Four \subseteq Buffer
    BY <1>2, FoursFit DEF Four, Buffer
  <2>2. Buffer \subseteq 0 .. Window - 1
    <3> DEFINE b == BW * BH
    <3>1. b \in Nat /\ b <= Window /\ Window \in Nat
      BY Products, Numbers
    <3> HIDE DEF b
    <3>2. 0 .. b - 1 \subseteq 0 .. Window - 1
      BY <3>1
    <3> QED  BY <3>2 DEF Buffer, b
  <2>3. Small => ~outside'
    BY <1>1, <2>1, <2>2
  <2>4. mode.w \in Nat /\ mode.h \in Nat /\ BW \in Nat /\ BH \in Nat
    BY <1>2, Numbers
  <2> QED  BY <1>1, <2>3, <2>4 DEF PlotsInside, Small
<1>4. /\ i' \in Nat
      /\ \/ i' = i + 1 /\ i' < Fours /\ pc' = now
         \/ i' = 0 /\ Fours <= i + 1 /\ pc' = then
  BY <1>1, <1>2, TurnBounds
<1>5. Fours' = Fours /\ Buffer' = Buffer
  BY <1>1 DEF Fours, Buffer
<1>6. InLoops' /\ Alternate'
  BY <1>1, <1>2, <1>4, <1>5 DEF IInv, InLoops, Alternate
<1>7. ASSUME AsAsked
      PROVE  Halted'
  <2>1. CASE now = "flip"
    BY <1>1, <1>4, <2>1 DEF Halted
  <2>2. CASE now = "halt_flip"
    <3>1. then = "halted" /\ pc = "halt_flip"
      BY <1>1, <2>2
    <3>3. \A p \in Buffer : buffer'[p] = IF Pictured(p, mode, rows) THEN "text" ELSE "clear"
      BY <1>1, <1>5, <1>7, <3>1 DEF IInv, Halted
    <3>4. DOMAIN video = Buffer
      BY <1>7 DEF IInv, InLoops, AsAsked, Buffer
    <3>5. \A p \in Buffer : p < 4 * (i + 1) => video'[p] = buffer[p]
      <4>1. \A p \in Buffer : p < 4 * i => video[p] = buffer[p]
        BY <1>7, <3>1 DEF IInv, Halted
      <4>2. \A p \in Buffer : p < 4 * (i + 1) => p < 4 * i \/ p \in Four
        <5>1. \A p \in Buffer : p \in Int
          BY DEF Buffer
        <5> QED  BY <1>2, <5>1 DEF Four
      <4> QED  BY <1>1, <3>4, <4>1, <4>2
    <3>6. CASE i' = i + 1 /\ pc' = "halt_flip"
      BY <1>1, <1>5, <3>3, <3>5, <3>6 DEF Halted
    <3>7. CASE i' = 0 /\ Fours <= i + 1 /\ pc' = "halted"
      <4>1. \A p \in Buffer : p < 4 * (i + 1)
        <5> DEFINE b == BW * BH
        <5>1. b \in Nat /\ 4 * Fours = b
          BY <1>2, <1>7, FoursFit, Products
        <5> HIDE DEF b
        <5>2. \A p \in 0 .. b - 1 : p < 4 * (i + 1)
          BY <1>2, <3>7, <5>1
        <5> QED  BY <5>2 DEF Buffer, b
      <4> QED  BY <1>1, <1>5, <3>3, <3>5, <3>7, <4>1 DEF Halted
    <3> QED  BY <1>4, <2>2, <3>1, <3>6, <3>7
  <2> QED  BY <1>1, <2>1, <2>2
<1> QED  BY <1>1, <1>3, <1>6, <1>7 DEF IInv, AsAsked

LEMMA IInvNext == IInv /\ [Next]_vars => IInv'
<1> SUFFICES ASSUME IInv, [Next]_vars
             PROVE  IInv'
  OBVIOUS
<1>1. CASE UNCHANGED vars
  BY <1>1 DEF vars, IInv, InLoops, Alternate, Halted, PlotsInside, AsAsked, Fours, Four, Pictured,
     InRow
<1> QED  BY <1>1, ConsoleKeeps, PictureKeeps, RowsKeep, ClearKeeps, FlipKeeps DEF Next, Draw

LEMMA Invariance == Spec => []IInv
BY IInvInit, IInvNext, PTL DEF Spec

----------------------------------------------------------------------------
\* plot_pixel, clear_framebuffer and flip_framebuffer stay in their buffers in
\* every mode that is no larger than framebuffer_buffer, while prints do not
\* overlap.
THEOREM DrawingStaysInside == Spec => []PlotsInside
BY Invariance, PTL DEF IInv

\* halt() of idt.c leaves the console on the screen, wherever it interrupted
\* the drawing.
THEOREM HaltedPicture == Spec => []HaltShowsConsole
<1>1. IInv => HaltShowsConsole
  <2> SUFFICES ASSUME IInv, AsAsked, pc = "halted", NEW p \in DOMAIN video
               PROVE  video[p] = IF p \in TextPixels THEN "text" ELSE "clear"
    BY DEF HaltShowsConsole
  <2>1. p \in Buffer
    BY DEF IInv, InLoops, AsAsked, Buffer
  <2>2. p \in TextPixels <=> Pictured(p, mode, rows)
    BY RowIsInRow DEF TextPixels, Pictured
  <2> QED  BY <2>1, <2>2 DEF IInv, Halted
<1> QED  BY <1>1, Invariance, PTL
=============================================================================
