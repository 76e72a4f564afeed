--------------------------- MODULE ConsoleProofs ---------------------------
(***************************************************************************)
(* The cursor of the console comes back to the screen, whatever the size   *)
(* of the screen, however many threads print and however many of their     *)
(* increments get lost.  The reason: a thread that leaves the cursor off   *)
(* the screen has its own comparison with the edge still ahead.            *)
(*                                                                         *)
(* The same comparisons bound how far from the screen a store can fall, by *)
(* the number of threads and of lost increments, and keep the last row,    *)
(* which would be drawn behind the picture, empty.                         *)
(*                                                                         *)
(* And while prints do not overlap the screen implements Terminal: between *)
(* the steps of the one thread inside putchar lies a draft, the page its   *)
(* letter makes of the one last shown, and the cells depict that draft,    *)
(* its first rows already moved up while the thread scrolls.               *)
(*                                                                         *)
(* The last part is about the numbers that printf prints: the digits taken *)
(* from a number and what is left of it are together the number, and there *)
(* are no more digits than it has bits for.                                *)
(***************************************************************************)
EXTENDS Console, Conversions, FiniteSetTheorems, WellFoundedInduction,
        SequenceTheorems, TLAPS

Places == {"idle", "get_y", "write", "inc_x", "store_x", "wrap", "next_line",
           "inc_y", "store_y", "while", "scroll", "dec_y", "store_dec_y"}

\* A thread inside putchar, and what it carries along.
Calls == [pc : Places, ch : Letters \cup {NL}, x : Int, y : Int]

Sound(c) ==
  /\ c \in Calls
  /\ c.pc = "write" => c.ch \in Letters
  /\ c.pc = "store_x" => c.x \in Nat

CallOK == DOMAIN call = Thread /\ \A t \in Thread : Sound(call[t])

\* Behind the right edge, somebody has yet to look, or to go to the next line.
Wrapping == {"wrap", "next_line"}

WrapAhead == cursorX < VGA_WIDTH \/ \E t \in Thread : call[t].pc \in Wrapping

\* In the last row or below, somebody is in the loop that scrolls.
Scrolling == {"while", "scroll", "dec_y", "store_dec_y"}

ScrollAhead == cursorY < VGA_HEIGHT - 1 \/ \E t \in Thread : call[t].pc \in Scrolling

ScreenOK == screen \in [Cells -> Letters \cup {SPACE, BLANK}]

CursorOK == cursorX \in Nat /\ cursorY \in Int

OverlapOK == overlap \in BOOLEAN

Inv == ScreenOK /\ CursorOK /\ OverlapOK /\ CallOK /\ WrapAhead /\ ScrollAhead
----------------------------------------------------------------------------
\* A thread at a new place carries nothing that matters.
LEMMA PlaceSound ==
  ASSUME NEW place \in Places \ {"write", "store_x"}
  PROVE  Sound(Place(place)) /\ Place(place).pc = place
BY DEF Place, Sound, Calls

LEMMA InvType == Inv => TypeOK
BY DEF Inv, TypeOK, ScreenOK, CursorOK, OverlapOK, CallOK

\* When nobody is printing there is nobody left who would bring the cursor back.
LEMMA InvSettles == Inv => CursorSettles
<1> SUFFICES ASSUME Inv, Busy = {}
             PROVE  cursorX < VGA_WIDTH /\ cursorY < VGA_HEIGHT - 1
  BY DEF CursorSettles
<1>1. \A t \in Thread : call[t].pc = "idle"
  BY DEF Busy, Idle, Place
<1> QED
  BY <1>1 DEF Inv, WrapAhead, ScrollAhead, Wrapping, Scrolling

\* At first the screen is blank and the cursor in its corner.
LEMMA InvInit == Init => Inv
<1> SUFFICES ASSUME Init PROVE Inv
  OBVIOUS
<1>1. ScreenOK
  BY DEF Init, ScreenOK
<1>2. CursorOK
  BY DEF Init, CursorOK
<1>3. OverlapOK
  BY DEF Init, OverlapOK
<1>4. CallOK
  BY PlaceSound DEF Init, CallOK, Idle, Places
<1>5. WrapAhead /\ ScrollAhead
  BY ConsoleAssumption DEF Init, WrapAhead, ScrollAhead
<1> QED
  BY <1>1, <1>2, <1>3, <1>4, <1>5 DEF Inv

----------------------------------------------------------------------------
\* A thread goes on to a sound place.
LEMMA CallKept ==
  ASSUME Inv, NEW t \in Thread, NEW c, Sound(c),
         call' = [call EXCEPT ![t] = c]
  PROVE  CallOK'
BY DEF Inv, CallOK

\* The comparison with the right edge stays ahead: the thread that moves has made
\* it, or has it ahead itself, or was not the one who had, and moved nothing.
LEMMA WrapKept ==
  ASSUME Inv, NEW t \in Thread, NEW c,
         call' = [call EXCEPT ![t] = c],
         \/ cursorX' < VGA_WIDTH
         \/ c.pc \in Wrapping
         \/ cursorX' = cursorX /\ call[t].pc \notin Wrapping
  PROVE  WrapAhead'
BY DEF Inv, CallOK, WrapAhead

\* The same for the loop that scrolls.
LEMMA ScrollKept ==
  ASSUME Inv, NEW t \in Thread, NEW c,
         call' = [call EXCEPT ![t] = c],
         \/ cursorY' < VGA_HEIGHT - 1
         \/ c.pc \in Scrolling
         \/ cursorY' = cursorY /\ call[t].pc \notin Scrolling
  PROVE  ScrollAhead'
BY DEF Inv, CallOK, ScrollAhead

\* A thread that moves nothing of the screen, the cursor or the history.
LEMMA Quiet ==
  ASSUME Inv, UNCHANGED <<screen, cursorX, cursorY, overlap>>
  PROVE  ScreenOK' /\ CursorOK' /\ OverlapOK'
BY DEF Inv, ScreenOK, CursorOK, OverlapOK

\* All parts of a step of a thread.
LEMMA Moves ==
  ASSUME Inv, NEW t \in Thread, NEW c, Sound(c),
         call' = [call EXCEPT ![t] = c],
         ScreenOK', CursorOK', OverlapOK',
         \/ cursorX' < VGA_WIDTH
         \/ c.pc \in Wrapping
         \/ cursorX' = cursorX /\ call[t].pc \notin Wrapping,
         \/ cursorY' < VGA_HEIGHT - 1
         \/ c.pc \in Scrolling
         \/ cursorY' = cursorY /\ call[t].pc \notin Scrolling
  PROVE  Inv'
<1>1. CallOK'
  BY CallKept
<1>2. WrapAhead'
  BY WrapKept
<1>3. ScrollAhead'
  BY ScrollKept
<1> QED
  BY <1>1, <1>2, <1>3 DEF Inv

\* Before the character is written.
LEMMA ReadingKeeps ==
  ASSUME Inv, NEW t \in Thread,
         (\E ch \in Letters \cup {NL} : putchar(t, ch)) \/ get_y(t)
  PROVE  Inv'
<1>1. ASSUME NEW ch \in Letters \cup {NL}, putchar(t, ch) PROVE Inv'
  <2> DEFINE c == [pc |-> "get_y", ch |-> ch, x |-> cursorX, y |-> 0]
  <2>1. Sound(c) /\ c.pc = "get_y"
    BY DEF Inv, CursorOK, Sound, Calls, Places
  <2>2. call' = [call EXCEPT ![t] = c]
    BY <1>1 DEF putchar
  <2>3. ScreenOK' /\ CursorOK'
    BY <1>1 DEF putchar, Inv, ScreenOK, CursorOK
  <2>4. OverlapOK'
    BY <1>1, Zenon DEF putchar, Inv, OverlapOK
  <2>5. cursorX' = cursorX /\ cursorY' = cursorY /\ call[t].pc = "idle"
    BY <1>1 DEF putchar, At
  <2> HIDE DEF c
  <2> QED
    BY <2>1, <2>2, <2>3, <2>4, <2>5, Moves DEF Wrapping, Scrolling
<1>2. ASSUME get_y(t) PROVE Inv'
  <2> DEFINE c == IF call[t].ch = NL THEN Place("next_line")
                  ELSE [call[t] EXCEPT !.pc = "write", !.y = cursorY]
  <2>1. Sound(c)
    <3>1. CASE call[t].ch = NL
      BY <3>1, PlaceSound DEF Places
    <3>2. CASE call[t].ch # NL
      BY <3>2 DEF Inv, CallOK, CursorOK, Sound, Calls, Places
    <3> QED
      BY <3>1, <3>2
  <2>2. call' = [call EXCEPT ![t] = c]
    BY <1>2 DEF get_y, Inv, CallOK
  <2>3. ScreenOK' /\ CursorOK' /\ OverlapOK'
    BY <1>2, Quiet DEF get_y
  <2>4. cursorX' = cursorX /\ cursorY' = cursorY /\ call[t].pc = "get_y"
    BY <1>2 DEF get_y, At
  <2> HIDE DEF c
  <2> QED
    BY <2>1, <2>2, <2>3, <2>4, Moves DEF Wrapping, Scrolling
<1> QED
  BY <1>1, <1>2

\* The letter and the column.
LEMMA LetterKeeps ==
  ASSUME Inv, NEW t \in Thread,
         write(t) \/ inc_x(t) \/ store_x(t) \/ wrap(t)
  PROVE  Inv'
<1>1. ASSUME write(t) PROVE Inv'
  <2>1. Sound(Place("inc_x")) /\ Place("inc_x").pc = "inc_x"
    BY PlaceSound DEF Places
  <2>2. call' = [call EXCEPT ![t] = Place("inc_x")]
    BY <1>1 DEF write, Goto
  <2>3. call[t].ch \in Letters
    BY <1>1 DEF write, At, Inv, CallOK, Sound
  <2>4. ScreenOK'
    BY <1>1, <2>3 DEF write, Inv, ScreenOK
  <2>5. CursorOK' /\ OverlapOK'
    BY <1>1 DEF write, Goto, Inv, CursorOK, OverlapOK
  <2>6. cursorX' = cursorX /\ cursorY' = cursorY /\ call[t].pc = "write"
    BY <1>1 DEF write, At
  <2> QED
    BY <2>1, <2>2, <2>4, <2>5, <2>6, Moves DEF Wrapping, Scrolling
<1>2. ASSUME inc_x(t) PROVE Inv'
  <2> DEFINE c == [Place("store_x") EXCEPT !.x = cursorX + 1]
  <2>1. Sound(c)
    BY DEF Inv, CursorOK, Place, Sound, Calls, Places
  <2>2. call' = [call EXCEPT ![t] = c]
    BY <1>2 DEF inc_x, Load
  <2>3. ScreenOK' /\ CursorOK' /\ OverlapOK'
    BY <1>2, Quiet DEF inc_x, Load
  <2>4. cursorX' = cursorX /\ cursorY' = cursorY /\ call[t].pc = "inc_x"
    BY <1>2 DEF inc_x, Load, At
  <2> HIDE DEF c
  <2> QED
    BY <2>1, <2>2, <2>3, <2>4, Moves DEF Wrapping, Scrolling
<1>3. ASSUME store_x(t) PROVE Inv'
  <2>1. Sound(Place("wrap")) /\ Place("wrap").pc = "wrap"
    BY PlaceSound DEF Places
  <2>2. call' = [call EXCEPT ![t] = Place("wrap")]
    BY <1>3 DEF store_x, Goto
  <2>3. ScreenOK' /\ OverlapOK'
    BY <1>3 DEF store_x, Goto, Inv, ScreenOK, OverlapOK
  <2>4. CursorOK'
    BY <1>3 DEF store_x, At, Inv, CursorOK, CallOK, Sound
  <2>5. cursorY' = cursorY /\ call[t].pc = "store_x"
    BY <1>3 DEF store_x, At
  <2> QED
    BY <2>1, <2>2, <2>3, <2>4, <2>5, Moves DEF Wrapping, Scrolling
<1>4. ASSUME wrap(t) PROVE Inv'
  <2>1. CASE cursorX >= VGA_WIDTH
    <3>1. Sound(Place("next_line")) /\ Place("next_line").pc = "next_line"
      BY PlaceSound DEF Places
    <3>2. call' = [call EXCEPT ![t] = Place("next_line")]
      BY <1>4, <2>1 DEF wrap, Goto
    <3>3. ScreenOK' /\ CursorOK' /\ OverlapOK'
      BY <1>4, <2>1, Quiet DEF wrap, Goto
    <3>4. cursorY' = cursorY /\ call[t].pc = "wrap"
      BY <1>4 DEF wrap, At
    <3> QED
      BY <3>1, <3>2, <3>3, <3>4, Moves DEF Wrapping, Scrolling
  <2>2. CASE ~(cursorX >= VGA_WIDTH)
    <3>1. Sound(Idle)
      BY PlaceSound DEF Idle, Places
    <3>2. call' = [call EXCEPT ![t] = Idle]
      BY <1>4, <2>2 DEF wrap, Return
    <3>3. ScreenOK' /\ CursorOK' /\ OverlapOK'
      BY <1>4, <2>2, Quiet DEF wrap, Return
    <3>4. cursorX' < VGA_WIDTH /\ cursorY' = cursorY /\ call[t].pc = "wrap"
      BY <1>4, <2>2, ConsoleAssumption DEF wrap, At, Inv, CursorOK
    <3> QED
      BY <3>1, <3>2, <3>3, <3>4, Moves DEF Scrolling
  <2> QED
    BY <2>1, <2>2
<1> QED
  BY <1>1, <1>2, <1>3, <1>4

\* The new line.
LEMMA NextLineKeeps ==
  ASSUME Inv, NEW t \in Thread,
         vga_next_line(t) \/ inc_y(t) \/ store_y(t)
  PROVE  Inv'
<1>1. ASSUME vga_next_line(t) PROVE Inv'
  <2>1. Sound(Place("inc_y"))
    BY PlaceSound DEF Places
  <2>2. call' = [call EXCEPT ![t] = Place("inc_y")]
    BY <1>1 DEF vga_next_line, Goto
  <2>3. ScreenOK' /\ CursorOK' /\ OverlapOK'
    BY <1>1 DEF vga_next_line, Goto, Inv, ScreenOK, CursorOK, OverlapOK
  <2>4. cursorX' < VGA_WIDTH /\ cursorY' = cursorY /\ call[t].pc = "next_line"
    BY <1>1, ConsoleAssumption DEF vga_next_line, At
  <2> QED
    BY <2>1, <2>2, <2>3, <2>4, Moves DEF Scrolling
<1>2. ASSUME inc_y(t) PROVE Inv'
  <2> DEFINE c == [Place("store_y") EXCEPT !.x = cursorY + 1]
  <2>1. Sound(c)
    BY DEF Inv, CursorOK, Place, Sound, Calls, Places
  <2>2. call' = [call EXCEPT ![t] = c]
    BY <1>2 DEF inc_y, Load
  <2>3. ScreenOK' /\ CursorOK' /\ OverlapOK'
    BY <1>2, Quiet DEF inc_y, Load
  <2>4. cursorX' = cursorX /\ cursorY' = cursorY /\ call[t].pc = "inc_y"
    BY <1>2 DEF inc_y, Load, At
  <2> HIDE DEF c
  <2> QED
    BY <2>1, <2>2, <2>3, <2>4, Moves DEF Wrapping, Scrolling
<1>3. ASSUME store_y(t) PROVE Inv'
  <2>1. Sound(Place("while")) /\ Place("while").pc = "while"
    BY PlaceSound DEF Places
  <2>2. call' = [call EXCEPT ![t] = Place("while")]
    BY <1>3 DEF store_y, Goto
  <2>3. ScreenOK' /\ OverlapOK'
    BY <1>3 DEF store_y, Goto, Inv, ScreenOK, OverlapOK
  <2>4. CursorOK'
    BY <1>3 DEF store_y, Inv, CursorOK, CallOK, Sound, Calls
  <2>5. cursorX' = cursorX /\ call[t].pc = "store_y"
    BY <1>3 DEF store_y, At
  <2> QED
    BY <2>1, <2>2, <2>3, <2>4, <2>5, Moves DEF Wrapping, Scrolling
<1> QED
  BY <1>1, <1>2, <1>3

\* The scroll moves cells or clears them.
LEMMA MovedType ==
  ASSUME ScreenOK, NEW r
  PROVE  Moved(screen, r) \in [Cells -> Letters \cup {SPACE, BLANK}]
BY DEF ScreenOK, Moved

\* The loop that scrolls.
LEMMA ScrollKeeps ==
  ASSUME Inv, NEW t \in Thread,
         \/ vga_check_if_scroll_needed(t) \/ vga_scroll_screen(t)
         \/ dec_y(t) \/ store_dec_y(t)
  PROVE  Inv'
<1>1. ASSUME vga_check_if_scroll_needed(t) PROVE Inv'
  <2>1. CASE cursorY >= VGA_HEIGHT - 1
    <3> DEFINE c == [Place("scroll") EXCEPT !.x = 0]
    <3>1. Sound(c) /\ c.pc = "scroll"
      BY DEF Place, Sound, Calls, Places
    <3>2. call' = [call EXCEPT ![t] = c]
      BY <1>1, <2>1 DEF vga_check_if_scroll_needed, Load
    <3>3. ScreenOK' /\ CursorOK' /\ OverlapOK'
      BY <1>1, <2>1, Quiet DEF vga_check_if_scroll_needed, Load
    <3>4. cursorX' = cursorX /\ call[t].pc = "while"
      BY <1>1 DEF vga_check_if_scroll_needed, At
    <3> HIDE DEF c
    <3> QED
      BY <3>1, <3>2, <3>3, <3>4, Moves DEF Wrapping, Scrolling
  <2>2. CASE ~(cursorY >= VGA_HEIGHT - 1)
    <3>1. Sound(Idle)
      BY PlaceSound DEF Idle, Places
    <3>2. call' = [call EXCEPT ![t] = Idle]
      BY <1>1, <2>2 DEF vga_check_if_scroll_needed, Return
    <3>3. ScreenOK' /\ CursorOK' /\ OverlapOK'
      BY <1>1, <2>2, Quiet DEF vga_check_if_scroll_needed, Return
    <3>4. cursorX' = cursorX /\ cursorY' < VGA_HEIGHT - 1 /\ call[t].pc = "while"
      BY <1>1, <2>2, ConsoleAssumption
         DEF vga_check_if_scroll_needed, At, Inv, CursorOK
    <3> QED
      BY <3>1, <3>2, <3>3, <3>4, Moves DEF Wrapping
  <2> QED
    BY <2>1, <2>2
<1>2. ASSUME vga_scroll_screen(t) PROVE Inv'
  <2> DEFINE c == IF call[t].x + 1 \in Rows THEN [call[t] EXCEPT !.x = call[t].x + 1]
                  ELSE Place("dec_y")
  <2>1. call[t].pc = "scroll" /\ Sound(call[t])
    BY <1>2 DEF vga_scroll_screen, At, Inv, CallOK
  <2>2. Sound(c) /\ c.pc \in {"scroll", "dec_y"}
    <3>1. CASE call[t].x + 1 \in Rows
      BY <2>1, <3>1 DEF Sound, Calls
    <3>2. CASE call[t].x + 1 \notin Rows
      BY <3>2, PlaceSound DEF Places
    <3> QED
      BY <3>1, <3>2
  <2>3. call' = [call EXCEPT ![t] = c]
    BY <1>2 DEF vga_scroll_screen, Inv, CallOK
  <2>4. ScreenOK'
    BY <1>2, MovedType DEF vga_scroll_screen, Inv, ScreenOK
  <2>5. CursorOK' /\ OverlapOK'
    BY <1>2 DEF vga_scroll_screen, Inv, CursorOK, OverlapOK
  <2>6. cursorX' = cursorX
    BY <1>2 DEF vga_scroll_screen
  <2> HIDE DEF c
  <2> QED
    BY <2>1, <2>2, <2>3, <2>4, <2>5, <2>6, Moves DEF Wrapping, Scrolling
<1>3. ASSUME dec_y(t) PROVE Inv'
  <2> DEFINE c == [Place("store_dec_y") EXCEPT !.x = cursorY - 1]
  <2>1. Sound(c) /\ c.pc = "store_dec_y"
    BY DEF Inv, CursorOK, Place, Sound, Calls, Places
  <2>2. call' = [call EXCEPT ![t] = c]
    BY <1>3 DEF dec_y, Load
  <2>3. ScreenOK' /\ CursorOK' /\ OverlapOK'
    BY <1>3, Quiet DEF dec_y, Load
  <2>4. cursorX' = cursorX /\ call[t].pc = "dec_y"
    BY <1>3 DEF dec_y, Load, At
  <2> HIDE DEF c
  <2> QED
    BY <2>1, <2>2, <2>3, <2>4, Moves DEF Wrapping, Scrolling
<1>4. ASSUME store_dec_y(t) PROVE Inv'
  <2>1. Sound(Place("while")) /\ Place("while").pc = "while"
    BY PlaceSound DEF Places
  <2>2. call' = [call EXCEPT ![t] = Place("while")]
    BY <1>4 DEF store_dec_y, Goto
  <2>3. ScreenOK' /\ OverlapOK'
    BY <1>4 DEF store_dec_y, Goto, Inv, ScreenOK, OverlapOK
  <2>4. CursorOK'
    BY <1>4 DEF store_dec_y, Inv, CursorOK, CallOK, Sound, Calls
  <2>5. cursorX' = cursorX /\ call[t].pc = "store_dec_y"
    BY <1>4 DEF store_dec_y, At
  <2> QED
    BY <2>1, <2>2, <2>3, <2>4, <2>5, Moves DEF Wrapping, Scrolling
<1> QED
  BY <1>1, <1>2, <1>3, <1>4

----------------------------------------------------------------------------
\* The state the handler finds and leaves.
Now == [screen |-> screen, x |-> cursorX, y |-> cursorY]

\* A new line of the handler, which no tick interrupts, ends above the last row.
LEMMA NewLineResult ==
  ASSUME NEW s \in [screen : [Cells -> Letters \cup {SPACE, BLANK}], x : Nat, y : Int]
  PROVE  LET w == NewLine(s)
         IN  /\ w.screen \in [Cells -> Letters \cup {SPACE, BLANK}]
             /\ w.x = 0 /\ w.y \in Int /\ w.y < VGA_HEIGHT - 1
<1>1. \A n \in Int : Scrolled(s.screen, n) \in [Cells -> Letters \cup {SPACE, BLANK}]
  BY DEF Scrolled
<1> DEFINE n == IF s.y + 1 >= VGA_HEIGHT - 1 THEN s.y + 2 - (VGA_HEIGHT - 1) ELSE 0
<1>2. n \in Int /\ s.y + 1 - n \in Int /\ s.y + 1 - n < VGA_HEIGHT - 1
  BY ConsoleAssumption
<1>3. NewLine(s) = [screen |-> Scrolled(s.screen, n), x |-> 0, y |-> s.y + 1 - n]
  BY DEF NewLine
<1> HIDE DEF n
<1> QED
  BY <1>1, <1>2, <1>3

\* A letter of the handler stays in its row or goes to a new line.
LEMMA LetterResult ==
  ASSUME NEW s \in [screen : [Cells -> Letters \cup {SPACE, BLANK}], x : Nat, y : Int],
         NEW ch \in Letters
  PROVE  LET w == Letter(s, ch)
         IN  /\ w.screen \in [Cells -> Letters \cup {SPACE, BLANK}]
             /\ w.x \in Nat /\ w.x < VGA_WIDTH
             /\ w.y \in Int /\ (w.y = s.y \/ w.y < VGA_HEIGHT - 1)
<1> DEFINE at == s.y * VGA_WIDTH + s.x
           cells == IF at \in Cells THEN [s.screen EXCEPT ![at] = ch] ELSE s.screen
           w == [screen |-> cells, x |-> s.x + 1, y |-> s.y]
<1>1. /\ w \in [screen : [Cells -> Letters \cup {SPACE, BLANK}], x : Nat, y : Int]
      /\ w.y = s.y
  <2>1. cells \in [Cells -> Letters \cup {SPACE, BLANK}]
    <3> HIDE DEF at
    <3> QED
      OBVIOUS
  <2> HIDE DEF cells
  <2> QED
    BY <2>1
<1>2. Letter(s, ch) = IF w.x >= VGA_WIDTH THEN NewLine(w) ELSE w
  BY DEF Letter
<1> HIDE DEF w
<1>3. CASE w.x >= VGA_WIDTH
  BY <1>1, <1>2, <1>3, NewLineResult, ConsoleAssumption
<1>4. CASE ~(w.x >= VGA_WIDTH)
  BY <1>1, <1>2, <1>4, ConsoleAssumption
<1> QED
  BY <1>3, <1>4

\* The handler leaves the threads where they are.
LEMMA HandlerKeeps ==
  ASSUME Inv, (\E ch \in Letters \cup {NL} : keyboard(ch)) \/ keyboard_erase
  PROVE  Inv'
<1>1. ASSUME NEW ch \in Letters \cup {NL}, keyboard(ch) PROVE Inv'
  <2> DEFINE w == IF ch = NL THEN NewLine(Now) ELSE Letter(Now, ch)
  <2>1. Now \in [screen : [Cells -> Letters \cup {SPACE, BLANK}], x : Nat, y : Int]
    BY DEF Now, Inv, ScreenOK, CursorOK
  <2>2. /\ w.screen \in [Cells -> Letters \cup {SPACE, BLANK}]
        /\ w.x \in Nat /\ w.x < VGA_WIDTH
        /\ w.y \in Int /\ (w.y = cursorY \/ w.y < VGA_HEIGHT - 1)
    <3>1. CASE ch = NL
      BY <3>1, <2>1, NewLineResult, ConsoleAssumption
    <3>2. CASE ch # NL
      BY <3>2, <2>1, LetterResult DEF Now
    <3> QED
      BY <3>1, <3>2
  <2>3. screen' = w.screen /\ cursorX' = w.x /\ cursorY' = w.y /\ call' = call
    BY <1>1 DEF keyboard, Now
  <2> HIDE DEF w
  <2>4. ScreenOK' /\ CursorOK'
    BY <2>2, <2>3 DEF ScreenOK, CursorOK
  <2>5. OverlapOK'
    BY <1>1, Zenon DEF keyboard, Inv, OverlapOK
  <2>6. CallOK' /\ WrapAhead' /\ ScrollAhead'
    BY <2>2, <2>3 DEF Inv, CallOK, WrapAhead, ScrollAhead
  <2> QED
    BY <2>4, <2>5, <2>6 DEF Inv
<1>2. ASSUME keyboard_erase PROVE Inv'
  <2>1. /\ cursorX' \in Nat /\ cursorX' <= cursorX
        /\ cursorY' = cursorY /\ call' = call
    BY <1>2 DEF keyboard_erase, Left, Inv, CursorOK
  <2>2. ScreenOK'
    BY <1>2 DEF keyboard_erase, Inv, ScreenOK
  <2>3. OverlapOK'
    BY <1>2, Zenon DEF keyboard_erase, Inv, OverlapOK
  <2>4. CursorOK' /\ CallOK' /\ ScrollAhead'
    BY <2>1 DEF Inv, CursorOK, CallOK, ScrollAhead
  <2>5. WrapAhead'
    BY <2>1, ConsoleAssumption DEF Inv, CursorOK, WrapAhead
  <2> QED
    BY <2>2, <2>3, <2>4, <2>5 DEF Inv
<1> QED
  BY <1>1, <1>2

LEMMA InvNext == Inv /\ [Next]_vars => Inv'
<1> SUFFICES ASSUME Inv, [Next]_vars PROVE Inv'
  OBVIOUS
<1>1. ASSUME NEW t \in Thread, Step(t) PROVE Inv'
  BY <1>1, ReadingKeeps, LetterKeeps, NextLineKeeps, ScrollKeeps DEF Step
<1>2. CASE (\E ch \in Letters \cup {NL} : keyboard(ch)) \/ keyboard_erase
  BY <1>2, HandlerKeeps
<1>3. CASE UNCHANGED vars
  BY <1>3 DEF vars, Inv, ScreenOK, CursorOK, OverlapOK, CallOK, WrapAhead, ScrollAhead
<1> QED
  BY <1>1, <1>2, <1>3 DEF Next

LEMMA Invariance == Spec => []Inv
BY InvInit, InvNext, PTL DEF Spec

----------------------------------------------------------------------------
\* The console is well typed.
THEOREM TypeCorrect == Spec => []TypeOK
BY Invariance, InvType, PTL

\* When the last print returns the cursor is on the screen, above the last row,
\* whatever the threads, the handler and the ticks did to one another before.
THEOREM Settles == Spec => []CursorSettles
BY Invariance, InvSettles, PTL

----------------------------------------------------------------------------
(***************************************************************************)
(* How far the cursor gets from the screen.  Every thread that has yet to  *)
(* look at the edge may have moved the cursor over it, once; a lost        *)
(* increment gives the cursor back a value it had when all threads but one *)
(* were in that place.                                                     *)
(***************************************************************************)
Count(k, P) == Cardinality({t \in Thread : k[t].pc \in P})

\* In the loop, with the comparison behind it.
Falling == {"scroll", "dec_y", "store_dec_y"}

\* What a thread carries is where the cursor was, or next to it.
Near(c, s, l) ==
  /\ c.pc \in {"get_y", "write", "store_x"} => c.x \in 0 .. VGA_WIDTH - 1 + s
  /\ c.pc = "write" => c.y \in - l .. VGA_HEIGHT - 2 + s
  /\ c.pc \in {"store_y", "store_dec_y"} => c.x \in - l .. VGA_HEIGHT - 2 + s

XBound == cursorX <= VGA_WIDTH - 1 + Count(call, Wrapping) + Lost

YBound ==
  /\ cursorY <= VGA_HEIGHT - 2 + Count(call, Scrolling) + Lost
  /\ cursorY >= Count(call, Falling) - Lost

Carried == \A t \in Thread : Near(call[t], Slack, Lost)

Bounds == torn \in Nat /\ XBound /\ YBound /\ Carried

LEMMA Threads ==
  /\ IsFiniteSet(Thread) /\ N \in Nat /\ 1 <= N /\ N <= VGA_HEIGHT - 2
  /\ VGA_HEIGHT \in Nat /\ VGA_WIDTH \in Nat /\ 0 < VGA_WIDTH
<1>1. IsFiniteSet(Thread) /\ Thread # {} /\ Cardinality(Thread) < VGA_HEIGHT - 1
  BY ConsoleAssumption
<1>2. Cardinality(Thread) \in Nat /\ Cardinality(Thread) # 0
  BY <1>1, FS_CardinalityType, FS_EmptySet
<1> QED  BY <1>1, <1>2, ConsoleAssumption DEF N

LEMMA CountBounds ==
  ASSUME NEW k, NEW P
  PROVE  /\ Count(k, P) \in Nat /\ Count(k, P) <= N
         /\ \A t \in Thread : k[t].pc \notin P => Count(k, P) <= N - 1
         /\ \A t \in Thread : k[t].pc \in P => 1 <= Count(k, P)
<1> DEFINE S == {t \in Thread : k[t].pc \in P}
<1>1. IsFiniteSet(S) /\ Cardinality(S) \in Nat /\ Cardinality(S) <= N
  BY Threads, FS_Subset, FS_CardinalityType DEF N
<1>2. ASSUME NEW t \in Thread, t \notin S
      PROVE  Cardinality(S) <= N - 1
  <2>1. IsFiniteSet(Thread \ {t}) /\ Cardinality(Thread \ {t}) = N - 1
    BY Threads, FS_RemoveElement DEF N
  <2>2. S \subseteq Thread \ {t}
    BY <1>2
  <2> QED  BY <2>1, <2>2, FS_Subset
<1>3. ASSUME NEW t \in S
      PROVE  1 <= Cardinality(S)
  <2>1. Cardinality(S) # 0
    BY <1>1, FS_EmptySet
  <2> QED  BY <1>1, <2>1
<1>4. Count(k, P) = Cardinality(S)
  BY DEF Count
<1> QED  BY <1>1, <1>2, <1>3, <1>4

LEMMA CountMoves ==
  ASSUME NEW k, NEW m, NEW P, NEW t \in Thread, NEW c,
         DOMAIN k = Thread, m = [k EXCEPT ![t] = c]
  PROVE  /\ c.pc \in P /\ k[t].pc \notin P => Count(m, P) = Count(k, P) + 1
         /\ c.pc \notin P /\ k[t].pc \in P => Count(m, P) = Count(k, P) - 1
         /\ (c.pc \in P <=> k[t].pc \in P) => Count(m, P) = Count(k, P)
<1> DEFINE S == {u \in Thread : k[u].pc \in P}
           T == {u \in Thread : m[u].pc \in P}
<1>1. IsFiniteSet(S) /\ Cardinality(S) \in Nat
  BY Threads, FS_Subset, FS_CardinalityType
<1>2. \A u \in Thread : m[u] = IF u = t THEN c ELSE k[u]
  OBVIOUS
<1>3. Count(m, P) = Cardinality(T) /\ Count(k, P) = Cardinality(S)
  BY DEF Count
<1>4. CASE c.pc \in P /\ k[t].pc \notin P
  <2>1. T = S \cup {t} /\ t \notin S
    BY <1>2, <1>4
  <2>2. Cardinality(T) = Cardinality(S) + 1
    BY <1>1, <2>1, FS_AddElement
  <2> QED  BY <1>3, <1>4, <2>2
<1>5. CASE c.pc \notin P /\ k[t].pc \in P
  <2>1. T = S \ {t} /\ t \in S
    BY <1>2, <1>5
  <2>2. Cardinality(T) = Cardinality(S) - 1
    BY <1>1, <2>1, FS_RemoveElement
  <2> QED  BY <1>3, <1>5, <2>2
<1>6. CASE c.pc \in P <=> k[t].pc \in P
  <2>1. T = S
    BY <1>2, <1>6
  <2> QED  BY <1>3, <1>6, <2>1
<1> QED  BY <1>4, <1>5, <1>6

LEMMA LostGrows ==
  ASSUME torn \in Nat
  PROVE  /\ Lost \in Nat /\ Slack = N + Lost
         /\ torn' = torn => Lost' = Lost /\ Slack' = Slack
         /\ torn' = torn + 1 => Lost' = Lost + N - 1 /\ Slack' = Slack + N - 1
<1>1. N \in Nat /\ 1 <= N
  BY Threads
<1>2. (N - 1) * torn \in Nat /\ (N - 1) * (torn + 1) = (N - 1) * torn + N - 1
  BY <1>1
<1> QED  BY <1>1, <1>2 DEF Lost, Slack, N

\* What is near stays near while increments get lost.
LEMMA NearMore ==
  ASSUME NEW c, NEW s \in Nat, NEW l \in Nat, NEW s1 \in Nat, NEW l1 \in Nat,
         s <= s1, l <= l1, Near(c, s, l)
  PROVE  Near(c, s1, l1)
BY Threads DEF Near

\* A store is torn, or the cursor was what the increment began with.
LEMMA StoreCases ==
  ASSUME torn \in Nat, NEW v, NEW now, NEW d, Store(v, now, d)
  PROVE  torn' \in Nat /\ ((torn' = torn /\ v = now + d) \/ torn' = torn + 1)
BY DEF Store

LEMMA CarriedStep ==
  ASSUME Inv, Bounds, NEW t \in Thread, NEW c, Near(c, Slack', Lost'),
         call' = [call EXCEPT ![t] = c], torn' = torn \/ torn' = torn + 1
  PROVE  Carried'
<1>1. N \in Nat /\ 1 <= N
  BY Threads
<1>2. /\ Lost \in Nat /\ Lost' \in Nat /\ Lost <= Lost'
      /\ Slack \in Nat /\ Slack' \in Nat /\ Slack <= Slack'
  BY <1>1, LostGrows DEF Bounds
<1>3. \A u \in Thread : Near(call[u], Slack', Lost')
  BY <1>2, NearMore DEF Bounds, Carried
<1>4. \A u \in Thread : call'[u] = IF u = t THEN c ELSE call[u]
  BY DEF Inv, CallOK
<1> QED  BY <1>3, <1>4 DEF Carried

\* The column: the thread goes on, or looks at the edge, or has moved on by one, or
\* has lost an increment.
LEMMA XStep ==
  ASSUME Inv, Bounds, NEW t \in Thread, NEW c,
         call' = [call EXCEPT ![t] = c], torn' = torn \/ torn' = torn + 1, cursorX' \in Nat,
         \/ cursorX' < VGA_WIDTH
         \/ cursorX' = cursorX /\ (call[t].pc \in Wrapping => c.pc \in Wrapping)
         \/ cursorX' = cursorX + 1 /\ call[t].pc \notin Wrapping /\ c.pc \in Wrapping
         \/ torn' = torn + 1 /\ cursorX' <= VGA_WIDTH - 1 + Slack /\ c.pc \in Wrapping
  PROVE  XBound'
<1> DEFINE n == Count(call, Wrapping)
           m == Count(call', Wrapping)
<1>1. /\ n \in Nat /\ m \in Nat /\ n <= N /\ m <= N
      /\ c.pc \in Wrapping => 1 <= m
  <2>1. call'[t] = c
    BY DEF Inv, CallOK
  <2> QED  BY <2>1, CountBounds
<1>2. /\ c.pc \in Wrapping /\ call[t].pc \notin Wrapping => m = n + 1
      /\ (c.pc \in Wrapping <=> call[t].pc \in Wrapping) => m = n
  <2>1. DOMAIN call = Thread
    BY DEF Inv, CallOK
  <2>2. c.pc \in Wrapping /\ call[t].pc \notin Wrapping => m = n + 1
    BY <2>1, CountMoves, Zenon
  <2>3. (c.pc \in Wrapping <=> call[t].pc \in Wrapping) => m = n
    BY <2>1, CountMoves, Zenon
  <2> QED  BY <2>2, <2>3
<1> HIDE DEF n, m
<1>3. /\ Lost \in Nat /\ Slack = N + Lost /\ N \in Nat /\ 1 <= N
      /\ torn' = torn => Lost' = Lost
      /\ torn' = torn + 1 => Lost' = Lost + N - 1
  BY LostGrows, Threads DEF Bounds
<1>4. cursorX \in Nat /\ VGA_WIDTH \in Nat /\ cursorX <= VGA_WIDTH - 1 + n + Lost
  BY Threads DEF Inv, CursorOK, Bounds, XBound, n
<1>5. cursorX' <= VGA_WIDTH - 1 + m + Lost'
  BY <1>1, <1>2, <1>3, <1>4
<1> QED  BY <1>5 DEF XBound, m

\* The row, downwards.
LEMMA YDown ==
  ASSUME Inv, Bounds, NEW t \in Thread, NEW c,
         call' = [call EXCEPT ![t] = c], torn' = torn \/ torn' = torn + 1, cursorY' \in Int,
         \/ cursorY' < VGA_HEIGHT - 1
         \/ cursorY' = cursorY /\ (call[t].pc \in Scrolling => c.pc \in Scrolling)
         \/ cursorY' = cursorY + 1 /\ call[t].pc \notin Scrolling /\ c.pc \in Scrolling
         \/ cursorY' = cursorY - 1 /\ c.pc \in Scrolling
         \/ torn' = torn + 1 /\ cursorY' <= VGA_HEIGHT - 2 + Slack /\ c.pc \in Scrolling
  PROVE  cursorY' <= VGA_HEIGHT - 2 + Count(call', Scrolling) + Lost'
<1> DEFINE n == Count(call, Scrolling)
           m == Count(call', Scrolling)
<1>1. /\ n \in Nat /\ m \in Nat /\ n <= N /\ m <= N
      /\ c.pc \in Scrolling => 1 <= m
  <2>1. call'[t] = c
    BY DEF Inv, CallOK
  <2> QED  BY <2>1, CountBounds
<1>2. /\ c.pc \in Scrolling /\ call[t].pc \notin Scrolling => m = n + 1
      /\ (c.pc \in Scrolling <=> call[t].pc \in Scrolling) => m = n
  <2>1. DOMAIN call = Thread
    BY DEF Inv, CallOK
  <2>2. c.pc \in Scrolling /\ call[t].pc \notin Scrolling => m = n + 1
    BY <2>1, CountMoves, Zenon
  <2>3. (c.pc \in Scrolling <=> call[t].pc \in Scrolling) => m = n
    BY <2>1, CountMoves, Zenon
  <2> QED  BY <2>2, <2>3
<1> HIDE DEF n, m
<1>3. /\ Lost \in Nat /\ Slack = N + Lost /\ N \in Nat /\ 1 <= N
      /\ torn' = torn => Lost' = Lost
      /\ torn' = torn + 1 => Lost' = Lost + N - 1
  BY LostGrows, Threads DEF Bounds
<1>4. cursorY \in Int /\ VGA_HEIGHT \in Nat /\ cursorY <= VGA_HEIGHT - 2 + n + Lost
  BY Threads DEF Inv, CursorOK, Bounds, YBound, n
<1>5. cursorY' <= VGA_HEIGHT - 2 + m + Lost'
  BY <1>1, <1>2, <1>3, <1>4
<1> QED  BY <1>5 DEF m

\* The row, upwards.
LEMMA YUp ==
  ASSUME Inv, Bounds, NEW t \in Thread, NEW c,
         call' = [call EXCEPT ![t] = c], torn' = torn \/ torn' = torn + 1, cursorY' \in Int,
         \/ cursorY' >= VGA_HEIGHT - 2
         \/ cursorY' = cursorY /\ (c.pc \in Falling => call[t].pc \in Falling)
         \/ cursorY' = cursorY + 1 /\ c.pc \notin Falling
         \/ cursorY' = cursorY - 1 /\ call[t].pc \in Falling /\ c.pc \notin Falling
         \/ torn' = torn + 1 /\ cursorY' >= - Lost /\ c.pc \notin Falling
  PROVE  cursorY' >= Count(call', Falling) - Lost'
<1> DEFINE n == Count(call, Falling)
           m == Count(call', Falling)
<1>1. /\ n \in Nat /\ m \in Nat /\ n <= N /\ m <= N
      /\ c.pc \notin Falling => m <= N - 1
  <2>1. call'[t] = c
    BY DEF Inv, CallOK
  <2> QED  BY <2>1, CountBounds
<1>2. /\ c.pc \notin Falling /\ call[t].pc \in Falling => m = n - 1
      /\ (c.pc \in Falling <=> call[t].pc \in Falling) => m = n
  <2>1. DOMAIN call = Thread
    BY DEF Inv, CallOK
  <2>2. c.pc \notin Falling /\ call[t].pc \in Falling => m = n - 1
    BY <2>1, CountMoves, Zenon
  <2>3. (c.pc \in Falling <=> call[t].pc \in Falling) => m = n
    BY <2>1, CountMoves, Zenon
  <2> QED  BY <2>2, <2>3
<1> HIDE DEF n, m
<1>3. /\ Lost \in Nat /\ N \in Nat /\ 1 <= N /\ N <= VGA_HEIGHT - 2
      /\ torn' = torn => Lost' = Lost
      /\ torn' = torn + 1 => Lost' = Lost + N - 1
  BY LostGrows, Threads DEF Bounds
<1>4. cursorY \in Int /\ VGA_HEIGHT \in Nat /\ cursorY >= n - Lost
  BY Threads DEF Inv, CursorOK, Bounds, YBound, n
<1>5. cursorY' >= m - Lost'
  BY <1>1, <1>2, <1>3, <1>4
<1> QED  BY <1>5 DEF m

\* A thread that is not on its way over an edge finds the cursor this near.
LEMMA CursorNear ==
  ASSUME Inv, Bounds
  PROVE  /\ cursorX \in 0 .. VGA_WIDTH - 1 + Slack
         /\ cursorY \in - Lost .. VGA_HEIGHT - 2 + Slack
         /\ \A t \in Thread : /\ call[t].pc \notin Wrapping => cursorX + 1 <= VGA_WIDTH - 1 + Slack
                              /\ call[t].pc \notin Scrolling => cursorY + 1 <= VGA_HEIGHT - 2 + Slack
                              /\ call[t].pc \in Falling => cursorY - 1 >= - Lost
<1> DEFINE x == Count(call, Wrapping)
           y == Count(call, Scrolling)
           z == Count(call, Falling)
<1>1. /\ x \in Nat /\ x <= N /\ \A t \in Thread : call[t].pc \notin Wrapping => x <= N - 1
      /\ y \in Nat /\ y <= N /\ \A t \in Thread : call[t].pc \notin Scrolling => y <= N - 1
      /\ z \in Nat /\ \A t \in Thread : call[t].pc \in Falling => 1 <= z
  BY CountBounds
<1>2. /\ cursorX \in Nat /\ cursorY \in Int
      /\ cursorX <= VGA_WIDTH - 1 + x + Lost
      /\ cursorY <= VGA_HEIGHT - 2 + y + Lost
      /\ cursorY >= z - Lost
  BY DEF Inv, CursorOK, Bounds, XBound, YBound
<1> HIDE DEF x, y, z
<1>3. N \in Nat /\ Lost \in Nat /\ Slack = N + Lost /\ VGA_WIDTH \in Nat /\ VGA_HEIGHT \in Nat
  BY LostGrows, Threads DEF Bounds
<1>4. /\ cursorX \in 0 .. VGA_WIDTH - 1 + Slack
      /\ cursorY \in - Lost .. VGA_HEIGHT - 2 + Slack
  BY <1>1, <1>2, <1>3
<1>5. ASSUME NEW t \in Thread
      PROVE  /\ call[t].pc \notin Wrapping => cursorX + 1 <= VGA_WIDTH - 1 + Slack
             /\ call[t].pc \notin Scrolling => cursorY + 1 <= VGA_HEIGHT - 2 + Slack
             /\ call[t].pc \in Falling => cursorY - 1 >= - Lost
  BY <1>1, <1>2, <1>3
<1> QED  BY <1>4, <1>5

\* All parts of a step of a thread.
LEMMA BoundsMove ==
  ASSUME Inv, Bounds, NEW t \in Thread, NEW c, Near(c, Slack, Lost), CursorOK',
         call' = [call EXCEPT ![t] = c], torn' = torn \/ torn' = torn + 1,
         \/ cursorX' < VGA_WIDTH
         \/ cursorX' = cursorX /\ (call[t].pc \in Wrapping => c.pc \in Wrapping)
         \/ cursorX' = cursorX + 1 /\ call[t].pc \notin Wrapping /\ c.pc \in Wrapping
         \/ torn' = torn + 1 /\ cursorX' <= VGA_WIDTH - 1 + Slack /\ c.pc \in Wrapping,
         \/ cursorY' < VGA_HEIGHT - 1
         \/ cursorY' = cursorY /\ (call[t].pc \in Scrolling => c.pc \in Scrolling)
         \/ cursorY' = cursorY + 1 /\ call[t].pc \notin Scrolling /\ c.pc \in Scrolling
         \/ cursorY' = cursorY - 1 /\ c.pc \in Scrolling
         \/ torn' = torn + 1 /\ cursorY' <= VGA_HEIGHT - 2 + Slack /\ c.pc \in Scrolling,
         \/ cursorY' >= VGA_HEIGHT - 2
         \/ cursorY' = cursorY /\ (c.pc \in Falling => call[t].pc \in Falling)
         \/ cursorY' = cursorY + 1 /\ c.pc \notin Falling
         \/ cursorY' = cursorY - 1 /\ call[t].pc \in Falling /\ c.pc \notin Falling
         \/ torn' = torn + 1 /\ cursorY' >= - Lost /\ c.pc \notin Falling
  PROVE  Bounds'
<1>1. cursorX' \in Nat /\ cursorY' \in Int
  BY DEF CursorOK
<1>2. torn \in Nat /\ torn' \in Nat /\ N \in Nat /\ 1 <= N
  BY Threads DEF Bounds
<1>3. /\ Lost \in Nat /\ Lost' \in Nat /\ Lost <= Lost'
      /\ Slack \in Nat /\ Slack' \in Nat /\ Slack <= Slack'
  BY <1>2, LostGrows
<1>4. Carried'
  <2>1. Near(c, Slack', Lost')
    BY <1>3, NearMore
  <2> QED  BY <2>1, CarriedStep
<1>5. XBound'
  BY <1>1, XStep
<1>6. cursorY' <= VGA_HEIGHT - 2 + Count(call', Scrolling) + Lost'
  BY <1>1, YDown
<1>7. cursorY' >= Count(call', Falling) - Lost'
  BY <1>1, YUp
<1>8. YBound'
  BY <1>6, <1>7 DEF YBound
<1> QED  BY <1>2, <1>4, <1>5, <1>8 DEF Bounds

LEMMA BoundsReading ==
  ASSUME Inv, Bounds, NEW t \in Thread, CursorOK',
         (\E ch \in Letters \cup {NL} : putchar(t, ch)) \/ get_y(t)
  PROVE  Bounds'
<1>1. ASSUME NEW ch \in Letters \cup {NL}, putchar(t, ch) PROVE Bounds'
  <2> DEFINE c == [pc |-> "get_y", ch |-> ch, x |-> cursorX, y |-> 0]
  <2>1. c.pc = "get_y" /\ Near(c, Slack, Lost)
    BY CursorNear DEF Near
  <2>2. /\ call' = [call EXCEPT ![t] = c] /\ call[t].pc = "idle"
        /\ torn' = torn /\ cursorX' = cursorX /\ cursorY' = cursorY
    BY <1>1 DEF putchar, At
  <2> HIDE DEF c
  <2> QED  BY <2>1, <2>2, BoundsMove DEF Wrapping, Scrolling, Falling
<1>2. ASSUME get_y(t) PROVE Bounds'
  <2> DEFINE c == IF call[t].ch = NL THEN Place("next_line")
                  ELSE [call[t] EXCEPT !.pc = "write", !.y = cursorY]
  <2>1. /\ call' = [call EXCEPT ![t] = c] /\ call[t].pc = "get_y"
        /\ torn' = torn /\ cursorX' = cursorX /\ cursorY' = cursorY
    BY <1>2 DEF get_y, At, Inv, CallOK
  <2>2. c.pc \in {"next_line", "write"} /\ Near(c, Slack, Lost)
    <3>1. CASE call[t].ch = NL
      BY <3>1 DEF Place, Near
    <3>2. CASE call[t].ch # NL
      <4>1. c = [call[t] EXCEPT !.pc = "write", !.y = cursorY]
        BY <3>2
      <4>2. call[t] \in Calls
        BY DEF Inv, CallOK, Sound
      <4>3. c.pc = "write" /\ c.y = cursorY /\ c.x = call[t].x
        BY <4>1, <4>2 DEF Calls
      <4> HIDE DEF c
      <4>4. call[t].x \in 0 .. VGA_WIDTH - 1 + Slack
        BY <2>1 DEF Bounds, Carried, Near
      <4> QED  BY <4>3, <4>4, CursorNear DEF Near
    <3> QED  BY <3>1, <3>2
  <2> HIDE DEF c
  <2> QED  BY <2>1, <2>2, BoundsMove DEF Wrapping, Scrolling, Falling
<1> QED  BY <1>1, <1>2

LEMMA BoundsLetter ==
  ASSUME Inv, Bounds, NEW t \in Thread, CursorOK',
         write(t) \/ inc_x(t) \/ store_x(t) \/ wrap(t)
  PROVE  Bounds'
<1>1. ASSUME write(t) PROVE Bounds'
  <2> DEFINE c == Place("inc_x")
  <2>1. c.pc = "inc_x" /\ Near(c, Slack, Lost)
    BY DEF Place, Near
  <2>2. /\ call' = [call EXCEPT ![t] = c] /\ call[t].pc = "write"
        /\ torn' = torn /\ cursorX' = cursorX /\ cursorY' = cursorY
    BY <1>1 DEF write, Goto, At
  <2> HIDE DEF c
  <2> QED  BY <2>1, <2>2, BoundsMove DEF Wrapping, Scrolling, Falling
<1>2. ASSUME inc_x(t) PROVE Bounds'
  <2> DEFINE c == [Place("store_x") EXCEPT !.x = cursorX + 1]
  <2>1. /\ call' = [call EXCEPT ![t] = c] /\ call[t].pc = "inc_x"
        /\ torn' = torn /\ cursorX' = cursorX /\ cursorY' = cursorY
    BY <1>2 DEF inc_x, Load, At
  <2>2. cursorX + 1 \in 0 .. VGA_WIDTH - 1 + Slack
    BY <2>1, CursorNear DEF Wrapping
  <2>3. c.pc = "store_x" /\ c.x = cursorX + 1
    BY DEF Place
  <2> HIDE DEF c
  <2>4. Near(c, Slack, Lost)
    BY <2>2, <2>3 DEF Near
  <2> QED  BY <2>1, <2>3, <2>4, BoundsMove DEF Wrapping, Scrolling, Falling
<1>3. ASSUME store_x(t) PROVE Bounds'
  <2> DEFINE c == Place("wrap")
  <2>1. c.pc = "wrap" /\ Near(c, Slack, Lost)
    BY DEF Place, Near
  <2>2. /\ call' = [call EXCEPT ![t] = c] /\ call[t].pc = "store_x"
        /\ cursorX' = call[t].x /\ cursorY' = cursorY
    BY <1>3 DEF store_x, Goto, At
  <2>3. (torn' = torn /\ cursorX' = cursorX + 1) \/ torn' = torn + 1
    BY <1>3, <2>2, StoreCases DEF store_x, Bounds
  <2>4. cursorX' <= VGA_WIDTH - 1 + Slack
    BY <2>2 DEF Bounds, Carried, Near
  <2> HIDE DEF c
  <2> QED  BY <2>1, <2>2, <2>3, <2>4, BoundsMove DEF Wrapping, Scrolling, Falling
<1>4. ASSUME wrap(t) PROVE Bounds'
  <2>1. /\ torn' = torn /\ cursorX' = cursorX /\ cursorY' = cursorY /\ call[t].pc = "wrap"
        /\ cursorX \in Nat /\ VGA_WIDTH \in Nat
    BY <1>4, Threads DEF wrap, At, Inv, CursorOK
  <2>2. CASE cursorX >= VGA_WIDTH
    <3> DEFINE c == Place("next_line")
    <3>1. c.pc = "next_line" /\ Near(c, Slack, Lost)
      BY DEF Place, Near
    <3>2. call' = [call EXCEPT ![t] = c]
      BY <1>4, <2>2 DEF wrap, Goto
    <3> HIDE DEF c
    <3> QED  BY <2>1, <3>1, <3>2, BoundsMove DEF Wrapping, Scrolling, Falling
  <2>3. CASE ~(cursorX >= VGA_WIDTH)
    <3> DEFINE c == Idle
    <3>1. c.pc = "idle" /\ Near(c, Slack, Lost)
      BY DEF Idle, Place, Near
    <3>2. call' = [call EXCEPT ![t] = c]
      BY <1>4, <2>3 DEF wrap, Return
    <3>3. cursorX' < VGA_WIDTH
      BY <2>1, <2>3
    <3> HIDE DEF c
    <3> QED  BY <2>1, <3>1, <3>2, <3>3, BoundsMove DEF Wrapping, Scrolling, Falling
  <2> QED  BY <2>2, <2>3
<1> QED  BY <1>1, <1>2, <1>3, <1>4

LEMMA BoundsNextLine ==
  ASSUME Inv, Bounds, NEW t \in Thread, CursorOK',
         vga_next_line(t) \/ inc_y(t) \/ store_y(t)
  PROVE  Bounds'
<1>1. ASSUME vga_next_line(t) PROVE Bounds'
  <2> DEFINE c == Place("inc_y")
  <2>1. c.pc = "inc_y" /\ Near(c, Slack, Lost)
    BY DEF Place, Near
  <2>2. /\ call' = [call EXCEPT ![t] = c] /\ call[t].pc = "next_line"
        /\ torn' = torn /\ cursorX' < VGA_WIDTH /\ cursorY' = cursorY
    BY <1>1, Threads DEF vga_next_line, Goto, At
  <2> HIDE DEF c
  <2> QED  BY <2>1, <2>2, BoundsMove DEF Scrolling, Falling
<1>2. ASSUME inc_y(t) PROVE Bounds'
  <2> DEFINE c == [Place("store_y") EXCEPT !.x = cursorY + 1]
  <2>1. /\ call' = [call EXCEPT ![t] = c] /\ call[t].pc = "inc_y"
        /\ torn' = torn /\ cursorX' = cursorX /\ cursorY' = cursorY
    BY <1>2 DEF inc_y, Load, At
  <2>2. cursorY + 1 \in - Lost .. VGA_HEIGHT - 2 + Slack
    <3>1. cursorY \in - Lost .. VGA_HEIGHT - 2 + Slack /\ cursorY + 1 <= VGA_HEIGHT - 2 + Slack
      BY <2>1, CursorNear DEF Scrolling
    <3>2. Lost \in Nat /\ cursorY \in Int
      BY LostGrows DEF Bounds, Inv, CursorOK
    <3> QED  BY <3>1, <3>2
  <2>3. c.pc = "store_y" /\ c.x = cursorY + 1
    BY DEF Place
  <2> HIDE DEF c
  <2>4. Near(c, Slack, Lost)
    BY <2>2, <2>3 DEF Near
  <2> QED  BY <2>1, <2>3, <2>4, BoundsMove DEF Wrapping, Scrolling, Falling
<1>3. ASSUME store_y(t) PROVE Bounds'
  <2> DEFINE c == Place("while")
  <2>1. c.pc = "while" /\ Near(c, Slack, Lost)
    BY DEF Place, Near
  <2>2. /\ call' = [call EXCEPT ![t] = c] /\ call[t].pc = "store_y"
        /\ cursorY' = call[t].x /\ cursorX' = cursorX
    BY <1>3 DEF store_y, Goto, At
  <2>3. (torn' = torn /\ cursorY' = cursorY + 1) \/ torn' = torn + 1
    BY <1>3, <2>2, StoreCases DEF store_y, Bounds
  <2>4. cursorY' <= VGA_HEIGHT - 2 + Slack /\ cursorY' >= - Lost
    BY <2>2 DEF Bounds, Carried, Near
  <2> HIDE DEF c
  <2> QED  BY <2>1, <2>2, <2>3, <2>4, BoundsMove DEF Wrapping, Scrolling, Falling
<1> QED  BY <1>1, <1>2, <1>3

LEMMA BoundsScroll ==
  ASSUME Inv, Bounds, NEW t \in Thread, CursorOK',
         \/ vga_check_if_scroll_needed(t) \/ vga_scroll_screen(t)
         \/ dec_y(t) \/ store_dec_y(t)
  PROVE  Bounds'
<1>1. ASSUME vga_check_if_scroll_needed(t) PROVE Bounds'
  <2>1. /\ torn' = torn /\ cursorX' = cursorX /\ cursorY' = cursorY /\ call[t].pc = "while"
        /\ cursorY \in Int /\ VGA_HEIGHT \in Nat
    BY <1>1, Threads DEF vga_check_if_scroll_needed, At, Inv, CursorOK
  <2>2. CASE cursorY >= VGA_HEIGHT - 1
    <3> DEFINE c == [Place("scroll") EXCEPT !.x = 0]
    <3>1. c.pc = "scroll" /\ Near(c, Slack, Lost)
      BY DEF Place, Near
    <3>2. call' = [call EXCEPT ![t] = c]
      BY <1>1, <2>2 DEF vga_check_if_scroll_needed, Load
    <3>3. cursorY' >= VGA_HEIGHT - 2
      BY <2>1, <2>2
    <3> HIDE DEF c
    <3> QED  BY <2>1, <3>1, <3>2, <3>3, BoundsMove DEF Wrapping, Scrolling
  <2>3. CASE ~(cursorY >= VGA_HEIGHT - 1)
    <3> DEFINE c == Idle
    <3>1. c.pc = "idle" /\ Near(c, Slack, Lost)
      BY DEF Idle, Place, Near
    <3>2. call' = [call EXCEPT ![t] = c]
      BY <1>1, <2>3 DEF vga_check_if_scroll_needed, Return
    <3>3. cursorY' < VGA_HEIGHT - 1
      BY <2>1, <2>3
    <3> HIDE DEF c
    <3> QED  BY <2>1, <3>1, <3>2, <3>3, BoundsMove DEF Wrapping, Falling
  <2> QED  BY <2>2, <2>3
<1>2. ASSUME vga_scroll_screen(t) PROVE Bounds'
  <2> DEFINE c == IF call[t].x + 1 \in Rows THEN [call[t] EXCEPT !.x = call[t].x + 1]
                  ELSE Place("dec_y")
  <2>1. /\ call' = [call EXCEPT ![t] = c] /\ call[t].pc = "scroll"
        /\ torn' = torn /\ cursorX' = cursorX /\ cursorY' = cursorY
    BY <1>2 DEF vga_scroll_screen, At, Inv, CallOK
  <2>2. c.pc \in {"scroll", "dec_y"}
    <3>1. CASE call[t].x + 1 \in Rows
      BY <2>1, <3>1 DEF Inv, CallOK, Sound, Calls
    <3>2. CASE call[t].x + 1 \notin Rows
      BY <3>2 DEF Place
    <3> QED  BY <3>1, <3>2
  <2> HIDE DEF c
  <2>3. Near(c, Slack, Lost)
    BY <2>2 DEF Near
  <2> QED  BY <2>1, <2>2, <2>3, BoundsMove DEF Wrapping, Scrolling, Falling
<1>3. ASSUME dec_y(t) PROVE Bounds'
  <2> DEFINE c == [Place("store_dec_y") EXCEPT !.x = cursorY - 1]
  <2>1. /\ call' = [call EXCEPT ![t] = c] /\ call[t].pc = "dec_y"
        /\ torn' = torn /\ cursorX' = cursorX /\ cursorY' = cursorY
    BY <1>3 DEF dec_y, Load, At
  <2>2. cursorY - 1 \in - Lost .. VGA_HEIGHT - 2 + Slack
    <3>1. cursorY \in - Lost .. VGA_HEIGHT - 2 + Slack /\ cursorY - 1 >= - Lost
      BY <2>1, CursorNear DEF Falling
    <3>2. Lost \in Int /\ Slack \in Int /\ VGA_HEIGHT \in Int /\ cursorY \in Int
      BY LostGrows, Threads DEF Bounds, Inv, CursorOK
    <3> QED  BY <3>1, <3>2
  <2>3. c.pc = "store_dec_y" /\ c.x = cursorY - 1
    BY DEF Place
  <2> HIDE DEF c
  <2>4. Near(c, Slack, Lost)
    BY <2>2, <2>3 DEF Near
  <2> QED  BY <2>1, <2>3, <2>4, BoundsMove DEF Wrapping, Scrolling, Falling
<1>4. ASSUME store_dec_y(t) PROVE Bounds'
  <2> DEFINE c == Place("while")
  <2>1. c.pc = "while" /\ Near(c, Slack, Lost)
    BY DEF Place, Near
  <2>2. /\ call' = [call EXCEPT ![t] = c] /\ call[t].pc = "store_dec_y"
        /\ cursorY' = call[t].x /\ cursorX' = cursorX
    BY <1>4 DEF store_dec_y, Goto, At
  <2>3. (torn' = torn /\ cursorY' = cursorY - 1) \/ torn' = torn + 1
    <3>1. call[t].x \in Int /\ cursorY \in Int
      BY DEF Inv, CallOK, Sound, Calls, CursorOK
    <3>2. (torn' = torn /\ call[t].x = cursorY + -1) \/ torn' = torn + 1
      BY <1>4, StoreCases DEF store_dec_y, Bounds
    <3> QED  BY <2>2, <3>1, <3>2
  <2>4. cursorY' <= VGA_HEIGHT - 2 + Slack /\ cursorY' >= - Lost
    BY <2>2 DEF Bounds, Carried, Near
  <2> HIDE DEF c
  <2> QED  BY <2>1, <2>2, <2>3, <2>4, BoundsMove DEF Wrapping, Scrolling, Falling
<1> QED  BY <1>1, <1>2, <1>3, <1>4

LEMMA BoundsHandler ==
  ASSUME Inv, Bounds, CursorOK',
         (\E ch \in Letters \cup {NL} : keyboard(ch)) \/ keyboard_erase
  PROVE  Bounds'
<1>1. call' = call /\ torn' = torn
  BY DEF keyboard, keyboard_erase
<1>2. Lost' = Lost /\ Slack' = Slack /\ Lost \in Nat /\ N \in Nat /\ N <= VGA_HEIGHT - 2
  BY <1>1, LostGrows, Threads DEF Bounds
<1>3. /\ cursorX' < VGA_WIDTH \/ cursorX' <= cursorX
      /\ cursorY' \in {cursorY, cursorY + 1, VGA_HEIGHT - 2}
      /\ cursorY' = cursorY \/ cursorY' < VGA_HEIGHT - 1
  <2>1. ASSUME NEW ch \in Letters \cup {NL}, keyboard(ch)
        PROVE  /\ cursorX' < VGA_WIDTH
               /\ cursorY' \in {cursorY, cursorY + 1, VGA_HEIGHT - 2}
               /\ cursorY' = cursorY \/ cursorY' < VGA_HEIGHT - 1
    <3> DEFINE w == IF ch = NL THEN NewLine(Now) ELSE Letter(Now, ch)
    <3>1. Now \in [screen : [Cells -> Letters \cup {SPACE, BLANK}], x : Nat, y : Int]
      BY DEF Now, Inv, ScreenOK, CursorOK
    <3>2. w.x < VGA_WIDTH /\ (w.y = cursorY \/ w.y < VGA_HEIGHT - 1)
      <4>1. CASE ch = NL
        BY <4>1, <3>1, NewLineResult, Threads
      <4>2. CASE ch # NL
        BY <4>2, <3>1, LetterResult DEF Now
      <4> QED  BY <4>1, <4>2
    <3>3. w.y \in {cursorY, cursorY + 1, VGA_HEIGHT - 2}
      <4>1. ASSUME NEW s, s.y = cursorY
            PROVE  NewLine(s).y \in {cursorY + 1, VGA_HEIGHT - 2}
        <5>1. cursorY \in Int /\ VGA_HEIGHT \in Nat
          BY Threads DEF Inv, CursorOK
        <5>2. NewLine(s).y = IF cursorY + 1 >= VGA_HEIGHT - 1
                             THEN cursorY + 1 - (cursorY + 2 - (VGA_HEIGHT - 1))
                             ELSE cursorY + 1 - 0
          BY <4>1 DEF NewLine
        <5> QED  BY <5>1, <5>2
      <4>2. CASE ch = NL
        BY <4>1, <4>2 DEF Now
      <4>3. CASE ch # NL
        BY <4>1, <4>3 DEF Now, Letter
      <4> QED  BY <4>2, <4>3
    <3>4. cursorX' = w.x /\ cursorY' = w.y
      BY <2>1 DEF keyboard, Now
    <3> HIDE DEF w
    <3> QED  BY <3>2, <3>3, <3>4
  <2>2. ASSUME keyboard_erase
        PROVE  cursorX' <= cursorX /\ cursorY' = cursorY
    BY <2>2 DEF keyboard_erase, Left, Inv, CursorOK
  <2> QED  BY <2>1, <2>2
<1> DEFINE x == Count(call, Wrapping)
           y == Count(call, Scrolling)
           z == Count(call, Falling)
<1>4. x \in Nat /\ y \in Nat /\ z \in Nat /\ z <= N
  BY CountBounds
<1>5. /\ cursorX \in Nat /\ cursorY \in Int /\ cursorX' \in Nat /\ cursorY' \in Int
      /\ VGA_WIDTH \in Nat /\ VGA_HEIGHT \in Nat
      /\ cursorX <= VGA_WIDTH - 1 + x + Lost
      /\ cursorY <= VGA_HEIGHT - 2 + y + Lost
      /\ cursorY >= z - Lost
  BY Threads DEF Inv, CursorOK, Bounds, XBound, YBound
<1>6. /\ XBound' <=> cursorX' <= VGA_WIDTH - 1 + x + Lost
      /\ YBound' <=> cursorY' <= VGA_HEIGHT - 2 + y + Lost /\ cursorY' >= z - Lost
  BY <1>1, <1>2 DEF XBound, YBound
<1> HIDE DEF x, y, z
<1>7. cursorX' <= VGA_WIDTH - 1 + x + Lost
  BY <1>2, <1>3, <1>4, <1>5
<1>8. cursorY' <= VGA_HEIGHT - 2 + y + Lost
  BY <1>2, <1>3, <1>4, <1>5
<1>9. cursorY' >= z - Lost
  BY <1>2, <1>3, <1>4, <1>5
<1>10. Carried'
  BY <1>1, <1>2 DEF Bounds, Carried
<1> QED  BY <1>1, <1>6, <1>7, <1>8, <1>9, <1>10 DEF Bounds

LEMMA BoundsInit == Init => Bounds
<1> SUFFICES ASSUME Init PROVE Bounds
  OBVIOUS
<1>1. /\ torn = 0 /\ cursorX = 0 /\ cursorY = 0
      /\ \A t \in Thread : call[t].pc = "idle"
  BY DEF Init, Idle, Place
<1>2. Lost \in Nat /\ VGA_WIDTH \in Nat /\ 0 < VGA_WIDTH /\ VGA_HEIGHT \in Nat /\ 1 < VGA_HEIGHT
  BY <1>1, LostGrows, ConsoleAssumption
<1>3. /\ Count(call, Wrapping) \in Nat /\ Count(call, Scrolling) \in Nat
  BY CountBounds
<1>4. Count(call, Falling) = 0
  <2>1. {t \in Thread : call[t].pc \in Falling} = {}
    BY <1>1 DEF Falling
  <2> QED  BY <2>1, FS_EmptySet DEF Count
<1>5. XBound /\ YBound
  BY <1>1, <1>2, <1>3, <1>4 DEF XBound, YBound
<1>6. Carried
  BY <1>1 DEF Carried, Near
<1> QED  BY <1>1, <1>5, <1>6 DEF Bounds

LEMMA BoundsNext == Inv /\ Bounds /\ [Next]_vars => Bounds'
<1> SUFFICES ASSUME Inv, Bounds, [Next]_vars PROVE Bounds'
  OBVIOUS
<1>1. CursorOK'
  BY InvNext DEF Inv
<1>2. ASSUME NEW t \in Thread, Step(t) PROVE Bounds'
  BY <1>1, <1>2, BoundsReading, BoundsLetter, BoundsNextLine, BoundsScroll DEF Step
<1>3. CASE (\E ch \in Letters \cup {NL} : keyboard(ch)) \/ keyboard_erase
  BY <1>1, <1>3, BoundsHandler
<1>4. CASE UNCHANGED vars
  BY <1>4 DEF vars, Bounds, XBound, YBound, Carried, Slack, Lost
<1> QED  BY <1>2, <1>3, <1>4 DEF Next

\* A cell in a near row and a near column is a near cell.
LEMMA CellNearby ==
  ASSUME NEW x \in 0 .. VGA_WIDTH - 1 + Slack, NEW y \in - Lost .. VGA_HEIGHT - 2 + Slack,
         Lost \in Nat, Slack \in Nat
  PROVE  y * VGA_WIDTH + x \in Nearby
<1>1. /\ VGA_WIDTH \in Nat /\ VGA_HEIGHT \in Nat /\ y \in Int /\ x \in Nat
      /\ - Lost \in Int /\ - Lost <= y /\ y <= VGA_HEIGHT - 2 + Slack
      /\ x <= VGA_WIDTH - 1 + Slack
  BY Threads
<1> DEFINE h == VGA_HEIGHT - 1 + Slack
<1>2. h \in Int /\ y + 1 <= h
  BY <1>1
<1>3. ASSUME NEW a \in Int, NEW b \in Int, a <= b
      PROVE  a * VGA_WIDTH <= b * VGA_WIDTH
  <2>1. VGA_WIDTH \in Nat /\ b - a \in Nat
    BY <1>1, <1>3
  <2>2. (b - a) * VGA_WIDTH \in Nat /\ (b - a) * VGA_WIDTH = b * VGA_WIDTH - a * VGA_WIDTH
    BY <2>1
  <2> QED  BY <2>1, <2>2
<1>4. - Lost * VGA_WIDTH <= y * VGA_WIDTH
  BY <1>1, <1>3
<1>5. (y + 1) * VGA_WIDTH <= h * VGA_WIDTH /\ (y + 1) * VGA_WIDTH = y * VGA_WIDTH + VGA_WIDTH
  <2> HIDE DEF h
  <2> QED  BY <1>1, <1>2, <1>3
<1> DEFINE p == y * VGA_WIDTH
           q == h * VGA_WIDTH
           r == - Lost * VGA_WIDTH
<1>6. p \in Int /\ q \in Int /\ r \in Int /\ r <= p /\ p + VGA_WIDTH <= q
  <2> HIDE DEF h
  <2> QED  BY <1>1, <1>2, <1>4, <1>5
<1>7. Nearby = r .. q - 1 + Slack
  BY DEF Nearby
<1> HIDE DEF p, q, r, h
<1>8. p + x \in r .. q - 1 + Slack
  BY <1>1, <1>6
<1> QED  BY <1>7, <1>8 DEF p

LEMMA WrittenNearby == Inv /\ Bounds => Written \subseteq Nearby
<1> SUFFICES ASSUME Inv, Bounds PROVE Written \subseteq Nearby
  OBVIOUS
<1>1. Lost \in Nat /\ Slack \in Nat
  BY LostGrows, Threads DEF Bounds
<1>2. ASSUME NEW t \in Thread, At(t, "write")
      PROVE  Target(t) \in Nearby
  <2>1. call[t].x \in 0 .. VGA_WIDTH - 1 + Slack /\ call[t].y \in - Lost .. VGA_HEIGHT - 2 + Slack
    BY <1>2 DEF At, Bounds, Carried, Near
  <2> QED  BY <1>1, <2>1, CellNearby DEF Target
<1>3. ErasedCell \in Nearby
  <2>1. /\ cursorX \in 0 .. VGA_WIDTH - 1 + Slack
        /\ cursorY \in - Lost .. VGA_HEIGHT - 2 + Slack
    BY CursorNear
  <2>2. Left(cursorX) \in 0 .. VGA_WIDTH - 1 + Slack
    BY <1>1, <2>1, Threads DEF Left
  <2> QED  BY <1>1, <2>1, <2>2, CellNearby DEF ErasedCell
<1> QED  BY <1>2, <1>3 DEF Written

----------------------------------------------------------------------------
(***************************************************************************)
(* As long as no two prints have overlapped: one thread at a time is in    *)
(* putchar, the cursor is where that thread takes it to be, and the last   *)
(* row of the screen, which the scrolling clears, holds no letter.         *)
(***************************************************************************)
LastRow == (VGA_HEIGHT - 1) * VGA_WIDTH

RowFree(s) == \A k \in 0 .. VGA_WIDTH - 1 : s[LastRow + k] \notin Letters

OnPage(x, y) == x \in 0 .. VGA_WIDTH - 1 /\ y \in 0 .. VGA_HEIGHT - 2

\* Where the cursor is while a thread at c prints.
Working(c, x, y) ==
  /\ c.pc \in {"get_y", "write", "inc_x", "store_x"} => OnPage(x, y)
  /\ c.pc \in {"get_y", "write"} => c.x = x
  /\ c.pc = "write" => c.y = y
  /\ c.pc = "store_x" => c.x = x + 1
  /\ c.pc \in Wrapping => x \in 0 .. VGA_WIDTH /\ y \in 0 .. VGA_HEIGHT - 2
  /\ c.pc \in {"inc_y", "store_y"} => x = 0 /\ y \in 0 .. VGA_HEIGHT - 2
  /\ c.pc = "store_y" => c.x = y + 1
  /\ c.pc = "while" => x = 0 /\ y \in Rows
  /\ c.pc \in Falling => x = 0 /\ y = VGA_HEIGHT - 1
  /\ c.pc = "store_dec_y" => c.x = VGA_HEIGHT - 2

Alone ==
  /\ \A t, u \in Thread : call[t].pc # "idle" /\ call[u].pc # "idle" => t = u
  /\ (\A t \in Thread : call[t].pc = "idle") => OnPage(cursorX, cursorY)
  /\ \A t \in Thread : Working(call[t], cursorX, cursorY)
  /\ RowFree(screen)

Solo ==
  /\ \A t \in Thread : call[t].pc = "idle" => call[t] = Idle
  /\ ~overlap => Alone

LEMMA Area ==
  /\ LastRow \in Nat /\ Cells = 0 .. LastRow + VGA_WIDTH - 1
  /\ \A y \in 0 .. VGA_HEIGHT - 2 : y * VGA_WIDTH \in Nat /\ y * VGA_WIDTH + VGA_WIDTH <= LastRow
<1>1. VGA_WIDTH \in Nat /\ VGA_HEIGHT \in Nat /\ 1 < VGA_HEIGHT
  BY ConsoleAssumption
<1>2. LastRow \in Nat /\ VGA_WIDTH * VGA_HEIGHT = LastRow + VGA_WIDTH
  BY <1>1 DEF LastRow
<1>3. ASSUME NEW y \in 0 .. VGA_HEIGHT - 2
      PROVE  y * VGA_WIDTH \in Nat /\ y * VGA_WIDTH + VGA_WIDTH <= LastRow
  <2> DEFINE d == VGA_HEIGHT - 2 - y
  <2>1. y \in Nat /\ d \in Nat /\ VGA_HEIGHT - 1 = y + 1 + d
    BY <1>1
  <2> HIDE DEF d
  <2>2. /\ (y + 1 + d) * VGA_WIDTH = y * VGA_WIDTH + VGA_WIDTH + d * VGA_WIDTH
        /\ d * VGA_WIDTH \in Nat /\ y * VGA_WIDTH \in Nat
    BY <1>1, <2>1
  <2>3. LastRow = (y + 1 + d) * VGA_WIDTH
    BY <2>1 DEF LastRow
  <2> DEFINE a == y * VGA_WIDTH
             b == d * VGA_WIDTH
             e == (y + 1 + d) * VGA_WIDTH
  <2>4. a \in Nat /\ b \in Nat /\ e = a + VGA_WIDTH + b /\ LastRow = e
    BY <2>2, <2>3
  <2> HIDE DEF a, b, e
  <2>5. a + VGA_WIDTH <= LastRow
    BY <1>1, <2>4
  <2> QED  BY <2>2, <2>5 DEF a
<1>4. Cells = 0 .. LastRow + VGA_WIDTH - 1
  <2> DEFINE p == VGA_WIDTH * VGA_HEIGHT
  <2>1. Cells = 0 .. p - 1 /\ p = LastRow + VGA_WIDTH
    BY <1>2 DEF Cells
  <2> HIDE DEF p
  <2>2. p - 1 = LastRow + VGA_WIDTH - 1
    BY <1>1, <1>2, <2>1
  <2> QED  BY <2>1, <2>2
<1> QED  BY <1>2, <1>3, <1>4

\* A place on the page is a cell, but not one of the last row.
LEMMA AboveLast ==
  ASSUME NEW x, NEW y, OnPage(x, y)
  PROVE  /\ y * VGA_WIDTH + x \in Cells
         /\ \A k \in 0 .. VGA_WIDTH - 1 : y * VGA_WIDTH + x # LastRow + k
<1> DEFINE a == y * VGA_WIDTH
<1>1. /\ a \in Nat /\ a + VGA_WIDTH <= LastRow /\ LastRow \in Nat /\ VGA_WIDTH \in Nat
      /\ x \in Nat /\ x < VGA_WIDTH
  BY Area, Threads DEF OnPage
<1> HIDE DEF a
<1>2. /\ a + x \in 0 .. LastRow + VGA_WIDTH - 1
      /\ \A k \in 0 .. VGA_WIDTH - 1 : a + x # LastRow + k
  BY <1>1
<1> QED  BY <1>2, Area DEF a

\* A letter on the page leaves the last row as it is.
LEMMA LetterAbove ==
  ASSUME NEW s \in [Cells -> Letters \cup {SPACE, BLANK}], RowFree(s), NEW ch,
         NEW x, NEW y, OnPage(x, y)
  PROVE  RowFree([s EXCEPT ![y * VGA_WIDTH + x] = ch])
<1> DEFINE at == y * VGA_WIDTH + x
<1>1. \A k \in 0 .. VGA_WIDTH - 1 : at # LastRow + k
  BY AboveLast
<1> HIDE DEF at
<1>2. \A k \in 0 .. VGA_WIDTH - 1 : [s EXCEPT ![at] = ch][LastRow + k] = s[LastRow + k]
  <2>1. \A k \in 0 .. VGA_WIDTH - 1 : LastRow + k \in Cells
    BY Area, Threads
  <2> QED  BY <1>1, <2>1
<1> QED  BY <1>2 DEF RowFree, at

LEMMA LastOut ==
  ASSUME NEW k \in 0 .. VGA_WIDTH - 1
  PROVE  LastRow + k \in Cells /\ LastRow + k + VGA_WIDTH \notin Cells
BY Area, Threads

LEMMA BlankIsNone == BLANK \notin Letters /\ SPACE \notin Letters
BY ConsoleAssumption

\* The scrolling, row by row or at once, brings no letter to the last row.
LEMMA MovedFree ==
  ASSUME NEW s, RowFree(s), NEW r
  PROVE  RowFree(Moved(s, r))
<1> SUFFICES ASSUME NEW k \in 0 .. VGA_WIDTH - 1
             PROVE  Moved(s, r)[LastRow + k] \notin Letters
  BY DEF RowFree
<1> DEFINE at == LastRow + k
<1>1. at \in Cells /\ at + VGA_WIDTH \notin Cells /\ s[at] \notin Letters
  BY LastOut DEF RowFree
<1> HIDE DEF at
<1>2. Moved(s, r)[at] \in {s[at], BLANK}
  BY <1>1 DEF Moved
<1> QED  BY <1>1, <1>2, BlankIsNone DEF at

LEMMA ScrolledFree ==
  ASSUME NEW s, RowFree(s), NEW n \in {0, 1}
  PROVE  RowFree(Scrolled(s, n))
<1> SUFFICES ASSUME NEW k \in 0 .. VGA_WIDTH - 1
             PROVE  Scrolled(s, n)[LastRow + k] \notin Letters
  BY DEF RowFree
<1> DEFINE at == LastRow + k
<1>1. at \in Cells /\ at + VGA_WIDTH \notin Cells /\ s[at] \notin Letters
  BY LastOut DEF RowFree
<1>2. at \in Nat /\ VGA_WIDTH \in Nat
  BY Area, Threads
<1> HIDE DEF at
<1>3. at + 0 * VGA_WIDTH = at /\ at + 1 * VGA_WIDTH = at + VGA_WIDTH
  BY <1>2
<1>4. Scrolled(s, n)[at] \in {s[at], BLANK}
  BY <1>1, <1>3 DEF Scrolled
<1> QED  BY <1>1, <1>4, BlankIsNone DEF at

\* A step of the only thread in putchar.
LEMMA SoloMove ==
  ASSUME Inv, Solo, NEW t \in Thread, NEW c, call' = [call EXCEPT ![t] = c],
         overlap' = overlap, call[t].pc # "idle", c.pc = "idle" => c = Idle,
         ~overlap => /\ Working(c, cursorX', cursorY')
                     /\ c.pc = "idle" => OnPage(cursorX', cursorY')
                     /\ RowFree(screen')
  PROVE  Solo'
<1>1. \A u \in Thread : call'[u] = IF u = t THEN c ELSE call[u]
  BY DEF Inv, CallOK
<1>2. \A u \in Thread : call'[u].pc = "idle" => call'[u] = Idle
  BY <1>1 DEF Solo
<1>3. ASSUME ~overlap PROVE Alone'
  <2>1. \A u \in Thread : u # t => call'[u].pc = "idle"
    BY <1>1, <1>3 DEF Solo, Alone
  <2>2. \A u \in Thread : call'[u].pc = "idle" => Working(call'[u], cursorX', cursorY')
    BY DEF Working, Wrapping, Falling
  <2>3. \A u \in Thread : Working(call'[u], cursorX', cursorY')
    BY <1>1, <1>3, <2>1, <2>2
  <2>4. (\A u \in Thread : call'[u].pc = "idle") => OnPage(cursorX', cursorY')
    BY <1>1, <1>3
  <2>5. \A u, v \in Thread : call'[u].pc # "idle" /\ call'[v].pc # "idle" => u = v
    BY <2>1
  <2>6. RowFree(screen')
    BY <1>3
  <2> QED  BY <2>3, <2>4, <2>5, <2>6 DEF Alone
<1> QED  BY <1>2, <1>3 DEF Solo

LEMMA SoloPutchar ==
  ASSUME Inv, Solo, NEW t \in Thread, NEW ch \in Letters \cup {NL}, putchar(t, ch)
  PROVE  Solo'
<1> DEFINE c == [pc |-> "get_y", ch |-> ch, x |-> cursorX, y |-> 0]
<1>1. /\ call' = [call EXCEPT ![t] = c] /\ call[t].pc = "idle"
      /\ screen' = screen /\ cursorX' = cursorX /\ cursorY' = cursorY
  BY DEF putchar, At
<1>2. ~overlap' => ~overlap /\ Busy = {}
  BY DEF putchar
<1>3. c.pc = "get_y" /\ c.x = cursorX
  OBVIOUS
<1> HIDE DEF c
<1>4. \A u \in Thread : call'[u] = IF u = t THEN c ELSE call[u]
  BY <1>1 DEF Inv, CallOK
<1>5. \A u \in Thread : call'[u].pc = "idle" => call'[u] = Idle
  BY <1>3, <1>4 DEF Solo
<1>6. ASSUME ~overlap' PROVE Alone'
  <2>1. \A u \in Thread : call[u].pc = "idle"
    BY <1>2, <1>6 DEF Busy, Idle, Place
  <2>2. OnPage(cursorX, cursorY) /\ RowFree(screen)
    BY <1>2, <1>6, <2>1 DEF Solo, Alone
  <2>3. \A u \in Thread : u # t => call'[u].pc = "idle"
    BY <1>4, <2>1
  <2>4. \A u \in Thread : call'[u].pc = "idle" => Working(call'[u], cursorX', cursorY')
    BY DEF Working, Wrapping, Falling
  <2>5. Working(c, cursorX', cursorY')
    BY <1>1, <1>3, <2>2 DEF Working, Wrapping, Falling
  <2>6. \A u \in Thread : Working(call'[u], cursorX', cursorY')
    BY <1>4, <2>3, <2>4, <2>5
  <2>7. \A u, v \in Thread : call'[u].pc # "idle" /\ call'[v].pc # "idle" => u = v
    BY <2>3
  <2>8. ~ \A u \in Thread : call'[u].pc = "idle"
    BY <1>3, <1>4
  <2>9. RowFree(screen')
    BY <1>1, <2>2
  <2> QED  BY <2>6, <2>7, <2>8, <2>9 DEF Alone
<1> QED  BY <1>5, <1>6 DEF Solo

LEMMA SoloLetter ==
  ASSUME Inv, Solo, NEW t \in Thread,
         get_y(t) \/ write(t) \/ inc_x(t) \/ store_x(t) \/ wrap(t)
  PROVE  Solo'
<1>0. /\ ~overlap => Working(call[t], cursorX, cursorY) /\ RowFree(screen)
      /\ VGA_WIDTH \in Nat /\ VGA_HEIGHT \in Nat /\ 0 < VGA_WIDTH /\ 1 < VGA_HEIGHT
  BY ConsoleAssumption DEF Solo, Alone
<1>1. ASSUME get_y(t) PROVE Solo'
  <2> DEFINE c == IF call[t].ch = NL THEN Place("next_line")
                  ELSE [call[t] EXCEPT !.pc = "write", !.y = cursorY]
  <2>1. /\ call' = [call EXCEPT ![t] = c] /\ call[t].pc = "get_y" /\ overlap' = overlap
        /\ screen' = screen /\ cursorX' = cursorX /\ cursorY' = cursorY
    BY <1>1 DEF get_y, At, Inv, CallOK
  <2>2. \/ c.pc = "next_line"
        \/ c.pc = "write" /\ c.x = call[t].x /\ c.y = cursorY
    <3>1. call[t] \in Calls
      BY DEF Inv, CallOK, Sound
    <3> QED  BY <3>1 DEF Place, Calls
  <2> HIDE DEF c
  <2>3. ~overlap => Working(c, cursorX', cursorY')
    BY <1>0, <2>1, <2>2 DEF Working, OnPage, Wrapping, Falling
  <2> QED  BY <1>0, <2>1, <2>2, <2>3, SoloMove
<1>2. ASSUME write(t) PROVE Solo'
  <2> DEFINE c == Place("inc_x")
  <2>1. /\ call' = [call EXCEPT ![t] = c] /\ call[t].pc = "write" /\ overlap' = overlap
        /\ cursorX' = cursorX /\ cursorY' = cursorY
        /\ screen' = IF Target(t) \in Cells THEN [screen EXCEPT ![Target(t)] = call[t].ch]
                     ELSE screen
    BY <1>2 DEF write, Goto, At
  <2>2. c.pc = "inc_x"
    BY DEF Place
  <2> HIDE DEF c
  <2>3. ~overlap => Working(c, cursorX', cursorY')
    BY <1>0, <2>1, <2>2 DEF Working, OnPage, Wrapping, Falling
  <2>4. ASSUME ~overlap PROVE RowFree(screen')
    <3>1. OnPage(cursorX, cursorY) /\ Target(t) = cursorY * VGA_WIDTH + cursorX
      BY <1>0, <2>1, <2>4 DEF Working, Target
    <3>2. Target(t) \in Cells
      BY <3>1, AboveLast
    <3>3. screen \in [Cells -> Letters \cup {SPACE, BLANK}] /\ RowFree(screen)
      BY <1>0, <2>4 DEF Inv, ScreenOK
    <3>4. RowFree([screen EXCEPT ![cursorY * VGA_WIDTH + cursorX] = call[t].ch])
      BY <3>1, <3>3, LetterAbove
    <3> QED  BY <2>1, <3>1, <3>2, <3>4
  <2> QED  BY <2>1, <2>2, <2>3, <2>4, SoloMove
<1>3. ASSUME inc_x(t) PROVE Solo'
  <2> DEFINE c == [Place("store_x") EXCEPT !.x = cursorX + 1]
  <2>1. /\ call' = [call EXCEPT ![t] = c] /\ call[t].pc = "inc_x" /\ overlap' = overlap
        /\ screen' = screen /\ cursorX' = cursorX /\ cursorY' = cursorY
    BY <1>3 DEF inc_x, Load, At
  <2>2. c.pc = "store_x" /\ c.x = cursorX + 1
    BY DEF Place
  <2> HIDE DEF c
  <2>3. ~overlap => Working(c, cursorX', cursorY')
    BY <1>0, <2>1, <2>2 DEF Working, OnPage, Wrapping, Falling
  <2> QED  BY <1>0, <2>1, <2>2, <2>3, SoloMove
<1>4. ASSUME store_x(t) PROVE Solo'
  <2> DEFINE c == Place("wrap")
  <2>1. /\ call' = [call EXCEPT ![t] = c] /\ call[t].pc = "store_x" /\ overlap' = overlap
        /\ screen' = screen /\ cursorX' = call[t].x /\ cursorY' = cursorY
    BY <1>4 DEF store_x, Goto, At
  <2>2. c.pc = "wrap"
    BY DEF Place
  <2> HIDE DEF c
  <2>3. ASSUME ~overlap PROVE Working(c, cursorX', cursorY')
    <3>1. OnPage(cursorX, cursorY) /\ call[t].x = cursorX + 1
      BY <1>0, <2>1, <2>3 DEF Working
    <3>2. cursorX + 1 \in 0 .. VGA_WIDTH
      BY <1>0, <3>1 DEF OnPage
    <3> QED  BY <2>1, <2>2, <3>1, <3>2 DEF Working, OnPage, Wrapping, Falling
  <2> QED  BY <1>0, <2>1, <2>2, <2>3, SoloMove
<1>5. ASSUME wrap(t) PROVE Solo'
  <2>1. /\ call[t].pc = "wrap" /\ overlap' = overlap
        /\ screen' = screen /\ cursorX' = cursorX /\ cursorY' = cursorY
    BY <1>5 DEF wrap, Goto, Return, At
  <2>2. ~overlap => cursorX \in 0 .. VGA_WIDTH /\ cursorY \in 0 .. VGA_HEIGHT - 2
    BY <1>0, <2>1 DEF Working, Wrapping
  <2>3. CASE cursorX >= VGA_WIDTH
    <3> DEFINE c == Place("next_line")
    <3>1. c.pc = "next_line"
      BY DEF Place
    <3>2. call' = [call EXCEPT ![t] = c]
      BY <1>5, <2>3 DEF wrap, Goto
    <3> HIDE DEF c
    <3>3. ~overlap => Working(c, cursorX', cursorY')
      BY <2>1, <2>2, <3>1 DEF Working, Wrapping, Falling
    <3> QED  BY <1>0, <2>1, <3>1, <3>2, <3>3, SoloMove
  <2>4. CASE ~(cursorX >= VGA_WIDTH)
    <3> DEFINE c == Idle
    <3>1. c.pc = "idle" /\ c = Idle
      BY DEF Idle, Place
    <3>2. call' = [call EXCEPT ![t] = c]
      BY <1>5, <2>4 DEF wrap, Return
    <3> HIDE DEF c
    <3>3. ~overlap => Working(c, cursorX', cursorY')
      BY <3>1 DEF Working, Wrapping, Falling
    <3>4. ~overlap => OnPage(cursorX', cursorY')
      BY <1>0, <2>1, <2>2, <2>4 DEF OnPage
    <3> QED  BY <1>0, <2>1, <3>1, <3>2, <3>3, <3>4, SoloMove
  <2> QED  BY <2>3, <2>4
<1> QED  BY <1>1, <1>2, <1>3, <1>4, <1>5

LEMMA SoloNextLine ==
  ASSUME Inv, Solo, NEW t \in Thread,
         vga_next_line(t) \/ inc_y(t) \/ store_y(t)
  PROVE  Solo'
<1>0. /\ ~overlap => Working(call[t], cursorX, cursorY) /\ RowFree(screen)
      /\ VGA_WIDTH \in Nat /\ VGA_HEIGHT \in Nat /\ 0 < VGA_WIDTH /\ 1 < VGA_HEIGHT
  BY ConsoleAssumption DEF Solo, Alone
<1>1. ASSUME vga_next_line(t) PROVE Solo'
  <2> DEFINE c == Place("inc_y")
  <2>1. /\ call' = [call EXCEPT ![t] = c] /\ call[t].pc = "next_line" /\ overlap' = overlap
        /\ screen' = screen /\ cursorX' = 0 /\ cursorY' = cursorY
    BY <1>1 DEF vga_next_line, Goto, At
  <2>2. c.pc = "inc_y"
    BY DEF Place
  <2> HIDE DEF c
  <2>3. ~overlap => Working(c, cursorX', cursorY')
    BY <1>0, <2>1, <2>2 DEF Working, Wrapping, Falling
  <2> QED  BY <1>0, <2>1, <2>2, <2>3, SoloMove
<1>2. ASSUME inc_y(t) PROVE Solo'
  <2> DEFINE c == [Place("store_y") EXCEPT !.x = cursorY + 1]
  <2>1. /\ call' = [call EXCEPT ![t] = c] /\ call[t].pc = "inc_y" /\ overlap' = overlap
        /\ screen' = screen /\ cursorX' = cursorX /\ cursorY' = cursorY
    BY <1>2 DEF inc_y, Load, At
  <2>2. c.pc = "store_y" /\ c.x = cursorY + 1
    BY DEF Place
  <2> HIDE DEF c
  <2>3. ~overlap => Working(c, cursorX', cursorY')
    BY <1>0, <2>1, <2>2 DEF Working, Wrapping, Falling
  <2> QED  BY <1>0, <2>1, <2>2, <2>3, SoloMove
<1>3. ASSUME store_y(t) PROVE Solo'
  <2> DEFINE c == Place("while")
  <2>1. /\ call' = [call EXCEPT ![t] = c] /\ call[t].pc = "store_y" /\ overlap' = overlap
        /\ screen' = screen /\ cursorX' = cursorX /\ cursorY' = call[t].x
    BY <1>3 DEF store_y, Goto, At
  <2>2. c.pc = "while"
    BY DEF Place
  <2> HIDE DEF c
  <2>3. ASSUME ~overlap PROVE Working(c, cursorX', cursorY')
    <3>1. cursorX = 0 /\ cursorY \in 0 .. VGA_HEIGHT - 2 /\ call[t].x = cursorY + 1
      BY <1>0, <2>1, <2>3 DEF Working
    <3>2. cursorY + 1 \in Rows
      BY <1>0, <3>1 DEF Rows
    <3> QED  BY <2>1, <2>2, <3>1, <3>2 DEF Working, Wrapping, Falling
  <2> QED  BY <1>0, <2>1, <2>2, <2>3, SoloMove
<1> QED  BY <1>1, <1>2, <1>3

LEMMA SoloScroll ==
  ASSUME Inv, Solo, NEW t \in Thread,
         \/ vga_check_if_scroll_needed(t) \/ vga_scroll_screen(t)
         \/ dec_y(t) \/ store_dec_y(t)
  PROVE  Solo'
<1>0. /\ ~overlap => Working(call[t], cursorX, cursorY) /\ RowFree(screen)
      /\ VGA_WIDTH \in Nat /\ VGA_HEIGHT \in Nat /\ 0 < VGA_WIDTH /\ 1 < VGA_HEIGHT
  BY ConsoleAssumption DEF Solo, Alone
<1>1. ASSUME vga_check_if_scroll_needed(t) PROVE Solo'
  <2>1. /\ call[t].pc = "while" /\ overlap' = overlap
        /\ screen' = screen /\ cursorX' = cursorX /\ cursorY' = cursorY
    BY <1>1 DEF vga_check_if_scroll_needed, Load, Return, At
  <2>2. ~overlap => cursorX = 0 /\ cursorY \in 0 .. VGA_HEIGHT - 1
    BY <1>0, <2>1 DEF Working, Rows
  <2>3. CASE cursorY >= VGA_HEIGHT - 1
    <3> DEFINE c == [Place("scroll") EXCEPT !.x = 0]
    <3>1. c.pc = "scroll"
      BY DEF Place
    <3>2. call' = [call EXCEPT ![t] = c]
      BY <1>1, <2>3 DEF vga_check_if_scroll_needed, Load
    <3> HIDE DEF c
    <3>3. ~overlap => cursorY = VGA_HEIGHT - 1
      BY <1>0, <2>2, <2>3
    <3>4. ~overlap => Working(c, cursorX', cursorY')
      BY <2>1, <2>2, <3>1, <3>3 DEF Working, Wrapping, Falling
    <3> QED  BY <1>0, <2>1, <3>1, <3>2, <3>4, SoloMove
  <2>4. CASE ~(cursorY >= VGA_HEIGHT - 1)
    <3> DEFINE c == Idle
    <3>1. c.pc = "idle" /\ c = Idle
      BY DEF Idle, Place
    <3>2. call' = [call EXCEPT ![t] = c]
      BY <1>1, <2>4 DEF vga_check_if_scroll_needed, Return
    <3> HIDE DEF c
    <3>3. ~overlap => Working(c, cursorX', cursorY')
      BY <3>1 DEF Working, Wrapping, Falling
    <3>4. ~overlap => OnPage(cursorX', cursorY')
      BY <1>0, <2>1, <2>2, <2>4 DEF OnPage
    <3> QED  BY <1>0, <2>1, <3>1, <3>2, <3>3, <3>4, SoloMove
  <2> QED  BY <2>3, <2>4
<1>2. ASSUME vga_scroll_screen(t) PROVE Solo'
  <2> DEFINE c == IF call[t].x + 1 \in Rows THEN [call[t] EXCEPT !.x = call[t].x + 1]
                  ELSE Place("dec_y")
  <2>1. /\ call' = [call EXCEPT ![t] = c] /\ call[t].pc = "scroll" /\ overlap' = overlap
        /\ screen' = Moved(screen, call[t].x) /\ cursorX' = cursorX /\ cursorY' = cursorY
    BY <1>2 DEF vga_scroll_screen, At, Inv, CallOK
  <2>2. c.pc \in {"scroll", "dec_y"}
    <3>1. CASE call[t].x + 1 \in Rows
      BY <2>1, <3>1 DEF Inv, CallOK, Sound, Calls
    <3>2. CASE call[t].x + 1 \notin Rows
      BY <3>2 DEF Place
    <3> QED  BY <3>1, <3>2
  <2> HIDE DEF c
  <2>3. ~overlap => Working(c, cursorX', cursorY')
    BY <1>0, <2>1, <2>2 DEF Working, Wrapping, Falling
  <2>4. ~overlap => RowFree(screen')
    BY <1>0, <2>1, MovedFree
  <2> QED  BY <2>1, <2>2, <2>3, <2>4, SoloMove
<1>3. ASSUME dec_y(t) PROVE Solo'
  <2> DEFINE c == [Place("store_dec_y") EXCEPT !.x = cursorY - 1]
  <2>1. /\ call' = [call EXCEPT ![t] = c] /\ call[t].pc = "dec_y" /\ overlap' = overlap
        /\ screen' = screen /\ cursorX' = cursorX /\ cursorY' = cursorY
    BY <1>3 DEF dec_y, Load, At
  <2>2. c.pc = "store_dec_y" /\ c.x = cursorY - 1
    BY DEF Place
  <2> HIDE DEF c
  <2>3. ASSUME ~overlap PROVE Working(c, cursorX', cursorY')
    <3>1. cursorX = 0 /\ cursorY = VGA_HEIGHT - 1
      BY <1>0, <2>1, <2>3 DEF Working, Falling
    <3>2. c.x = VGA_HEIGHT - 2
      BY <1>0, <2>2, <3>1
    <3> QED  BY <2>1, <2>2, <3>1, <3>2 DEF Working, Wrapping, Falling
  <2> QED  BY <1>0, <2>1, <2>2, <2>3, SoloMove
<1>4. ASSUME store_dec_y(t) PROVE Solo'
  <2> DEFINE c == Place("while")
  <2>1. /\ call' = [call EXCEPT ![t] = c] /\ call[t].pc = "store_dec_y" /\ overlap' = overlap
        /\ screen' = screen /\ cursorX' = cursorX /\ cursorY' = call[t].x
    BY <1>4 DEF store_dec_y, Goto, At
  <2>2. c.pc = "while"
    BY DEF Place
  <2> HIDE DEF c
  <2>3. ASSUME ~overlap PROVE Working(c, cursorX', cursorY')
    <3>1. cursorX = 0 /\ call[t].x = VGA_HEIGHT - 2
      BY <1>0, <2>1, <2>3 DEF Working, Falling
    <3>2. VGA_HEIGHT - 2 \in Rows
      BY <1>0 DEF Rows
    <3> QED  BY <2>1, <2>2, <3>1, <3>2 DEF Working, Wrapping, Falling
  <2> QED  BY <1>0, <2>1, <2>2, <2>3, SoloMove
<1> QED  BY <1>1, <1>2, <1>3, <1>4

\* The handler prints on the page and scrolls it by one row at most.
LEMMA NewLineOnPage ==
  ASSUME NEW s, s.y \in 0 .. VGA_HEIGHT - 2, RowFree(s.screen)
  PROVE  OnPage(NewLine(s).x, NewLine(s).y) /\ RowFree(NewLine(s).screen)
<1>1. VGA_WIDTH \in Nat /\ VGA_HEIGHT \in Nat /\ 0 < VGA_WIDTH /\ 1 < VGA_HEIGHT
  BY ConsoleAssumption
<1> DEFINE n == IF s.y + 1 >= VGA_HEIGHT - 1 THEN s.y + 2 - (VGA_HEIGHT - 1) ELSE 0
<1>2. n \in {0, 1} /\ s.y + 1 - n \in 0 .. VGA_HEIGHT - 2 /\ 0 \in 0 .. VGA_WIDTH - 1
  BY <1>1
<1>3. NewLine(s) = [screen |-> Scrolled(s.screen, n), x |-> 0, y |-> s.y + 1 - n]
  BY DEF NewLine
<1> HIDE DEF n
<1>4. RowFree(Scrolled(s.screen, n))
  BY <1>2, ScrolledFree
<1> QED  BY <1>2, <1>3, <1>4 DEF OnPage

LEMMA LetterOnPage ==
  ASSUME NEW s, OnPage(s.x, s.y), RowFree(s.screen),
         s.screen \in [Cells -> Letters \cup {SPACE, BLANK}], NEW ch \in Letters
  PROVE  OnPage(Letter(s, ch).x, Letter(s, ch).y) /\ RowFree(Letter(s, ch).screen)
<1> DEFINE at == s.y * VGA_WIDTH + s.x
           cells == IF at \in Cells THEN [s.screen EXCEPT ![at] = ch] ELSE s.screen
           w == [screen |-> cells, x |-> s.x + 1, y |-> s.y]
<1>1. RowFree(cells)
  BY LetterAbove
<1>2. Letter(s, ch) = IF w.x >= VGA_WIDTH THEN NewLine(w) ELSE w
  BY DEF Letter
<1> HIDE DEF cells
<1>3. w.screen = cells /\ w.x = s.x + 1 /\ w.y = s.y
  OBVIOUS
<1> HIDE DEF w
<1>4. CASE w.x >= VGA_WIDTH
  <2>1. w.y \in 0 .. VGA_HEIGHT - 2
    BY <1>3 DEF OnPage
  <2> QED  BY <1>1, <1>2, <1>3, <1>4, <2>1, NewLineOnPage
<1>5. CASE ~(w.x >= VGA_WIDTH)
  <2>1. OnPage(w.x, w.y)
    BY <1>3, <1>5, Threads DEF OnPage
  <2> QED  BY <1>1, <1>2, <1>3, <1>5, <2>1
<1> QED  BY <1>4, <1>5

LEMMA SoloHandler ==
  ASSUME Inv, Solo, (\E ch \in Letters \cup {NL} : keyboard(ch)) \/ keyboard_erase
  PROVE  Solo'
<1>1. call' = call /\ (~overlap' => ~overlap /\ Busy = {})
  BY DEF keyboard, keyboard_erase
<1>2. SUFFICES ASSUME ~overlap'
               PROVE  OnPage(cursorX', cursorY') /\ RowFree(screen')
  <2>1. ASSUME OnPage(cursorX', cursorY'), RowFree(screen'), ~overlap'
        PROVE  Alone'
    <3>1. \A u \in Thread : call[u].pc = "idle"
      BY <1>1, <2>1 DEF Busy, Idle, Place
    <3>2. \A u \in Thread : Working(call'[u], cursorX', cursorY')
      BY <1>1, <3>1 DEF Working, Wrapping, Falling
    <3>3. \A t, u \in Thread : call'[t].pc # "idle" /\ call'[u].pc # "idle" => t = u
      BY <1>1, <3>1
    <3> QED  BY <2>1, <3>2, <3>3 DEF Alone
  <2>2. \A t \in Thread : call'[t].pc = "idle" => call'[t] = Idle
    BY <1>1 DEF Solo
  <2> QED  BY <2>1, <2>2 DEF Solo
<1>3. /\ OnPage(cursorX, cursorY) /\ RowFree(screen)
      /\ screen \in [Cells -> Letters \cup {SPACE, BLANK}]
  <2>1. \A u \in Thread : call[u].pc = "idle"
    BY <1>1, <1>2 DEF Busy, Idle, Place
  <2> QED  BY <1>1, <1>2, <2>1 DEF Solo, Alone, Inv, ScreenOK
<1>4. ASSUME NEW ch \in Letters \cup {NL}, keyboard(ch)
      PROVE  OnPage(cursorX', cursorY') /\ RowFree(screen')
  <2> DEFINE w == IF ch = NL THEN NewLine(Now) ELSE Letter(Now, ch)
  <2>1. Now.screen = screen /\ Now.x = cursorX /\ Now.y = cursorY
    BY DEF Now
  <2>2. OnPage(w.x, w.y) /\ RowFree(w.screen)
    <3>1. CASE ch = NL
      <4>1. Now.y \in 0 .. VGA_HEIGHT - 2 /\ RowFree(Now.screen)
        BY <1>3, <2>1 DEF OnPage
      <4> QED  BY <3>1, <4>1, NewLineOnPage
    <3>2. CASE ch # NL
      <4>1. /\ OnPage(Now.x, Now.y) /\ RowFree(Now.screen)
            /\ Now.screen \in [Cells -> Letters \cup {SPACE, BLANK}]
        BY <1>3, <2>1
      <4> QED  BY <3>2, <4>1, LetterOnPage
    <3> QED  BY <3>1, <3>2
  <2>3. screen' = w.screen /\ cursorX' = w.x /\ cursorY' = w.y
    BY <1>4 DEF keyboard, Now
  <2> HIDE DEF w
  <2> QED  BY <2>2, <2>3
<1>5. ASSUME keyboard_erase
      PROVE  OnPage(cursorX', cursorY') /\ RowFree(screen')
  <2>1. cursorX' = Left(cursorX) /\ cursorY' = cursorY
    BY <1>5 DEF keyboard_erase
  <2>2. OnPage(cursorX', cursorY')
    BY <1>3, <2>1, Threads DEF OnPage, Left
  <2>3. ErasedCell \in Cells
    BY <2>1, <2>2, AboveLast DEF ErasedCell
  <2>4. screen' = [screen EXCEPT ![ErasedCell] = SPACE]
    BY <1>5, <2>3 DEF keyboard_erase
  <2>5. RowFree([screen EXCEPT ![cursorY' * VGA_WIDTH + cursorX'] = SPACE])
    BY <1>3, <2>2, LetterAbove
  <2>6. ErasedCell = cursorY' * VGA_WIDTH + cursorX'
    BY <2>1 DEF ErasedCell
  <2> QED  BY <2>2, <2>4, <2>5, <2>6
<1> QED  BY <1>4, <1>5

LEMMA SoloInit == Init => Solo
<1> SUFFICES ASSUME Init PROVE Solo
  OBVIOUS
<1>1. \A t \in Thread : call[t] = Idle /\ call[t].pc = "idle"
  BY DEF Init, Idle, Place
<1>2. OnPage(cursorX, cursorY)
  BY ConsoleAssumption DEF Init, OnPage
<1>3. \A t \in Thread : Working(call[t], cursorX, cursorY)
  BY <1>1 DEF Working, Wrapping, Falling
<1>4. RowFree(screen)
  BY LastOut, BlankIsNone DEF Init, RowFree
<1> QED  BY <1>1, <1>2, <1>3, <1>4 DEF Solo, Alone

LEMMA SoloNext == Inv /\ Solo /\ [Next]_vars => Solo'
<1> SUFFICES ASSUME Inv, Solo, [Next]_vars PROVE Solo'
  OBVIOUS
<1>1. ASSUME NEW t \in Thread, Step(t) PROVE Solo'
  BY <1>1, SoloPutchar, SoloLetter, SoloNextLine, SoloScroll DEF Step
<1>2. CASE (\E ch \in Letters \cup {NL} : keyboard(ch)) \/ keyboard_erase
  BY <1>2, SoloHandler
<1>3. CASE UNCHANGED vars
  BY <1>3 DEF vars, Solo, Alone
<1> QED  BY <1>1, <1>2, <1>3 DEF Next

\* Then every write and every erase is on the screen.
LEMMA WrittenOnScreen == Inv /\ Solo /\ ~overlap => Written \subseteq Cells
<1> SUFFICES ASSUME Inv, Solo, ~overlap PROVE Written \subseteq Cells
  OBVIOUS
<1>1. ASSUME NEW t \in Thread, At(t, "write") PROVE Target(t) \in Cells
  <2>1. OnPage(cursorX, cursorY) /\ call[t].x = cursorX /\ call[t].y = cursorY
    BY <1>1 DEF At, Solo, Alone, Working
  <2> QED  BY <2>1, AboveLast DEF Target
<1>2. ErasedCell \in Cells
  <2>1. cursorX \in 0 .. VGA_WIDTH /\ cursorY \in 0 .. VGA_HEIGHT - 1
    <3>1. VGA_WIDTH \in Nat /\ VGA_HEIGHT \in Nat /\ 0 < VGA_WIDTH /\ 1 < VGA_HEIGHT
      BY ConsoleAssumption
    <3>2. CASE \A t \in Thread : call[t].pc = "idle"
      BY <3>1, <3>2 DEF Solo, Alone, OnPage
    <3>3. CASE \E t \in Thread : call[t].pc # "idle"
      <4>1. PICK t \in Thread : call[t].pc # "idle"
        BY <3>3
      <4>2. Working(call[t], cursorX, cursorY) /\ call[t].pc \in Places
        BY DEF Solo, Alone, Inv, CallOK, Sound, Calls
      <4>3. \/ OnPage(cursorX, cursorY)
            \/ cursorX \in 0 .. VGA_WIDTH /\ cursorY \in 0 .. VGA_HEIGHT - 2
            \/ cursorX = 0 /\ cursorY \in 0 .. VGA_HEIGHT - 2
            \/ cursorX = 0 /\ cursorY \in Rows
            \/ cursorX = 0 /\ cursorY = VGA_HEIGHT - 1
        BY <4>1, <4>2 DEF Working, Places, Wrapping, Falling
      <4> QED  BY <3>1, <4>3 DEF OnPage, Rows
    <3> QED  BY <3>2, <3>3
  <2>2. Left(cursorX) \in 0 .. VGA_WIDTH - 1
    BY <2>1, Threads DEF Left
  <2>3. CASE cursorY \in 0 .. VGA_HEIGHT - 2
    BY <2>2, <2>3, AboveLast DEF ErasedCell, OnPage
  <2>4. CASE cursorY = VGA_HEIGHT - 1
    BY <2>2, <2>4, LastOut DEF ErasedCell, LastRow
  <2>5. cursorY \in 0 .. VGA_HEIGHT - 2 \/ cursorY = VGA_HEIGHT - 1
    BY <2>1, Threads
  <2> QED  BY <2>3, <2>4, <2>5
<1> QED  BY <1>1, <1>2 DEF Written

\* The rows with letters on them are those above the last, and they all fit.
LEMMA DrawnFits == Solo => DrawnInsidePicture
<1> SUFFICES ASSUME Solo, ~overlap, NEW r \in Rows, Drawn(r)
             PROVE  (r + 2) * LINE <= FB_HEIGHT
  BY DEF DrawnInsidePicture
<1>1. /\ VGA_HEIGHT \in Nat /\ LINE \in Nat /\ FB_HEIGHT \in Nat /\ r \in Nat
      /\ r <= VGA_HEIGHT - 1 /\ VGA_HEIGHT * LINE <= FB_HEIGHT
  BY ConsoleAssumption DEF Rows
<1>2. r # VGA_HEIGHT - 1
  <2>1. PICK k \in 0 .. VGA_WIDTH - 1 : screen[r * VGA_WIDTH + k] \in Letters
    BY DEF Drawn
  <2>2. screen[LastRow + k] \notin Letters
    BY DEF Solo, Alone, RowFree
  <2> QED  BY <2>1, <2>2 DEF LastRow
<1> DEFINE d == VGA_HEIGHT - (r + 2)
<1>3. d \in Nat /\ VGA_HEIGHT = r + 2 + d
  BY <1>1, <1>2
<1> HIDE DEF d
<1>4. /\ (r + 2 + d) * LINE = (r + 2) * LINE + d * LINE
      /\ d * LINE \in Nat /\ (r + 2) * LINE \in Nat
  BY <1>1, <1>3
<1> DEFINE a == (r + 2) * LINE
           b == d * LINE
           e == VGA_HEIGHT * LINE
<1>5. a \in Nat /\ b \in Nat /\ e = a + b /\ e <= FB_HEIGHT
  BY <1>1, <1>3, <1>4
<1> HIDE DEF a, b, e
<1>6. a <= FB_HEIGHT
  BY <1>1, <1>5
<1> QED  BY <1>6 DEF a

----------------------------------------------------------------------------
\* Nothing is written off the screen unless prints overlap, and then not far from
\* it: a row for every thread, and one more thread's worth for each lost increment.
THEOREM WritesStayNear == Spec => []WritesNearScreen
<1>1. Inv /\ Bounds /\ Solo => WritesNearScreen
  BY WrittenNearby, WrittenOnScreen DEF WritesNearScreen
<1>2. Init => Inv /\ Bounds /\ Solo
  BY InvInit, BoundsInit, SoloInit
<1>3. (Inv /\ Bounds /\ Solo) /\ [Next]_vars => (Inv /\ Bounds /\ Solo)'
  BY InvNext, BoundsNext, SoloNext
<1> QED  BY <1>1, <1>2, <1>3, PTL DEF Spec

\* As long as no prints overlap, no letter gets below the picture.
THEOREM DrawingFits == Spec => []DrawnInsidePicture
<1>1. Init => Inv /\ Solo
  BY InvInit, SoloInit
<1>2. (Inv /\ Solo) /\ [Next]_vars => (Inv /\ Solo)'
  BY InvNext, SoloNext
<1> QED  BY <1>1, <1>2, DrawnFits, PTL DEF Spec
----------------------------------------------------------------------------
(***************************************************************************)
(* What a reader sees.  As long as no two prints have overlapped, the      *)
(* screen shows a page; between two prints it is the page in shown, and    *)
(* during a print it is that page with the letter, the page without its    *)
(* first line, or some rows of the one and the rest of the other.          *)
(***************************************************************************)
Lines == VGA_HEIGHT - 1

\* The pages that a reader can see between two prints.
Paper(p) ==
  /\ p \in Seq(Seq(Letters))
  /\ Len(p) \in 1 .. Lines
  /\ \A k \in 1 .. Len(p) : Len(p[k]) <= VGA_WIDTH

Last(p) == p[Len(p)]

\* The page with a letter at its end.
Typed(p, c) == [p EXCEPT ![Len(p)] = Append(Last(p), c)]

\* What a thread that prints may have made of the page so far.
Drafts(p) == {p} \cup {Typed(p, c) : c \in Letters}

\* The line behind the last row of the page is empty.
LineAt(p, r) == IF r + 1 \in 1 .. Len(p) THEN p[r + 1] ELSE << >>

CellAt(r, k) == r * VGA_WIDTH + k

\* Row r of the screen holds that line, and nothing behind it.
Shows(s, r, line) ==
  \A k \in 0 .. VGA_WIDTH - 1 :
    IF k + 1 \in 1 .. Len(line) THEN s[CellAt(r, k)] = line[k + 1]
    ELSE s[CellAt(r, k)] \notin Letters

Depicts(s, p) == \A r \in Rows : Shows(s, r, LineAt(p, r))

\* The first rows of the screen have moved up.
Lifted(s, p, n) ==
  \A r \in Rows : Shows(s, r, LineAt(p, IF r < n THEN r + 1 ELSE r))

\* The cursor is behind the last letter.
Placed(p, x, y) == x = Len(Last(p)) /\ y = Len(p) - 1

\* Where a thread at c is with the draft q of page p.
Drafting(c, p, q, s, x, y) ==
  /\ c.pc \in {"get_y", "write"} =>
       q = p /\ Depicts(s, q) /\ Placed(q, x, y)
  /\ c.pc \in {"inc_x", "store_x"} =>
       q # p /\ Depicts(s, q) /\ Placed(q, x + 1, y)
  /\ c.pc = "wrap" =>
       q # p /\ Depicts(s, q) /\ Placed(q, x, y)
  /\ c.pc \in {"next_line", "inc_y", "store_y"} =>
       Depicts(s, q) /\ y = Len(q) - 1
  /\ c.pc \in {"next_line", "inc_y", "store_y", "while"} \cup Falling =>
       (q # p => Len(Last(q)) = VGA_WIDTH)
  /\ c.pc = "while" =>
       \/ Depicts(s, Reader!Fresh(q)) /\ y = Len(Reader!Fresh(q)) - 1
       \/ Depicts(s, q) /\ y = Lines /\ Len(q) = Lines
  /\ c.pc \in Falling => Len(q) = Lines
  /\ c.pc = "scroll" => c.x \in Rows /\ Lifted(s, q, c.x)
  /\ c.pc \in {"dec_y", "store_dec_y"} => Depicts(s, Reader!Fresh(q))

Faithful ==
  /\ Paper(shown) /\ Len(Last(shown)) < VGA_WIDTH
  /\ (\A t \in Thread : call[t].pc = "idle") =>
       (Depicts(screen, shown) /\ Placed(shown, cursorX, cursorY))
  /\ \A t \in Thread : call[t].pc # "idle" =>
       \E q \in Drafts(shown) : Drafting(call[t], shown, q, screen, cursorX, cursorY)

Text == ~overlap => Faithful

----------------------------------------------------------------------------
\* A number below d over a multiple of d.
LEMMA Division ==
  ASSUME NEW d \in Nat \ {0}, NEW r \in Nat, NEW k \in 0 .. d - 1
  PROVE  (r * d + k) \div d = r
<1> DEFINE n == r * d + k
           m == n \div d
<1>1. n \in Nat /\ r * d \in Nat
  OBVIOUS
<1>2. m \in Nat /\ m * d <= n /\ n < m * d + d /\ m * d \in Nat
  <2> HIDE DEF n
  <2> QED  BY <1>1
<1>3. \A a, b \in Nat : a < b => a * d + d <= b * d
  <2> SUFFICES ASSUME NEW a \in Nat, NEW b \in Nat, a < b
               PROVE  a * d + d <= b * d
    OBVIOUS
  <2> DEFINE e == b - a - 1
  <2>1. e \in Nat /\ b = a + 1 + e
    OBVIOUS
  <2> HIDE DEF e
  <2>2. (a + 1 + e) * d = a * d + d + e * d /\ e * d \in Nat /\ a * d \in Nat
    BY <2>1
  <2> QED  BY <2>1, <2>2
<1> DEFINE f == r * d
           g == m * d
<1>4. n = f + k /\ f \in Nat /\ g \in Nat /\ g <= n /\ n < g + d
  BY <1>1, <1>2
<1>5. r < m => f + d <= g
  BY <1>2, <1>3
<1>6. m < r => g + d <= f
  BY <1>2, <1>3
<1> HIDE DEF n, m, f, g
<1>7. ~ (r < m) /\ ~ (m < r)
  BY <1>4, <1>5, <1>6
<1> QED  BY <1>2, <1>7 DEF m, n

\* The cells of a row, and those below them.
LEMMA Plane ==
  ASSUME NEW r \in Rows, NEW k \in 0 .. VGA_WIDTH - 1
  PROVE  /\ CellAt(r, k) \in Cells /\ CellAt(r, k) \in Nat
         /\ CellAt(r, k) \div VGA_WIDTH = r
         /\ CellAt(r, k) + VGA_WIDTH = CellAt(r + 1, k)
         /\ r + 1 \notin Rows => CellAt(r, k) + VGA_WIDTH \notin Cells
         /\ r + 1 \in Rows => CellAt(r + 1, k) \in Cells
<1>1. VGA_WIDTH \in Nat \ {0} /\ VGA_HEIGHT \in Nat /\ 1 < VGA_HEIGHT
  BY ConsoleAssumption
<1>2. \A q \in Rows : q * VGA_WIDTH \in Nat /\ q * VGA_WIDTH <= LastRow
  <2>1. \A q \in Rows : q \in 0 .. VGA_HEIGHT - 2 \/ q = VGA_HEIGHT - 1
    BY <1>1 DEF Rows
  <2>2. \A q \in 0 .. VGA_HEIGHT - 2 : q * VGA_WIDTH <= LastRow
    <3> SUFFICES ASSUME NEW q \in 0 .. VGA_HEIGHT - 2 PROVE q * VGA_WIDTH <= LastRow
      OBVIOUS
    <3> DEFINE a == q * VGA_WIDTH
    <3>1. a \in Nat /\ a + VGA_WIDTH <= LastRow /\ LastRow \in Nat
      BY Area
    <3> HIDE DEF a
    <3>2. a <= LastRow
      BY <1>1, <3>1
    <3> QED  BY <3>2 DEF a
  <2>3. (VGA_HEIGHT - 1) * VGA_WIDTH = LastRow /\ LastRow \in Nat
    BY Area DEF LastRow
  <2>4. \A q \in 0 .. VGA_HEIGHT - 2 : q * VGA_WIDTH \in Nat
    BY Area
  <2> QED  BY <2>1, <2>2, <2>3, <2>4
<1>3. r \in Nat /\ r * VGA_WIDTH \in Nat /\ r * VGA_WIDTH <= LastRow
  BY <1>1, <1>2 DEF Rows
<1>4. CellAt(r, k) \div VGA_WIDTH = r
  BY <1>1, <1>3, Division DEF CellAt
<1>5. (r + 1) * VGA_WIDTH = r * VGA_WIDTH + VGA_WIDTH
  BY <1>1, <1>3
<1>6. r + 1 \notin Rows => r = VGA_HEIGHT - 1
  BY <1>1 DEF Rows
<1>7. r = VGA_HEIGHT - 1 => r * VGA_WIDTH = LastRow
  BY DEF LastRow
<1> DEFINE a == r * VGA_WIDTH
           b == (r + 1) * VGA_WIDTH
<1>8. /\ a \in Nat /\ a <= LastRow /\ b = a + VGA_WIDTH /\ LastRow \in Nat
      /\ Cells = 0 .. LastRow + VGA_WIDTH - 1
      /\ CellAt(r, k) = a + k /\ CellAt(r + 1, k) = b + k
      /\ r + 1 \notin Rows => a = LastRow
      /\ r + 1 \in Rows => b <= LastRow
  BY <1>2, <1>3, <1>5, <1>6, <1>7, Area DEF CellAt
<1> HIDE DEF a, b
<1>9. /\ a + k \in Cells /\ a + k \in Nat /\ a + k + VGA_WIDTH = b + k
      /\ a = LastRow => a + k + VGA_WIDTH \notin Cells
      /\ b <= LastRow => b + k \in Cells
  BY <1>1, <1>8
<1> QED  BY <1>4, <1>8, <1>9

\* No two places are the same cell.
LEMMA Apart ==
  ASSUME NEW r \in Rows, NEW k \in 0 .. VGA_WIDTH - 1,
         NEW q \in Rows, NEW j \in 0 .. VGA_WIDTH - 1, CellAt(r, k) = CellAt(q, j)
  PROVE  r = q /\ k = j
<1>1. r = q
  <2>1. CellAt(r, k) \div VGA_WIDTH = r
    BY Plane
  <2>2. CellAt(q, j) \div VGA_WIDTH = q
    BY Plane
  <2> QED  BY <2>1, <2>2
<1> DEFINE a == r * VGA_WIDTH
<1>2. a \in Int /\ CellAt(r, k) = a + k /\ CellAt(r, j) = a + j
  BY ConsoleAssumption DEF CellAt, Rows
<1> HIDE DEF a
<1>3. k = j
  BY <1>1, <1>2
<1> QED  BY <1>1, <1>3

\* What the operations on the screen do to a cell.
LEMMA CellSet ==
  ASSUME NEW s, DOMAIN s = Cells, NEW q \in Rows, NEW j \in 0 .. VGA_WIDTH - 1, NEW c,
         NEW z, z = [s EXCEPT ![CellAt(q, j)] = c],
         NEW r \in Rows, NEW k \in 0 .. VGA_WIDTH - 1
  PROVE  z[CellAt(r, k)] = IF r = q /\ k = j THEN c ELSE s[CellAt(r, k)]
BY Plane, Apart

LEMMA CellMoved ==
  ASSUME NEW s, NEW n \in Rows, NEW r \in Rows, NEW k \in 0 .. VGA_WIDTH - 1
  PROVE  Moved(s, n)[CellAt(r, k)] =
           IF r # n THEN s[CellAt(r, k)]
           ELSE IF r + 1 \in Rows THEN s[CellAt(r + 1, k)] ELSE BLANK
<1> DEFINE at == CellAt(r, k)
           j == CellAt(r + 1, k)
<1>1. /\ at \in Cells /\ at \div VGA_WIDTH = r /\ at + VGA_WIDTH = j
      /\ (j \in Cells) = (r + 1 \in Rows)
  BY Plane
<1> HIDE DEF at, j
<1>2. Moved(s, n)[at] = IF at \div VGA_WIDTH # n THEN s[at]
                       ELSE IF at + VGA_WIDTH \in Cells THEN s[at + VGA_WIDTH] ELSE BLANK
  BY <1>1 DEF Moved
<1> QED  BY <1>1, <1>2 DEF at, j

LEMMA CellScrolled ==
  ASSUME NEW s, NEW r \in Rows, NEW k \in 0 .. VGA_WIDTH - 1
  PROVE  /\ Scrolled(s, 0)[CellAt(r, k)] = s[CellAt(r, k)]
         /\ Scrolled(s, 1)[CellAt(r, k)] =
              (IF r + 1 \in Rows THEN s[CellAt(r + 1, k)] ELSE BLANK)
<1> DEFINE at == CellAt(r, k)
           j == CellAt(r + 1, k)
<1>1. /\ at \in Cells /\ at \in Nat /\ at + VGA_WIDTH = j
      /\ (j \in Cells) = (r + 1 \in Rows)
  BY Plane
<1> HIDE DEF at, j
<1>2. at + 0 * VGA_WIDTH = at /\ at + 1 * VGA_WIDTH = j
  BY <1>1, ConsoleAssumption
<1>3. /\ Scrolled(s, 0)[at] = s[at]
      /\ Scrolled(s, 1)[at] = IF j \in Cells THEN s[j] ELSE BLANK
  BY <1>1, <1>2 DEF Scrolled
<1> QED  BY <1>1, <1>3 DEF at, j

----------------------------------------------------------------------------
\* A row that holds a line is read as that line.
LEMMA RowIs ==
  ASSUME NEW s, NEW r \in Rows, NEW line \in Seq(Letters), Len(line) <= VGA_WIDTH,
         Shows(s, r, line)
  PROVE  Row(s, r) = line
<1> DEFINE cell == [k \in 1 .. VGA_WIDTH |-> s[r * VGA_WIDTH + k - 1]]
           seen(k) == cell[k] \in Letters /\ \A j \in 1 .. k : cell[j] # BLANK
           Ends(n) == (n # 0 => seen(n)) /\ \A k \in n + 1 .. VGA_WIDTH : ~seen(k)
           m == Len(line)
<1>1. VGA_WIDTH \in Nat /\ m \in 0 .. VGA_WIDTH /\ \A k \in 1 .. m : line[k] \in Letters
  BY ConsoleAssumption
<1>2. \A k \in 1 .. VGA_WIDTH : IF k \in 1 .. m THEN cell[k] = line[k]
                                ELSE cell[k] \notin Letters
  <2> SUFFICES ASSUME NEW k \in 1 .. VGA_WIDTH
               PROVE  IF k \in 1 .. m THEN cell[k] = line[k] ELSE cell[k] \notin Letters
    OBVIOUS
  <2>1. k - 1 \in 0 .. VGA_WIDTH - 1 /\ (k - 1) + 1 = k
    BY <1>1
  <2>2. cell[k] = s[CellAt(r, k - 1)]
    <3> DEFINE a == r * VGA_WIDTH
    <3>1. a \in Int
      BY <1>1 DEF Rows
    <3> HIDE DEF a
    <3>2. a + k - 1 = a + (k - 1)
      BY <1>1, <3>1
    <3> QED  BY <3>2 DEF a, CellAt
  <2> HIDE DEF cell
  <2> QED  BY <2>1, <2>2 DEF Shows
<1>3. \A k \in 1 .. VGA_WIDTH : seen(k) <=> k \in 1 .. m
  <2> HIDE DEF cell
  <2>1. \A k \in 1 .. m : cell[k] \in Letters /\ cell[k] # BLANK
    BY <1>1, <1>2, BlankIsNone
  <2>2. \A k \in 1 .. VGA_WIDTH : k \notin 1 .. m => cell[k] \notin Letters
    BY <1>2
  <2>3. \A k \in 1 .. m : \A j \in 1 .. k : j \in 1 .. m
    BY <1>1
  <2> QED  BY <2>1, <2>2, <2>3
<1> HIDE DEF cell, seen
<1>4. Ends(m)
  BY <1>1, <1>3
<1>5. \A n \in 0 .. VGA_WIDTH : Ends(n) => n = m
  <2> SUFFICES ASSUME NEW n \in 0 .. VGA_WIDTH, Ends(n), n # m PROVE FALSE
    OBVIOUS
  <2>1. CASE n < m
    <3>1. m \in n + 1 .. VGA_WIDTH /\ m \in 1 .. m /\ m \in 1 .. VGA_WIDTH
      BY <1>1, <2>1
    <3> QED  BY <1>1, <1>3, <3>1
  <2>2. CASE m < n
    <3>1. n \in 1 .. VGA_WIDTH /\ n \notin 1 .. m /\ n # 0
      BY <1>1, <2>2
    <3> QED  BY <1>3, <3>1
  <2> QED  BY <1>1, <2>1, <2>2
<1>6. (CHOOSE n \in 0 .. VGA_WIDTH : Ends(n)) = m
  <2> HIDE DEF Ends, m
  <2> QED  BY <1>1, <1>4, <1>5
<1>7. SubSeq(cell, 1, m) = line
  <2>1. SubSeq(cell, 1, m) = [at \in 1 .. m |-> cell[at]]
    <3>1. SubSeq(cell, 1, m) = [at \in 1 .. (m - 1 + 1) |-> cell[at + 1 - 1]]
      BY <1>1 DEF SubSeq
    <3> QED  BY <1>1, <3>1
  <2>2. line = [at \in 1 .. m |-> line[at]]
    OBVIOUS
  <2>3. \A at \in 1 .. m : cell[at] = line[at]
    BY <1>1, <1>2
  <2> QED  BY <2>1, <2>2, <2>3
<1> QED  BY <1>6, <1>7 DEF Row, cell, seen, Ends

\* A screen that shows a page is read as that page.
LEMMA PageIs ==
  ASSUME NEW s, NEW p, Paper(p), Depicts(s, p), NEW y, y = Len(p) - 1
  PROVE  Page(s, y) = p
<1>1. Len(p) \in Nat /\ y + 1 = Len(p) /\ Len(p) <= VGA_HEIGHT - 1 /\ VGA_HEIGHT \in Nat
  BY ConsoleAssumption DEF Paper, Lines
<1>2. ASSUME NEW k \in 1 .. Len(p) PROVE Row(s, k - 1) = p[k]
  <2>1. k - 1 \in Rows /\ LineAt(p, k - 1) = p[k]
    BY <1>1 DEF Rows, LineAt
  <2>2. p[k] \in Seq(Letters) /\ Len(p[k]) <= VGA_WIDTH
    BY DEF Paper
  <2>3. Shows(s, k - 1, p[k])
    BY <2>1 DEF Depicts
  <2> QED  BY <2>1, <2>2, <2>3, RowIs
<1>3. p = [k \in 1 .. Len(p) |-> p[k]]
  BY DEF Paper
<1> QED  BY <1>1, <1>2, <1>3 DEF Page
----------------------------------------------------------------------------
LEMMA Height == Lines \in Nat /\ 1 <= Lines /\ Rows = 0 .. Lines /\ VGA_WIDTH \in Nat \ {0}
BY ConsoleAssumption DEF Lines, Rows

\* A page has lines, and a line letters.
LEMMA PaperHas ==
  ASSUME NEW p, Paper(p)
  PROVE  /\ p \in Seq(Seq(Letters)) /\ Len(p) \in Nat /\ 1 <= Len(p) /\ Len(p) <= Lines
         /\ Last(p) \in Seq(Letters) /\ Len(Last(p)) \in Nat /\ Len(Last(p)) <= VGA_WIDTH
         /\ \A k \in 1 .. Len(p) : p[k] \in Seq(Letters) /\ Len(p[k]) <= VGA_WIDTH
BY Height DEF Paper, Last

\* A letter more.
LEMMA TypedIs ==
  ASSUME NEW p, Paper(p), Len(Last(p)) < VGA_WIDTH, NEW c \in Letters
  PROVE  /\ Paper(Typed(p, c)) /\ Len(Typed(p, c)) = Len(p) /\ Typed(p, c) # p
         /\ Last(Typed(p, c)) = Append(Last(p), c)
         /\ Len(Last(Typed(p, c))) = Len(Last(p)) + 1
         /\ \A k \in 1 .. Len(p) : k # Len(p) => Typed(p, c)[k] = p[k]
<1> DEFINE n == Len(p)
           a == Last(p)
           b == Append(a, c)
           q == Typed(p, c)
<1>1. /\ p \in Seq(Seq(Letters)) /\ n \in Nat /\ 1 <= n /\ n <= Lines
      /\ a \in Seq(Letters) /\ a = p[n] /\ Len(a) < VGA_WIDTH /\ VGA_WIDTH \in Nat
      /\ \A k \in 1 .. n : p[k] \in Seq(Letters) /\ Len(p[k]) <= VGA_WIDTH
  BY PaperHas, Height DEF Last
<1>2. b \in Seq(Letters) /\ Len(b) = Len(a) + 1 /\ Len(a) \in Nat
  BY <1>1
<1>3. q = [p EXCEPT ![n] = b]
  BY DEF Typed
<1> HIDE DEF a, b, q
<1>4. q \in Seq(Seq(Letters)) /\ Len(q) = n /\ q[n] = b
  BY <1>1, <1>2, <1>3
<1>5. \A k \in 1 .. n : k # n => q[k] = p[k]
  BY <1>1, <1>3
<1>6. \A k \in 1 .. n : Len(q[k]) <= VGA_WIDTH
  BY <1>1, <1>2, <1>4, <1>5
<1>7. Last(q) = b
  BY <1>4 DEF Last
<1>8. Paper(q)
  BY <1>1, <1>4, <1>6 DEF Paper
<1>9. q # p
  BY <1>1, <1>2, <1>4
<1> QED  BY <1>2, <1>4, <1>5, <1>7, <1>8, <1>9 DEF a, b, q

LEMMA DraftIs ==
  ASSUME NEW p, Paper(p), Len(Last(p)) < VGA_WIDTH, NEW q \in Drafts(p)
  PROVE  /\ Paper(q) /\ Len(q) = Len(p)
         /\ q # p => \E c \in Letters : q = Typed(p, c)
         /\ q # p => Len(Last(q)) = Len(Last(p)) + 1
BY TypedIs DEF Drafts

\* A new line below the page, which moves up if it is full.
LEMMA FreshIs ==
  ASSUME NEW p, Paper(p)
  PROVE  /\ Paper(Reader!Fresh(p)) /\ Last(Reader!Fresh(p)) = << >>
         /\ Len(Reader!Fresh(p)) = IF Len(p) = Lines THEN Lines ELSE Len(p) + 1
         /\ \A r \in Rows : LineAt(Reader!Fresh(p), r) =
              LineAt(p, IF Len(p) = Lines THEN r + 1 ELSE r)
<1> DEFINE t == IF Len(p) = Lines THEN Tail(p) ELSE p
           q == Reader!Fresh(p)
<1>1. /\ p \in Seq(Seq(Letters)) /\ Len(p) \in Nat /\ 1 <= Len(p) /\ Len(p) <= Lines
      /\ Lines \in Nat /\ 1 <= Lines /\ VGA_WIDTH \in Nat
      /\ \A k \in 1 .. Len(p) : p[k] \in Seq(Letters) /\ Len(p[k]) <= VGA_WIDTH
  BY PaperHas, Height
<1>2. q = Append(t, << >>)
  BY DEF Reader!Fresh, Lines
<1>3. << >> \in Seq(Letters) /\ Len(<< >>) = 0
  OBVIOUS
<1>4. CASE Len(p) = Lines
  <2>1. t = Tail(p) /\ t \in Seq(Seq(Letters)) /\ Len(t) = Lines - 1
    BY <1>1, <1>4
  <2>2. \A k \in 1 .. Lines - 1 : t[k] = p[k + 1]
    BY <1>1, <1>4, <2>1
  <2> HIDE DEF t
  <2>3. /\ q \in Seq(Seq(Letters)) /\ Len(q) = Lines /\ q[Lines] = << >>
        /\ \A k \in 1 .. Lines - 1 : q[k] = t[k]
    BY <1>1, <1>2, <1>3, <2>1
  <2> HIDE DEF q
  <2>4. \A k \in 1 .. Lines - 1 : q[k] = p[k + 1]
    BY <2>2, <2>3
  <2>5. \A k \in 1 .. Lines : Len(q[k]) <= VGA_WIDTH
    <3> SUFFICES ASSUME NEW k \in 1 .. Lines PROVE Len(q[k]) <= VGA_WIDTH
      OBVIOUS
    <3>1. CASE k = Lines
      BY <1>1, <1>3, <2>3, <3>1
    <3>2. CASE k # Lines
      <4>1. k \in 1 .. Lines - 1 /\ k + 1 \in 1 .. Len(p)
        BY <1>1, <1>4, <3>2
      <4> QED  BY <1>1, <2>4, <4>1
    <3> QED  BY <3>1, <3>2
  <2>6. Paper(q) /\ Last(q) = << >>
    BY <1>1, <2>3, <2>5 DEF Paper, Last
  <2>7. ASSUME NEW r \in Rows PROVE LineAt(q, r) = LineAt(p, r + 1)
    <3>1. r \in 0 .. Lines
      BY Height
    <3>2. CASE r + 1 \in 1 .. Lines - 1
      <4>0. Len(q) = Lines /\ Len(p) = Lines /\ Lines \in Nat /\ r \in Nat
        BY <1>1, <1>4, <2>3, <3>1
      <4>1. r + 1 \in 1 .. Len(q) /\ r + 1 + 1 \in 1 .. Len(p)
        BY <3>2, <4>0
      <4>2. q[r + 1] = p[r + 1 + 1]
        BY <2>4, <3>2
      <4> QED  BY <4>1, <4>2 DEF LineAt
    <3>3. CASE r + 1 \notin 1 .. Lines - 1
      <4>1. r + 1 + 1 \notin 1 .. Len(p)
        BY <1>1, <1>4, <3>1, <3>3
      <4>2. r + 1 \in 1 .. Len(q) => q[r + 1] = << >>
        <5>1. r + 1 \in 1 .. Len(q) => r + 1 = Lines
          BY <1>1, <2>3, <3>1, <3>3
        <5> QED  BY <2>3, <5>1
      <4> QED  BY <4>1, <4>2 DEF LineAt
    <3> QED  BY <3>2, <3>3
  <2> QED  BY <1>4, <2>3, <2>6, <2>7 DEF q
<1>5. CASE Len(p) # Lines
  <2>1. t = p
    BY <1>5
  <2> HIDE DEF t
  <2>3. /\ q \in Seq(Seq(Letters)) /\ Len(q) = Len(p) + 1 /\ q[Len(p) + 1] = << >>
        /\ \A k \in 1 .. Len(p) : q[k] = p[k]
    BY <1>1, <1>2, <1>3, <2>1
  <2> HIDE DEF q
  <2>4. Len(p) + 1 <= Lines /\ \A k \in 1 .. Len(p) + 1 : k \in 1 .. Len(p) \/ k = Len(p) + 1
    BY <1>1, <1>5
  <2>5. \A k \in 1 .. Len(p) + 1 : Len(q[k]) <= VGA_WIDTH
    <3>1. \A k \in 1 .. Len(p) : Len(q[k]) <= VGA_WIDTH
      BY <1>1, <2>3
    <3>2. Len(q[Len(p) + 1]) <= VGA_WIDTH
      BY <1>1, <1>3, <2>3
    <3> QED  BY <2>4, <3>1, <3>2
  <2>6. Paper(q) /\ Last(q) = << >>
    BY <1>1, <2>3, <2>4, <2>5 DEF Paper, Last
  <2>7. ASSUME NEW r \in Rows PROVE LineAt(q, r) = LineAt(p, r)
    <3>1. r \in 0 .. Lines
      BY Height
    <3>2. CASE r + 1 \in 1 .. Len(p)
      <4>1. r + 1 \in 1 .. Len(q)
        BY <1>1, <2>3, <3>2
      <4> QED  BY <2>3, <3>2, <4>1 DEF LineAt
    <3>3. CASE r + 1 \notin 1 .. Len(p)
      <4>1. r + 1 \in 1 .. Len(q) => r + 1 = Len(p) + 1
        BY <1>1, <2>3, <3>1, <3>3
      <4> QED  BY <2>3, <3>3, <4>1 DEF LineAt
    <3> QED  BY <3>2, <3>3
  <2> QED  BY <1>5, <2>3, <2>6, <2>7 DEF q
<1> QED  BY <1>4, <1>5

----------------------------------------------------------------------------
\* A letter behind the last one.
LEMMA PutDepicts ==
  ASSUME NEW s, DOMAIN s = Cells, NEW p, Paper(p), Len(Last(p)) < VGA_WIDTH,
         Depicts(s, p), NEW c \in Letters,
         NEW y, y = Len(p) - 1, NEW x, x = Len(Last(p))
  PROVE  Depicts([s EXCEPT ![y * VGA_WIDTH + x] = c], Typed(p, c))
<1> DEFINE q == Typed(p, c)
           z == [s EXCEPT ![CellAt(y, x)] = c]
<1>1. /\ Len(q) = Len(p) /\ Last(q) = Append(Last(p), c)
      /\ \A k \in 1 .. Len(p) : k # Len(p) => q[k] = p[k]
  BY TypedIs
<1>2. /\ y \in Rows /\ x \in 0 .. VGA_WIDTH - 1 /\ Len(p) \in Nat /\ 1 <= Len(p)
      /\ Last(p) \in Seq(Letters) /\ Len(Last(p)) \in Nat
  BY PaperHas, Height
<1>3. z = [s EXCEPT ![y * VGA_WIDTH + x] = c]
  BY DEF CellAt
<1>4. ASSUME NEW r \in Rows, NEW k \in 0 .. VGA_WIDTH - 1
      PROVE  z[CellAt(r, k)] = IF r = y /\ k = x THEN c ELSE s[CellAt(r, k)]
  <2>1. z = [s EXCEPT ![CellAt(y, x)] = c]
    OBVIOUS
  <2>2. y \in Rows /\ x \in 0 .. VGA_WIDTH - 1
    BY <1>2
  <2> HIDE DEF z
  <2> QED  BY <2>1, <2>2, CellSet
<1> HIDE DEF q, z
<1>5. ASSUME NEW r \in Rows PROVE Shows(z, r, LineAt(q, r))
  <2>1. Shows(s, r, LineAt(p, r))
    BY DEF Depicts
  <2>2. CASE r = y
    <3>1. LineAt(p, r) = Last(p) /\ LineAt(q, r) = Append(Last(p), c)
      BY <1>1, <1>2, <2>2 DEF LineAt, Last
    <3> DEFINE l == Last(p)
               m == Append(l, c)
    <3>2. /\ l \in Seq(Letters) /\ Len(m) = Len(l) + 1 /\ m[x + 1] = c
          /\ \A k \in 1 .. Len(l) : m[k] = l[k]
      BY <1>2
    <3> HIDE DEF l, m
    <3>3. ASSUME NEW k \in 0 .. VGA_WIDTH - 1
          PROVE  IF k + 1 \in 1 .. Len(m) THEN z[CellAt(r, k)] = m[k + 1]
                 ELSE z[CellAt(r, k)] \notin Letters
      <4>1. IF k + 1 \in 1 .. Len(l) THEN s[CellAt(r, k)] = l[k + 1]
            ELSE s[CellAt(r, k)] \notin Letters
        BY <2>1, <3>1 DEF Shows, l
      <4>2. z[CellAt(r, k)] = IF k = x THEN c ELSE s[CellAt(r, k)]
        BY <1>4, <2>2
      <4>3. Len(l) = x /\ x \in Nat
        BY <1>2 DEF l
      <4>4. CASE k = x
        BY <3>2, <4>2, <4>3, <4>4
      <4>5. CASE k # x
        <5>1. (k + 1 \in 1 .. Len(m)) = (k + 1 \in 1 .. Len(l))
          BY <3>2, <4>3, <4>5
        <5> QED  BY <3>2, <4>1, <4>2, <4>5, <5>1
      <4> QED  BY <4>4, <4>5
    <3> QED  BY <3>1, <3>3 DEF Shows, m, l
  <2>3. CASE r # y
    <3>1. LineAt(q, r) = LineAt(p, r)
      BY <1>1, <1>2, <2>3 DEF LineAt, Rows
    <3>2. \A k \in 0 .. VGA_WIDTH - 1 : z[CellAt(r, k)] = s[CellAt(r, k)]
      BY <1>4, <2>3
    <3> QED  BY <2>1, <3>1, <3>2 DEF Shows
  <2> QED  BY <2>2, <2>3
<1> QED  BY <1>3, <1>5 DEF Depicts, q

\* The page without its last letter.
Erased(p) == [p EXCEPT ![Len(p)] = SubSeq(Last(p), 1, Len(Last(p)) - 1)]

LEMMA ErasedIs ==
  ASSUME NEW p, Paper(p), Len(Last(p)) # 0
  PROVE  /\ Paper(Erased(p)) /\ Len(Erased(p)) = Len(p)
         /\ Len(Last(Erased(p))) = Len(Last(p)) - 1
         /\ \A k \in 1 .. Len(Last(p)) - 1 : Last(Erased(p))[k] = Last(p)[k]
         /\ \A k \in 1 .. Len(p) : k # Len(p) => Erased(p)[k] = p[k]
<1> DEFINE n == Len(p)
           a == Last(p)
           m == Len(a) - 1
           b == SubSeq(a, 1, m)
           q == Erased(p)
<1>1. /\ p \in Seq(Seq(Letters)) /\ n \in Nat /\ 1 <= n /\ n <= Lines
      /\ a \in Seq(Letters) /\ a = p[n] /\ Len(a) <= VGA_WIDTH /\ VGA_WIDTH \in Nat
      /\ Len(a) \in Nat /\ Len(a) # 0
      /\ \A k \in 1 .. n : p[k] \in Seq(Letters) /\ Len(p[k]) <= VGA_WIDTH
  BY PaperHas, Height DEF Last
<1>2. m \in Nat /\ m <= VGA_WIDTH /\ m <= Len(a)
  BY <1>1
<1>3. q = [p EXCEPT ![n] = b]
  BY DEF Erased
<1> HIDE DEF a, m
<1>4. b \in Seq(Letters) /\ Len(b) = m /\ \A k \in 1 .. m : b[k] = a[k]
  BY <1>1, <1>2
<1> HIDE DEF b, q
<1>5. q \in Seq(Seq(Letters)) /\ Len(q) = n /\ q[n] = b
  BY <1>1, <1>3, <1>4
<1>6. \A k \in 1 .. n : k # n => q[k] = p[k]
  BY <1>1, <1>3
<1>7. \A k \in 1 .. n : Len(q[k]) <= VGA_WIDTH
  BY <1>1, <1>2, <1>4, <1>5, <1>6
<1>8. Last(q) = b
  BY <1>5 DEF Last
<1>9. Paper(q)
  BY <1>1, <1>5, <1>7 DEF Paper
<1> QED  BY <1>4, <1>5, <1>6, <1>8, <1>9 DEF a, q, m

LEMMA EraseDepicts ==
  ASSUME NEW s, DOMAIN s = Cells, NEW p, Paper(p), Len(Last(p)) # 0, Depicts(s, p),
         NEW y \in Nat, Len(p) = y + 1, NEW x \in Nat, Len(Last(p)) = x + 1
  PROVE  Depicts([s EXCEPT ![y * VGA_WIDTH + x] = SPACE], Erased(p))
<1> DEFINE q == Erased(p)
           z == [s EXCEPT ![CellAt(y, x)] = SPACE]
           l == Last(p)
           m == Last(Erased(p))
<1>1. /\ Len(q) = Len(p) /\ Len(m) = Len(l) - 1
      /\ \A k \in 1 .. Len(l) - 1 : m[k] = l[k]
      /\ \A k \in 1 .. Len(p) : k # Len(p) => q[k] = p[k]
  BY ErasedIs
<1>2. /\ y \in Rows /\ x \in 0 .. VGA_WIDTH - 1 /\ Len(p) \in Nat /\ 1 <= Len(p)
      /\ l \in Seq(Letters) /\ Len(l) \in Nat /\ Len(l) = x + 1
  BY PaperHas, Height
<1>3. z = [s EXCEPT ![y * VGA_WIDTH + x] = SPACE]
  BY DEF CellAt
<1>4. ASSUME NEW r \in Rows, NEW k \in 0 .. VGA_WIDTH - 1
      PROVE  z[CellAt(r, k)] = IF r = y /\ k = x THEN SPACE ELSE s[CellAt(r, k)]
  <2>1. y \in Rows /\ x \in 0 .. VGA_WIDTH - 1
    BY <1>2
  <2>2. CellAt(r, k) \in Cells
    BY Plane
  <2>3. CellAt(r, k) = CellAt(y, x) => r = y /\ k = x
    BY <2>1, Apart
  <2> DEFINE at == CellAt(r, k)
             j == CellAt(y, x)
  <2>4. at = j <=> r = y /\ k = x
    BY <2>3
  <2> HIDE DEF at, j
  <2>5. [s EXCEPT ![j] = SPACE][at] = IF at = j THEN SPACE ELSE s[at]
    BY <2>2 DEF at
  <2> QED  BY <2>4, <2>5 DEF at, j
<1>5. Len(p) = y + 1 /\ l = p[y + 1] /\ m = q[y + 1]
  BY <1>1, <1>2 DEF Last
<1> HIDE DEF q, z, l, m
<1>6. ASSUME NEW r \in Rows PROVE Shows(z, r, LineAt(q, r))
  <2>1. Shows(s, r, LineAt(p, r))
    BY DEF Depicts
  <2>2. CASE r = y
    <3>1. LineAt(p, r) = l /\ LineAt(q, r) = m
      BY <1>1, <1>2, <1>5, <2>2 DEF LineAt
    <3>3. ASSUME NEW k \in 0 .. VGA_WIDTH - 1
          PROVE  IF k + 1 \in 1 .. Len(m) THEN z[CellAt(r, k)] = m[k + 1]
                 ELSE z[CellAt(r, k)] \notin Letters
      <4>1. IF k + 1 \in 1 .. Len(l) THEN s[CellAt(r, k)] = l[k + 1]
            ELSE s[CellAt(r, k)] \notin Letters
        BY <2>1, <3>1 DEF Shows
      <4>2. z[CellAt(r, k)] = IF k = x THEN SPACE ELSE s[CellAt(r, k)]
        BY <1>4, <2>2
      <4>4. CASE k = x
        <5>1. k + 1 \notin 1 .. Len(m)
          BY <1>1, <1>2, <4>4
        <5> QED  BY <4>2, <4>4, <5>1, BlankIsNone
      <4>5. CASE k # x
        <5>1. (k + 1 \in 1 .. Len(m)) = (k + 1 \in 1 .. Len(l))
          BY <1>1, <1>2, <4>5
        <5>2. k + 1 \in 1 .. Len(m) => m[k + 1] = l[k + 1]
          BY <1>1
        <5> QED  BY <4>1, <4>2, <4>5, <5>1, <5>2
      <4> QED  BY <4>4, <4>5
    <3> QED  BY <3>1, <3>3 DEF Shows
  <2>3. CASE r # y
    <3>1. LineAt(q, r) = LineAt(p, r)
      BY <1>1, <1>2, <1>5, <2>3 DEF LineAt, Rows
    <3>2. \A k \in 0 .. VGA_WIDTH - 1 : z[CellAt(r, k)] = s[CellAt(r, k)]
      BY <1>4, <2>3
    <3> QED  BY <2>1, <3>1, <3>2 DEF Shows
  <2> QED  BY <2>2, <2>3
<1> QED  BY <1>3, <1>6 DEF Depicts, q

\* An erase in column 0 takes no letter, for there is none.
LEMMA EraseNothing ==
  ASSUME NEW s, DOMAIN s = Cells, NEW p, Paper(p), Len(Last(p)) = 0, Depicts(s, p),
         NEW y, y = Len(p) - 1
  PROVE  Depicts([s EXCEPT ![y * VGA_WIDTH + 0] = SPACE], p)
<1> DEFINE z == [s EXCEPT ![CellAt(y, 0)] = SPACE]
<1>1. y \in Rows /\ 0 \in 0 .. VGA_WIDTH - 1 /\ Len(p) = y + 1
  BY PaperHas, Height
<1>2. z = [s EXCEPT ![y * VGA_WIDTH + 0] = SPACE]
  BY DEF CellAt
<1>3. ASSUME NEW r \in Rows, NEW k \in 0 .. VGA_WIDTH - 1
      PROVE  z[CellAt(r, k)] = IF r = y /\ k = 0 THEN SPACE ELSE s[CellAt(r, k)]
  <2>1. z = [s EXCEPT ![CellAt(y, 0)] = SPACE]
    OBVIOUS
  <2> HIDE DEF z
  <2> QED  BY <2>1, <1>1, CellSet
<1> HIDE DEF z
<1>4. LineAt(p, y) = Last(p)
  BY <1>1 DEF LineAt, Last, Rows
<1>5. ASSUME NEW r \in Rows PROVE Shows(z, r, LineAt(p, r))
  <2>1. Shows(s, r, LineAt(p, r))
    BY DEF Depicts
  <2>2. r = y => \A k : k + 1 \notin 1 .. Len(LineAt(p, r))
    BY <1>4
  <2> QED  BY <1>3, <2>1, <2>2, BlankIsNone DEF Shows
<1> QED  BY <1>2, <1>5 DEF Depicts

----------------------------------------------------------------------------
\* The loop of the scroll, and what it has done in the end.
LEMMA LiftStarts ==
  ASSUME NEW s, NEW p, Depicts(s, p)
  PROVE  Lifted(s, p, 0)
BY DEF Depicts, Lifted, Rows

LEMMA LiftMoves ==
  ASSUME NEW s, NEW p, Paper(p), NEW n \in Rows, Lifted(s, p, n)
  PROVE  Lifted(Moved(s, n), p, n + 1)
<1> DEFINE z == Moved(s, n)
<1>1. ASSUME NEW r \in Rows, NEW k \in 0 .. VGA_WIDTH - 1
      PROVE  z[CellAt(r, k)] = IF r # n THEN s[CellAt(r, k)]
                               ELSE IF r + 1 \in Rows THEN s[CellAt(r + 1, k)] ELSE BLANK
  BY CellMoved
<1> HIDE DEF z
<1>2. ASSUME NEW r \in Rows
      PROVE  Shows(z, r, LineAt(p, IF r < n + 1 THEN r + 1 ELSE r))
  <2>1. r \in Nat /\ n \in Nat /\ Lines \in Nat /\ Rows = 0 .. Lines
    BY Height
  <2>2. CASE r # n
    <3>1. Shows(s, r, LineAt(p, IF r < n THEN r + 1 ELSE r))
      BY DEF Lifted
    <3>2. (r < n + 1) = (r < n)
      BY <2>1, <2>2
    <3>3. \A k \in 0 .. VGA_WIDTH - 1 : z[CellAt(r, k)] = s[CellAt(r, k)]
      BY <1>1, <2>2
    <3> QED  BY <3>1, <3>2, <3>3 DEF Shows
  <2>3. CASE r = n /\ r + 1 \in Rows
    <3>1. r < n + 1 /\ ~ (r + 1 < n)
      BY <2>1, <2>3
    <3>2. Shows(s, r + 1, LineAt(p, r + 1))
      BY <2>3, <3>1 DEF Lifted
    <3>3. \A k \in 0 .. VGA_WIDTH - 1 : z[CellAt(r, k)] = s[CellAt(r + 1, k)]
      BY <1>1, <2>3
    <3> QED  BY <3>1, <3>2, <3>3 DEF Shows
  <2>4. CASE r = n /\ r + 1 \notin Rows
    <3>1. r < n + 1 /\ r = Lines
      BY <2>1, <2>4
    <3>2. r + 1 + 1 \notin 1 .. Len(p)
      BY <2>1, <3>1, PaperHas
    <3>3. LineAt(p, r + 1) = << >>
      BY <3>2 DEF LineAt
    <3>4. \A k \in 0 .. VGA_WIDTH - 1 : z[CellAt(r, k)] = BLANK
      BY <1>1, <2>4
    <3>5. Len(<< >>) = 0 /\ \A k \in 0 .. VGA_WIDTH - 1 : k + 1 \notin 1 .. 0
      OBVIOUS
    <3> QED  BY <3>1, <3>3, <3>4, <3>5, BlankIsNone DEF Shows
  <2> QED  BY <2>2, <2>3, <2>4
<1> QED  BY <1>2 DEF Lifted, z

LEMMA LiftEnds ==
  ASSUME NEW s, NEW p, Paper(p), Len(p) = Lines, NEW n, n \notin Rows, n - 1 \in Rows,
         n \in Nat, Lifted(s, p, n)
  PROVE  Depicts(s, Reader!Fresh(p))
<1> SUFFICES ASSUME NEW r \in Rows
             PROVE  Shows(s, r, LineAt(Reader!Fresh(p), r))
  BY DEF Depicts
<1>1. r < n
  BY Height
<1>2. LineAt(Reader!Fresh(p), r) = LineAt(p, r + 1)
  BY FreshIs
<1> QED  BY <1>1, <1>2 DEF Lifted

\* A new line on a page that is not full changes nothing on the screen.
LEMMA FreshDepicts ==
  ASSUME NEW s, NEW p, Paper(p), Len(p) # Lines, Depicts(s, p)
  PROVE  Depicts(s, Reader!Fresh(p))
BY FreshIs DEF Depicts

\* The handler scrolls at once.
LEMMA ScrolledDepicts ==
  ASSUME NEW s, NEW p, Paper(p), Depicts(s, p), NEW n,
         n = IF Len(p) = Lines THEN 1 ELSE 0
  PROVE  Depicts(Scrolled(s, n), Reader!Fresh(p))
<1> SUFFICES ASSUME NEW r \in Rows
             PROVE  Shows(Scrolled(s, n), r, LineAt(Reader!Fresh(p), r))
  BY DEF Depicts
<1>1. CASE Len(p) # Lines
  <2>1. LineAt(Reader!Fresh(p), r) = LineAt(p, r) /\ Shows(s, r, LineAt(p, r)) /\ n = 0
    BY <1>1, FreshIs DEF Depicts
  <2>2. \A k \in 0 .. VGA_WIDTH - 1 : Scrolled(s, n)[CellAt(r, k)] = s[CellAt(r, k)]
    BY <2>1, CellScrolled
  <2> QED  BY <2>1, <2>2 DEF Shows
<1>2. CASE Len(p) = Lines
  <2> DEFINE z == Scrolled(s, n)
  <2>1. LineAt(Reader!Fresh(p), r) = LineAt(p, r + 1) /\ n = 1
    BY <1>2, FreshIs
  <2>2. \A k \in 0 .. VGA_WIDTH - 1 :
          z[CellAt(r, k)] = (IF r + 1 \in Rows THEN s[CellAt(r + 1, k)] ELSE BLANK)
    <3>1. z = Scrolled(s, 1)
      BY <2>1
    <3> HIDE DEF z
    <3> QED  BY <3>1, CellScrolled
  <2> HIDE DEF z
  <2>3. CASE r + 1 \in Rows
    <3>1. Shows(s, r + 1, LineAt(p, r + 1))
      BY <2>3 DEF Depicts
    <3> QED  BY <2>1, <2>2, <2>3, <3>1 DEF Shows, z
  <2>4. CASE r + 1 \notin Rows
    <3>1. r + 1 + 1 \notin 1 .. Len(p)
      BY <1>2, <2>4, Height
    <3>2. LineAt(p, r + 1) = << >>
      BY <3>1 DEF LineAt
    <3>3. Len(<< >>) = 0 /\ \A k \in 0 .. VGA_WIDTH - 1 : k + 1 \notin 1 .. 0
      OBVIOUS
    <3> QED  BY <2>1, <2>2, <2>4, <3>2, <3>3, BlankIsNone DEF Shows, z
  <2> QED  BY <2>3, <2>4
<1> QED  BY <1>1, <1>2
----------------------------------------------------------------------------
\* One thread goes on while the others are not in putchar.
LEMMA TextMove ==
  ASSUME Inv, Faithful, NEW t \in Thread, NEW c, call' = [call EXCEPT ![t] = c],
         \A u \in Thread : u # t => call[u].pc = "idle", c.pc # "idle",
         shown' = shown, NEW q \in Drafts(shown),
         Drafting(c, shown, q, screen', cursorX', cursorY')
  PROVE  Faithful'
<1>1. \A u \in Thread : call'[u] = IF u = t THEN c ELSE call[u]
  BY DEF Inv, CallOK
<1>2. Paper(shown') /\ Len(Last(shown')) < VGA_WIDTH
  BY DEF Faithful
<1>3. ~ \A u \in Thread : call'[u].pc = "idle"
  BY <1>1
<1>4. \A u \in Thread : call'[u].pc # "idle" =>
        \E z \in Drafts(shown') : Drafting(call'[u], shown', z, screen', cursorX', cursorY')
  BY <1>1
<1> QED  BY <1>2, <1>3, <1>4 DEF Faithful

\* It returns: the page is what the screen shows now.
LEMMA TextReturn ==
  ASSUME Inv, NEW t \in Thread, call' = [call EXCEPT ![t] = Idle],
         \A u \in Thread : u # t => call[u].pc = "idle",
         NEW z, Paper(z), Len(Last(z)) < VGA_WIDTH, Depicts(screen', z),
         Placed(z, cursorX', cursorY'), shown' = Page(screen', cursorY')
  PROVE  Faithful' /\ shown' = z
<1>1. \A u \in Thread : call'[u].pc = "idle"
  BY DEF Inv, CallOK, Idle, Place
<1>2. shown' = z
  BY PageIs DEF Placed
<1> QED  BY <1>1, <1>2 DEF Faithful

\* The thread that is in putchar, its draft, and the others, which are not.
LEMMA Writer ==
  ASSUME Inv, Solo, Faithful, ~overlap, NEW t \in Thread, call[t].pc # "idle"
  PROVE  /\ \A u \in Thread : u # t => call[u].pc = "idle"
         /\ Working(call[t], cursorX, cursorY)
         /\ \E q \in Drafts(shown) :
              Drafting(call[t], shown, q, screen, cursorX, cursorY)
BY DEF Solo, Alone, Faithful

LEMMA DraftsOf ==
  ASSUME Faithful, NEW q \in Drafts(shown)
  PROVE  /\ Paper(shown) /\ Len(Last(shown)) < VGA_WIDTH /\ Len(Last(shown)) \in Nat
         /\ Paper(q) /\ Len(q) = Len(shown) /\ Len(q) \in Nat /\ 1 <= Len(q)
         /\ Len(q) <= Lines /\ Len(Last(q)) \in Nat /\ Len(Last(q)) <= VGA_WIDTH
         /\ q # shown => \E c \in Letters : q = Typed(shown, c)
         /\ q # shown => Len(Last(q)) = Len(Last(shown)) + 1
<1>1. Paper(shown) /\ Len(Last(shown)) < VGA_WIDTH
  BY DEF Faithful
<1>2. /\ Paper(q) /\ Len(q) = Len(shown)
      /\ q # shown => \E c \in Letters : q = Typed(shown, c)
      /\ q # shown => Len(Last(q)) = Len(Last(shown)) + 1
  BY <1>1, DraftIs
<1> QED  BY <1>1, <1>2, PaperHas

\* The steps of the reader: a letter that leaves the line open, and an end of line.
LEMMA ReaderPuts ==
  ASSUME Faithful, NEW q \in Drafts(shown), q # shown, Len(Last(q)) < VGA_WIDTH,
         shown' = q, ~overlap'
  PROVE  Reader!Next
<1>1. PICK c \in Letters : q = Typed(shown, c)
  BY DraftsOf
<1>2. Len(Last(q)) = Len(Last(shown)) + 1
  BY DraftsOf
<1>3. Len(shown[Len(shown)]) + 1 # VGA_WIDTH
  BY <1>2, DraftsOf, Height DEF Last
<1>4. Reader!Put(c)
  BY <1>1, <1>3 DEF Reader!Put, Reader!Current, Typed, Last
<1> QED  BY <1>4 DEF Reader!Next

LEMMA ReaderBreaks ==
  ASSUME Faithful, NEW q \in Drafts(shown), q # shown => Len(Last(q)) = VGA_WIDTH,
         shown' = Reader!Fresh(q), ~overlap'
  PROVE  Reader!Next
<1>1. CASE q = shown
  <2>1. Reader!NewLine
    BY <1>1 DEF Reader!NewLine
  <2> QED  BY <2>1 DEF Reader!Next
<1>2. CASE q # shown
  <2>1. PICK c \in Letters : q = Typed(shown, c)
    BY <1>2, DraftsOf
  <2>2. Len(shown[Len(shown)]) + 1 = VGA_WIDTH
    BY <1>2, DraftsOf DEF Last
  <2>3. q = [shown EXCEPT ![Len(shown)] = Append(shown[Len(shown)], c)]
    BY <2>1 DEF Typed, Last
  <2>4. Reader!Put(c)
    BY <2>2, <2>3 DEF Reader!Put, Reader!Current
  <2> QED  BY <2>4 DEF Reader!Next
<1> QED  BY <1>1, <1>2

\* What a step does while prints do not overlap.
Reads == Faithful' /\ (Reader!Next \/ UNCHANGED shown)

LEMMA ReadPutchar ==
  ASSUME Inv, Solo, Faithful, NEW t \in Thread, NEW ch \in Letters \cup {NL},
         putchar(t, ch), ~overlap'
  PROVE  Reads
<1> DEFINE c == [pc |-> "get_y", ch |-> ch, x |-> cursorX, y |-> 0]
<1>1. /\ call' = [call EXCEPT ![t] = c] /\ shown' = shown
      /\ screen' = screen /\ cursorX' = cursorX /\ cursorY' = cursorY
  BY DEF putchar
<1>2. c.pc = "get_y"
  OBVIOUS
<1> HIDE DEF c
<1>3. \A u \in Thread : call[u].pc = "idle"
  <2>1. Busy = {}
    BY DEF putchar
  <2> QED  BY <2>1 DEF Busy, Idle, Place
<1>4. Depicts(screen, shown) /\ Placed(shown, cursorX, cursorY)
  BY <1>3 DEF Faithful
<1>5. shown \in Drafts(shown) /\ Drafting(c, shown, shown, screen', cursorX', cursorY')
  BY <1>1, <1>2, <1>4 DEF Drafts, Drafting, Falling
<1> QED  BY <1>1, <1>2, <1>3, <1>5, TextMove DEF Reads

LEMMA ReadLetter ==
  ASSUME Inv, Solo, Faithful, ~overlap, ~overlap', NEW t \in Thread,
         get_y(t) \/ write(t) \/ inc_x(t) \/ store_x(t) \/ wrap(t)
  PROVE  Reads
<1>0. /\ VGA_WIDTH \in Nat \ {0} /\ cursorX \in Nat
      /\ call[t] \in Calls /\ Sound(call[t])
  BY Height DEF Inv, CursorOK, CallOK, Sound
<1>01. call[t].pc # "idle"
  BY DEF get_y, write, inc_x, store_x, wrap, At
<1>02. /\ \A u \in Thread : u # t => call[u].pc = "idle"
       /\ Working(call[t], cursorX, cursorY)
  BY <1>01, Writer
<1>03. PICK q \in Drafts(shown) : Drafting(call[t], shown, q, screen, cursorX, cursorY)
  BY <1>01, Writer
<1>04. /\ Paper(shown) /\ Len(Last(shown)) < VGA_WIDTH /\ Len(Last(shown)) \in Nat
       /\ Paper(q) /\ Len(q) = Len(shown) /\ Len(q) \in Nat
       /\ Len(Last(q)) \in Nat /\ Len(Last(q)) <= VGA_WIDTH
  BY DraftsOf
<1>1. ASSUME get_y(t) PROVE Reads
  <2> DEFINE c == IF call[t].ch = NL THEN Place("next_line")
                  ELSE [call[t] EXCEPT !.pc = "write", !.y = cursorY]
  <2>1. /\ call' = [call EXCEPT ![t] = c] /\ call[t].pc = "get_y" /\ shown' = shown
        /\ screen' = screen /\ cursorX' = cursorX /\ cursorY' = cursorY
    BY <1>1 DEF get_y, At, Inv, CallOK
  <2>2. c.pc \in {"next_line", "write"}
    BY <1>0 DEF Place, Calls
  <2> HIDE DEF c
  <2>3. q = shown /\ Depicts(screen, q) /\ Placed(q, cursorX, cursorY)
    BY <1>03, <2>1 DEF Drafting
  <2>4. Drafting(c, shown, q, screen', cursorX', cursorY')
    BY <2>1, <2>2, <2>3 DEF Drafting, Placed, Falling
  <2>5. c.pc # "idle"
    BY <2>2
  <2> QED  BY <1>02, <2>1, <2>4, <2>5, TextMove DEF Reads
<1>2. ASSUME write(t) PROVE Reads
  <2> DEFINE c == Place("inc_x")
             ch == call[t].ch
             z == Typed(shown, ch)
  <2>1. /\ call' = [call EXCEPT ![t] = c] /\ call[t].pc = "write" /\ shown' = shown
        /\ cursorX' = cursorX /\ cursorY' = cursorY /\ c.pc = "inc_x"
        /\ screen' = IF Target(t) \in Cells THEN [screen EXCEPT ![Target(t)] = ch]
                     ELSE screen
    BY <1>2 DEF write, Goto, At, Place
  <2>2. ch \in Letters
    BY <1>0, <2>1 DEF Sound
  <2> HIDE DEF c, ch
  <2>3. q = shown /\ Depicts(screen, shown) /\ Placed(shown, cursorX, cursorY)
    BY <1>03, <2>1 DEF Drafting
  <2>4. Target(t) = cursorY * VGA_WIDTH + cursorX /\ OnPage(cursorX, cursorY)
    BY <1>02, <2>1 DEF Working, Target
  <2>5. screen' = [screen EXCEPT ![cursorY * VGA_WIDTH + cursorX] = ch]
    BY <2>1, <2>4, AboveLast
  <2>6. DOMAIN screen = Cells
    BY DEF Inv, ScreenOK
  <2>7. Depicts(screen', z)
    BY <1>04, <2>2, <2>3, <2>5, <2>6, PutDepicts DEF Placed
  <2>8. /\ Len(z) = Len(shown) /\ z # shown /\ Len(Last(z)) = Len(Last(shown)) + 1
        /\ z \in Drafts(shown)
    BY <1>04, <2>2, TypedIs DEF Drafts
  <2> HIDE DEF z
  <2>9. Placed(z, cursorX' + 1, cursorY')
    BY <2>1, <2>3, <2>8 DEF Placed
  <2>10. Drafting(c, shown, z, screen', cursorX', cursorY')
    BY <2>1, <2>7, <2>8, <2>9 DEF Drafting, Falling
  <2>11. c.pc # "idle"
    BY <2>1
  <2> QED  BY <1>02, <2>1, <2>8, <2>10, <2>11, TextMove DEF Reads
<1>3. ASSUME inc_x(t) PROVE Reads
  <2> DEFINE c == [Place("store_x") EXCEPT !.x = cursorX + 1]
  <2>1. /\ call' = [call EXCEPT ![t] = c] /\ call[t].pc = "inc_x" /\ shown' = shown
        /\ screen' = screen /\ cursorX' = cursorX /\ cursorY' = cursorY
        /\ c.pc = "store_x" /\ c.pc # "idle"
    BY <1>3 DEF inc_x, Load, At, Place
  <2> HIDE DEF c
  <2>2. Drafting(c, shown, q, screen', cursorX', cursorY')
    BY <1>03, <2>1 DEF Drafting, Falling
  <2> QED  BY <1>02, <2>1, <2>2, TextMove DEF Reads
<1>4. ASSUME store_x(t) PROVE Reads
  <2> DEFINE c == Place("wrap")
  <2>1. /\ call' = [call EXCEPT ![t] = c] /\ call[t].pc = "store_x" /\ shown' = shown
        /\ screen' = screen /\ cursorX' = call[t].x /\ cursorY' = cursorY
        /\ c.pc = "wrap" /\ c.pc # "idle"
    BY <1>4 DEF store_x, Goto, At, Place
  <2> HIDE DEF c
  <2>2. cursorX' = cursorX + 1
    BY <1>02, <2>1 DEF Working
  <2>3. Drafting(c, shown, q, screen', cursorX', cursorY')
    BY <1>03, <2>1, <2>2 DEF Drafting, Falling
  <2> QED  BY <1>02, <2>1, <2>3, TextMove DEF Reads
<1>5. ASSUME wrap(t) PROVE Reads
  <2>1. /\ call[t].pc = "wrap"
        /\ screen' = screen /\ cursorX' = cursorX /\ cursorY' = cursorY
    BY <1>5 DEF wrap, Goto, Return, At
  <2>2. q # shown /\ Depicts(screen, q) /\ Placed(q, cursorX, cursorY)
    BY <1>03, <2>1 DEF Drafting
  <2>3. CASE cursorX >= VGA_WIDTH
    <3> DEFINE c == Place("next_line")
    <3>1. /\ call' = [call EXCEPT ![t] = c] /\ shown' = shown
          /\ c.pc = "next_line" /\ c.pc # "idle"
      BY <1>5, <2>3 DEF wrap, Goto, Place
    <3> HIDE DEF c
    <3>2. Len(Last(q)) = VGA_WIDTH
      BY <1>0, <1>04, <2>2, <2>3 DEF Placed
    <3>3. Drafting(c, shown, q, screen', cursorX', cursorY')
      BY <2>1, <2>2, <3>1, <3>2 DEF Drafting, Placed, Falling
    <3> QED  BY <1>02, <3>1, <3>3, TextMove DEF Reads
  <2>4. CASE ~(cursorX >= VGA_WIDTH)
    <3>1. call' = [call EXCEPT ![t] = Idle] /\ shown' = Page(screen', cursorY')
      BY <1>5, <2>4 DEF wrap, Return, Show
    <3>2. Len(Last(q)) < VGA_WIDTH
      BY <1>0, <2>2, <2>4 DEF Placed
    <3>3. Faithful' /\ shown' = q
      BY <1>02, <1>04, <2>1, <2>2, <3>1, <3>2, TextReturn
    <3>4. Reader!Next
      BY <2>2, <3>2, <3>3, ReaderPuts
    <3> QED  BY <3>3, <3>4 DEF Reads
  <2> QED  BY <2>3, <2>4
<1> QED  BY <1>1, <1>2, <1>3, <1>4, <1>5

LEMMA ReadNextLine ==
  ASSUME Inv, Solo, Faithful, ~overlap, ~overlap', NEW t \in Thread,
         vga_next_line(t) \/ inc_y(t) \/ store_y(t)
  PROVE  Reads
<1>01. call[t].pc # "idle"
  BY DEF vga_next_line, inc_y, store_y, At
<1>02. /\ \A u \in Thread : u # t => call[u].pc = "idle"
       /\ Working(call[t], cursorX, cursorY)
  BY <1>01, Writer
<1>03. PICK q \in Drafts(shown) : Drafting(call[t], shown, q, screen, cursorX, cursorY)
  BY <1>01, Writer
<1>04. Paper(q) /\ Len(q) \in Nat
  BY DraftsOf
<1>05. /\ Depicts(screen, q) /\ cursorY = Len(q) - 1
       /\ q # shown => Len(Last(q)) = VGA_WIDTH
  BY <1>03 DEF vga_next_line, inc_y, store_y, At, Drafting
<1>1. ASSUME vga_next_line(t) PROVE Reads
  <2> DEFINE c == Place("inc_y")
  <2>1. /\ call' = [call EXCEPT ![t] = c] /\ shown' = shown
        /\ screen' = screen /\ cursorY' = cursorY /\ c.pc = "inc_y" /\ c.pc # "idle"
    BY <1>1 DEF vga_next_line, Goto, Place
  <2> HIDE DEF c
  <2>2. Drafting(c, shown, q, screen', cursorX', cursorY')
    BY <1>05, <2>1 DEF Drafting, Falling
  <2> QED  BY <1>02, <2>1, <2>2, TextMove DEF Reads
<1>2. ASSUME inc_y(t) PROVE Reads
  <2> DEFINE c == [Place("store_y") EXCEPT !.x = cursorY + 1]
  <2>1. /\ call' = [call EXCEPT ![t] = c] /\ shown' = shown
        /\ screen' = screen /\ cursorY' = cursorY /\ c.pc = "store_y" /\ c.pc # "idle"
    BY <1>2 DEF inc_y, Load, Place
  <2> HIDE DEF c
  <2>2. Drafting(c, shown, q, screen', cursorX', cursorY')
    BY <1>05, <2>1 DEF Drafting, Falling
  <2> QED  BY <1>02, <2>1, <2>2, TextMove DEF Reads
<1>3. ASSUME store_y(t) PROVE Reads
  <2> DEFINE c == Place("while")
  <2>1. /\ call' = [call EXCEPT ![t] = c] /\ call[t].pc = "store_y" /\ shown' = shown
        /\ screen' = screen /\ cursorY' = call[t].x /\ c.pc = "while" /\ c.pc # "idle"
    BY <1>3 DEF store_y, Goto, At, Place
  <2> HIDE DEF c
  <2>2. cursorY' = Len(q)
    BY <1>02, <1>04, <1>05, <2>1 DEF Working
  <2>3. \/ Depicts(screen', Reader!Fresh(q)) /\ cursorY' = Len(Reader!Fresh(q)) - 1
        \/ Depicts(screen', q) /\ cursorY' = Lines /\ Len(q) = Lines
    <3>1. CASE Len(q) = Lines
      BY <1>05, <2>1, <2>2, <3>1
    <3>2. CASE Len(q) # Lines
      <4>1. Len(Reader!Fresh(q)) = Len(q) + 1
        BY <1>04, <3>2, FreshIs
      <4>2. Depicts(screen, Reader!Fresh(q))
        BY <1>04, <1>05, <3>2, FreshDepicts
      <4> QED  BY <1>04, <2>1, <2>2, <4>1, <4>2
    <3> QED  BY <3>1, <3>2
  <2>4. Drafting(c, shown, q, screen', cursorX', cursorY')
    BY <1>05, <2>1, <2>3 DEF Drafting, Falling
  <2> QED  BY <1>02, <2>1, <2>4, TextMove DEF Reads
<1> QED  BY <1>1, <1>2, <1>3

LEMMA ReadScroll ==
  ASSUME Inv, Solo, Faithful, ~overlap, ~overlap', NEW t \in Thread,
         \/ vga_check_if_scroll_needed(t) \/ vga_scroll_screen(t)
         \/ dec_y(t) \/ store_dec_y(t)
  PROVE  Reads
<1>01. call[t].pc \in {"while"} \cup Falling /\ call[t].pc # "idle"
  BY DEF vga_check_if_scroll_needed, vga_scroll_screen, dec_y, store_dec_y, At, Falling
<1>02. /\ \A u \in Thread : u # t => call[u].pc = "idle"
       /\ Working(call[t], cursorX, cursorY)
  BY <1>01, Writer
<1>03. PICK q \in Drafts(shown) : Drafting(call[t], shown, q, screen, cursorX, cursorY)
  BY <1>01, Writer
<1>04. /\ Paper(q) /\ Len(q) \in Nat /\ Len(q) <= Lines
       /\ Lines \in Nat /\ 1 <= Lines /\ Rows = 0 .. Lines /\ VGA_WIDTH \in Nat \ {0}
  BY DraftsOf, Height
<1>05. q # shown => Len(Last(q)) = VGA_WIDTH
  BY <1>01, <1>03 DEF Drafting
<1>06. /\ Paper(Reader!Fresh(q)) /\ Last(Reader!Fresh(q)) = << >>
       /\ Len(Reader!Fresh(q)) = IF Len(q) = Lines THEN Lines ELSE Len(q) + 1
  BY <1>04, FreshIs
<1>1. ASSUME vga_check_if_scroll_needed(t) PROVE Reads
  <2>1. /\ call[t].pc = "while"
        /\ screen' = screen /\ cursorX' = cursorX /\ cursorY' = cursorY
    BY <1>1 DEF vga_check_if_scroll_needed, Load, Return, At
  <2>2. /\ cursorX = 0
        /\ \/ Depicts(screen, Reader!Fresh(q)) /\ cursorY = Len(Reader!Fresh(q)) - 1
           \/ Depicts(screen, q) /\ cursorY = Lines /\ Len(q) = Lines
    BY <1>02, <1>03, <2>1 DEF Working, Drafting
  <2>3. CASE cursorY >= VGA_HEIGHT - 1
    <3> DEFINE c == [Place("scroll") EXCEPT !.x = 0]
    <3>1. /\ call' = [call EXCEPT ![t] = c] /\ shown' = shown
          /\ c.pc = "scroll" /\ c.pc # "idle" /\ c.x = 0
      BY <1>1, <2>3 DEF vga_check_if_scroll_needed, Load, Place
    <3> HIDE DEF c
    <3>2. Depicts(screen, q) /\ Len(q) = Lines
      BY <1>04, <1>06, <2>2, <2>3 DEF Lines
    <3>3. Lifted(screen', q, 0) /\ 0 \in Rows
      BY <1>04, <2>1, <3>2, LiftStarts
    <3>4. Drafting(c, shown, q, screen', cursorX', cursorY')
      BY <1>05, <3>1, <3>2, <3>3 DEF Drafting, Falling
    <3> QED  BY <1>02, <3>1, <3>4, TextMove DEF Reads
  <2>4. CASE ~(cursorY >= VGA_HEIGHT - 1)
    <3>1. call' = [call EXCEPT ![t] = Idle] /\ shown' = Page(screen', cursorY')
      BY <1>1, <2>4 DEF vga_check_if_scroll_needed, Return, Show
    <3>2. Depicts(screen, Reader!Fresh(q)) /\ cursorY = Len(Reader!Fresh(q)) - 1
      BY <1>04, <2>2, <2>4 DEF Lines
    <3>3. Len(Last(Reader!Fresh(q))) = 0
      BY <1>06
    <3>4. Placed(Reader!Fresh(q), cursorX', cursorY')
      BY <2>1, <2>2, <3>2, <3>3 DEF Placed
    <3>5. Len(Last(Reader!Fresh(q))) < VGA_WIDTH
      BY <1>04, <3>3
    <3>6. Faithful' /\ shown' = Reader!Fresh(q)
      BY <1>02, <1>06, <2>1, <3>1, <3>2, <3>4, <3>5, TextReturn
    <3>7. Reader!Next
      BY <1>05, <3>6, ReaderBreaks
    <3> QED  BY <3>6, <3>7 DEF Reads
  <2> QED  BY <2>3, <2>4
<1>2. ASSUME vga_scroll_screen(t) PROVE Reads
  <2> DEFINE n == call[t].x
             c == IF n + 1 \in Rows THEN [call[t] EXCEPT !.x = n + 1] ELSE Place("dec_y")
  <2>1. /\ call' = [call EXCEPT ![t] = c] /\ call[t].pc = "scroll" /\ shown' = shown
        /\ screen' = Moved(screen, n)
    BY <1>2 DEF vga_scroll_screen, At, Inv, CallOK
  <2>2. n \in Rows /\ Lifted(screen, q, n) /\ Len(q) = Lines
    BY <1>03, <2>1 DEF Drafting, Falling
  <2>3. Lifted(screen', q, n + 1)
    BY <1>04, <2>1, <2>2, LiftMoves
  <2>4. CASE n + 1 \in Rows
    <3>1. c.pc = "scroll" /\ c.x = n + 1 /\ c.pc # "idle"
      BY <2>1, <2>4 DEF Inv, CallOK, Sound, Calls
    <3> HIDE DEF c, n
    <3>2. Drafting(c, shown, q, screen', cursorX', cursorY')
      BY <1>05, <2>2, <2>3, <2>4, <3>1 DEF Drafting, Falling
    <3> QED  BY <1>02, <2>1, <3>1, <3>2, TextMove DEF Reads
  <2>5. CASE n + 1 \notin Rows
    <3>1. c.pc = "dec_y" /\ c.pc # "idle"
      BY <2>5 DEF Place
    <3> HIDE DEF c, n
    <3>2. n + 1 - 1 \in Rows /\ n + 1 \in Nat
      BY <1>04, <2>2
    <3>3. Depicts(screen', Reader!Fresh(q))
      BY <1>04, <2>2, <2>3, <2>5, <3>2, LiftEnds
    <3>4. Drafting(c, shown, q, screen', cursorX', cursorY')
      BY <1>05, <2>2, <3>1, <3>3 DEF Drafting, Falling
    <3> QED  BY <1>02, <2>1, <3>1, <3>4, TextMove DEF Reads
  <2> QED  BY <2>4, <2>5
<1>3. ASSUME dec_y(t) PROVE Reads
  <2> DEFINE c == [Place("store_dec_y") EXCEPT !.x = cursorY - 1]
  <2>1. /\ call' = [call EXCEPT ![t] = c] /\ call[t].pc = "dec_y" /\ shown' = shown
        /\ screen' = screen /\ c.pc = "store_dec_y" /\ c.pc # "idle"
    BY <1>3 DEF dec_y, Load, At, Place
  <2> HIDE DEF c
  <2>2. Drafting(c, shown, q, screen', cursorX', cursorY')
    BY <1>03, <1>05, <2>1 DEF Drafting, Falling
  <2> QED  BY <1>02, <2>1, <2>2, TextMove DEF Reads
<1>4. ASSUME store_dec_y(t) PROVE Reads
  <2> DEFINE c == Place("while")
  <2>1. /\ call' = [call EXCEPT ![t] = c] /\ call[t].pc = "store_dec_y" /\ shown' = shown
        /\ screen' = screen /\ cursorY' = call[t].x /\ c.pc = "while" /\ c.pc # "idle"
    BY <1>4 DEF store_dec_y, Goto, At, Place
  <2> HIDE DEF c
  <2>2. Depicts(screen', Reader!Fresh(q)) /\ Len(q) = Lines
    BY <1>03, <2>1 DEF Drafting, Falling
  <2>3. cursorY' = Len(Reader!Fresh(q)) - 1
    BY <1>02, <1>06, <2>1, <2>2, ConsoleAssumption DEF Working, Lines
  <2>4. Drafting(c, shown, q, screen', cursorX', cursorY')
    BY <1>05, <2>1, <2>2, <2>3 DEF Drafting, Falling
  <2> QED  BY <1>02, <2>1, <2>4, TextMove DEF Reads
<1> QED  BY <1>1, <1>2, <1>3, <1>4

\* The handler between two prints.
LEMMA HandlerNewLine ==
  ASSUME NEW q, Paper(q), NEW w, w.y = Len(q) - 1, Depicts(w.screen, q)
  PROVE  /\ Depicts(NewLine(w).screen, Reader!Fresh(q))
         /\ Placed(Reader!Fresh(q), NewLine(w).x, NewLine(w).y)
<1> DEFINE n == IF w.y + 1 >= VGA_HEIGHT - 1 THEN w.y + 2 - (VGA_HEIGHT - 1) ELSE 0
<1>1. Len(q) \in Nat /\ Len(q) <= Lines /\ Lines \in Nat
  BY PaperHas, Height
<1>2. n = IF Len(q) = Lines THEN 1 ELSE 0
  BY <1>1, ConsoleAssumption DEF Lines
<1>3. NewLine(w) = [screen |-> Scrolled(w.screen, n), x |-> 0, y |-> w.y + 1 - n]
  BY DEF NewLine
<1> HIDE DEF n
<1>4. Depicts(Scrolled(w.screen, n), Reader!Fresh(q))
  BY <1>2, ScrolledDepicts
<1>5. /\ Len(Last(Reader!Fresh(q))) = 0
      /\ Len(Reader!Fresh(q)) = IF Len(q) = Lines THEN Lines ELSE Len(q) + 1
  BY FreshIs
<1>6. w.y + 1 - n = Len(Reader!Fresh(q)) - 1
  BY <1>1, <1>2, <1>5
<1> QED  BY <1>3, <1>4, <1>5, <1>6 DEF Placed

LEMMA ReadHandler ==
  ASSUME Inv, Solo, Faithful, ~overlap, ~overlap',
         (\E ch \in Letters \cup {NL} : keyboard(ch)) \/ keyboard_erase
  PROVE  Reads
<1>1. /\ \A u \in Thread : call[u].pc = "idle"
      /\ call' = call /\ shown' = Page(screen', cursorY')
  <2>1. Busy = {} /\ call' = call
    BY DEF keyboard, keyboard_erase
  <2>2. Show(TRUE)
    BY <2>1 DEF keyboard, keyboard_erase, Show
  <2>3. \A u \in Thread : call[u].pc = "idle"
    BY <2>1 DEF Busy, Idle, Place
  <2> QED  BY <2>1, <2>2, <2>3 DEF Show
<1>2. Depicts(screen, shown) /\ Placed(shown, cursorX, cursorY)
  BY <1>1 DEF Faithful
<1>3. /\ Paper(shown) /\ Len(Last(shown)) < VGA_WIDTH /\ Len(Last(shown)) \in Nat
      /\ VGA_WIDTH \in Nat \ {0} /\ DOMAIN screen = Cells /\ Len(shown) \in Nat
  BY PaperHas, Height DEF Faithful, Inv, ScreenOK
<1>4. ASSUME NEW z, Paper(z), Len(Last(z)) < VGA_WIDTH, Depicts(screen', z),
             Placed(z, cursorX', cursorY')
      PROVE  Faithful' /\ shown' = z
  <2>1. shown' = z
    BY <1>1, <1>4, PageIs DEF Placed
  <2> QED  BY <1>1, <1>4, <2>1 DEF Faithful
<1>5. ASSUME NEW ch \in Letters \cup {NL}, keyboard(ch) PROVE Reads
  <2>1. Now.screen = screen /\ Now.x = cursorX /\ Now.y = cursorY
    BY DEF Now
  <2> DEFINE w == IF ch = NL THEN NewLine(Now) ELSE Letter(Now, ch)
  <2>2. screen' = w.screen /\ cursorX' = w.x /\ cursorY' = w.y
    BY <1>5 DEF keyboard, Now
  <2>3. CASE ch = NL
    <3>1. Depicts(screen', Reader!Fresh(shown)) /\ Placed(Reader!Fresh(shown), cursorX', cursorY')
      BY <1>2, <1>3, <2>1, <2>2, <2>3, HandlerNewLine DEF Placed
    <3>2. Paper(Reader!Fresh(shown)) /\ Len(Last(Reader!Fresh(shown))) < VGA_WIDTH
      BY <1>3, FreshIs
    <3>3. Faithful' /\ shown' = Reader!Fresh(shown)
      BY <1>4, <3>1, <3>2
    <3>4. Reader!Next
      BY <3>3, ReaderBreaks DEF Drafts
    <3> QED  BY <3>3, <3>4 DEF Reads
  <2>4. CASE ch # NL
    <3> DEFINE at == cursorY * VGA_WIDTH + cursorX
               s == IF at \in Cells THEN [screen EXCEPT ![at] = ch] ELSE screen
               v == [screen |-> s, x |-> cursorX + 1, y |-> cursorY]
               q == Typed(shown, ch)
    <3>1. w = IF v.x >= VGA_WIDTH THEN NewLine(v) ELSE v
      BY <2>1, <2>4 DEF Letter
    <3>2. v.screen = s /\ v.x = cursorX + 1 /\ v.y = cursorY
      OBVIOUS
    <3>3. at \in Cells
      BY <1>1, AboveLast DEF Solo, Alone
    <3>4. s = [screen EXCEPT ![cursorY * VGA_WIDTH + cursorX] = ch]
      BY <3>3
    <3> HIDE DEF s, v
    <3>5. ch \in Letters
      BY <2>4
    <3>6. Depicts(s, q)
      BY <1>2, <1>3, <3>4, <3>5, PutDepicts DEF Placed
    <3>7. /\ Paper(q) /\ Len(q) = Len(shown) /\ q # shown /\ q \in Drafts(shown)
          /\ Len(Last(q)) = Len(Last(shown)) + 1
      BY <1>3, <3>5, TypedIs DEF Drafts
    <3> HIDE DEF q, at
    <3>8. cursorX = Len(Last(shown)) /\ cursorY = Len(shown) - 1
      BY <1>2 DEF Placed
    <3>9. CASE cursorX + 1 >= VGA_WIDTH
      <4>1. w = NewLine(v)
        BY <3>1, <3>2, <3>9
      <4> HIDE DEF w
      <4>2. /\ Depicts(screen', Reader!Fresh(q))
            /\ Placed(Reader!Fresh(q), cursorX', cursorY')
        BY <2>2, <3>2, <3>6, <3>7, <3>8, <4>1, HandlerNewLine
      <4>3. Paper(Reader!Fresh(q)) /\ Len(Last(Reader!Fresh(q))) < VGA_WIDTH
        BY <1>3, <3>7, FreshIs
      <4>4. Faithful' /\ shown' = Reader!Fresh(q)
        BY <1>4, <4>2, <4>3
      <4>5. Len(Last(q)) = VGA_WIDTH
        BY <1>3, <3>7, <3>8, <3>9
      <4>6. Reader!Next
        BY <3>7, <4>4, <4>5, ReaderBreaks
      <4> QED  BY <4>4, <4>6 DEF Reads
    <3>10. CASE ~ (cursorX + 1 >= VGA_WIDTH)
      <4>1. w = v
        BY <3>1, <3>2, <3>10
      <4> HIDE DEF w
      <4>2. Depicts(screen', q) /\ Placed(q, cursorX', cursorY')
        BY <2>2, <3>2, <3>6, <3>7, <3>8, <4>1 DEF Placed
      <4>3. Len(Last(q)) < VGA_WIDTH
        BY <1>3, <3>7, <3>8, <3>10
      <4>4. Faithful' /\ shown' = q
        BY <1>4, <3>7, <4>2, <4>3
      <4>5. Reader!Next
        BY <3>7, <4>3, <4>4, ReaderPuts
      <4> QED  BY <4>4, <4>5 DEF Reads
    <3> QED  BY <3>9, <3>10
  <2> QED  BY <2>3, <2>4
<1>6. ASSUME keyboard_erase PROVE Reads
  <2>1. cursorX' = Left(cursorX) /\ cursorY' = cursorY
    BY <1>6 DEF keyboard_erase
  <2>2. cursorX = Len(Last(shown)) /\ cursorY = Len(shown) - 1
    BY <1>2 DEF Placed
  <2>3. OnPage(cursorX, cursorY)
    BY <1>1 DEF Solo, Alone
  <2>4. OnPage(Left(cursorX), cursorY)
    BY <2>3, Threads DEF OnPage, Left
  <2>5. screen' = [screen EXCEPT ![cursorY * VGA_WIDTH + Left(cursorX)] = SPACE]
    BY <1>6, <2>4, AboveLast DEF keyboard_erase, ErasedCell
  <2>6. CASE cursorX = 0
    <3>1. Left(cursorX) = 0
      BY <2>6 DEF Left
    <3>2. Depicts(screen', shown)
      BY <1>2, <1>3, <2>2, <2>5, <2>6, <3>1, EraseNothing
    <3>3. Placed(shown, cursorX', cursorY')
      BY <2>1, <2>2, <2>6, <3>1 DEF Placed
    <3> QED  BY <1>3, <1>4, <3>2, <3>3 DEF Reads
  <2>7. CASE cursorX # 0
    <3> DEFINE q == Erased(shown)
    <3>1. Left(cursorX) = Len(Last(shown)) - 1 /\ Len(Last(shown)) # 0
      BY <1>3, <2>2, <2>7 DEF Left
    <3>2. /\ Left(cursorX) \in Nat /\ Len(Last(shown)) = Left(cursorX) + 1
          /\ cursorY \in Nat /\ Len(shown) = cursorY + 1
      BY <1>3, <2>2, <3>1, PaperHas
    <3>0. Depicts(screen', q)
      BY <1>2, <1>3, <2>5, <3>1, <3>2, EraseDepicts
    <3>3. Paper(q) /\ Len(q) = Len(shown) /\ Len(Last(q)) = Len(Last(shown)) - 1
      BY <1>3, <3>1, ErasedIs
    <3>4. q = [shown EXCEPT ![Len(shown)] = SubSeq(@, 1, Len(@) - 1)]
      BY DEF Erased, Last
    <3> HIDE DEF q
    <3>5. Placed(q, cursorX', cursorY') /\ Len(Last(q)) < VGA_WIDTH
      BY <1>3, <2>1, <2>2, <3>1, <3>3 DEF Placed
    <3>6. Faithful' /\ shown' = q
      BY <1>4, <3>0, <3>3, <3>5
    <3>7. Reader!Current # << >>
      BY <3>1 DEF Reader!Current, Last
    <3>8. Reader!Erase
      BY <3>4, <3>6, <3>7 DEF Reader!Erase
    <3>9. Reader!Next
      BY <3>8 DEF Reader!Next
    <3> QED  BY <3>6, <3>9 DEF Reads
  <2> QED  BY <2>6, <2>7
<1> QED  BY <1>5, <1>6

----------------------------------------------------------------------------
LEMMA TextInit == Init => Text /\ Reader!Init
<1> SUFFICES ASSUME Init PROVE Text /\ Reader!Init
  OBVIOUS
<1> DEFINE p == << << >> >>
<1>1. /\ p \in Seq(Seq(Letters)) /\ Len(p) = 1 /\ p[1] = << >> /\ Len(<< >>) = 0
  OBVIOUS
<1>2. shown = p /\ overlap = FALSE /\ screen = [at \in Cells |-> BLANK]
  BY DEF Init
<1>3. cursorX = 0 /\ cursorY = 0 /\ \A t \in Thread : call[t].pc = "idle"
  BY DEF Init, Idle, Place
<1>4. Reader!Init
  BY <1>2 DEF Reader!Init
<1> HIDE DEF p
<1>5. Paper(p) /\ Last(p) = << >>
  BY <1>1, Height DEF Paper, Last
<1>6. \A r \in Rows : LineAt(p, r) = << >>
  BY <1>1 DEF LineAt, Rows
<1>7. \A r \in Rows, k \in 0 .. VGA_WIDTH - 1 : screen[CellAt(r, k)] = BLANK
  BY <1>2, Plane
<1>8. \A k \in Nat : k + 1 \notin 1 .. 0
  OBVIOUS
<1>9. Depicts(screen, p)
  BY <1>1, <1>6, <1>7, <1>8, BlankIsNone DEF Depicts, Shows
<1>10. Len(Last(p)) < VGA_WIDTH /\ Placed(p, cursorX, cursorY)
  BY <1>1, <1>3, <1>5, Height DEF Placed
<1>11. Faithful
  BY <1>2, <1>3, <1>5, <1>9, <1>10 DEF Faithful
<1> QED  BY <1>4, <1>11 DEF Text

\* A step of the console is one of the reader's, or the end of what he relies on.
LEMMA TextNext ==
  ASSUME Inv, Solo, Text, [Next]_vars
  PROVE  Text' /\ [~overlap => Reader!Next \/ Reader!Overlap]_<<shown, ~overlap>>
<1>1. CASE UNCHANGED vars
  BY <1>1 DEF vars, Text, Faithful
<1>2. CASE Next
  <2>1. overlap \in BOOLEAN /\ (overlap => overlap')
    <3>1. ASSUME NEW t \in Thread, Step(t) PROVE overlap => overlap'
      BY <3>1 DEF Step, putchar, get_y, write, inc_x, store_x, wrap, vga_next_line, inc_y,
         store_y, vga_check_if_scroll_needed, vga_scroll_screen, dec_y, store_dec_y,
         Goto, Load, Return
    <3>2. ASSUME (\E ch \in Letters \cup {NL} : keyboard(ch)) \/ keyboard_erase
          PROVE  overlap => overlap'
      BY <3>2 DEF keyboard, keyboard_erase
    <3>3. overlap \in BOOLEAN
      BY DEF Inv, OverlapOK
    <3> QED  BY <1>2, <3>1, <3>2, <3>3 DEF Next
  <2>2. CASE overlap
    BY <2>1, <2>2 DEF Text
  <2>3. CASE ~overlap /\ overlap'
    BY <2>3 DEF Text, Reader!Overlap
  <2>4. CASE ~overlap /\ ~overlap'
    <3>1. Faithful
      BY <2>4 DEF Text
    <3>2. ASSUME NEW t \in Thread, Step(t) PROVE Reads
      BY <2>4, <3>1, <3>2, ReadPutchar, ReadLetter, ReadNextLine, ReadScroll DEF Step
    <3>3. ASSUME (\E ch \in Letters \cup {NL} : keyboard(ch)) \/ keyboard_erase
          PROVE  Reads
      BY <2>4, <3>1, <3>3, ReadHandler
    <3>4. Reads
      BY <1>2, <3>2, <3>3 DEF Next
    <3>5. overlap' = overlap
      BY <2>1, <2>4, InvNext DEF Inv, OverlapOK
    <3> QED  BY <3>4, <3>5 DEF Reads, Text
  <2> QED  BY <2>2, <2>3, <2>4
<1> QED  BY <1>1, <1>2

\* As long as no two prints overlap, the screen is a page to which letters and lines
\* are added at the end and which moves up when it is full: on a screen of any size,
\* whatever is printed, and wherever a tick stops the thread that prints.
THEOREM ReaderImplementation == Spec => ImplementsTerminal
<1>1. Init => Inv /\ Solo /\ Text /\ Reader!Init
  BY InvInit, SoloInit, TextInit
<1>2. Inv /\ Solo /\ Text /\ [Next]_vars =>
        /\ Inv' /\ Solo' /\ Text'
        /\ [~overlap => Reader!Next \/ Reader!Overlap]_<<shown, ~overlap>>
  BY InvNext, SoloNext, TextNext
<1> QED  BY <1>1, <1>2, PTL DEF Spec, ImplementsTerminal, Reader!Spec, Reader!pageVars

----------------------------------------------------------------------------
(***************************************************************************)
(* The numbers that printf puts on the console.  What the recursive        *)
(* functions of Conversions compute follows by induction over the naturals *)
(* in the form of sets: a set that has 0, and n + 1 with n, has them all.  *)
(***************************************************************************)
\* Every set of numbers that has members has a least one.
LEMMA LeastNatural ==
  ASSUME NEW T \in SUBSET Nat, T # {}
  PROVE  \E n \in T : \A m \in T : n <= m
<1> DEFINE R == OpToRel(<, Nat)
<1>1. \A n, m \in Nat : m < n => <<m, n>> \in R
  BY DEF OpToRel
<1>2. IsWellFoundedOn(R, Nat)
  BY NatLessThanWellFounded
<1> HIDE DEF R
<1>3. PICK n \in T : \A m \in T : ~ (<<m, n>> \in R)
  BY <1>2, WFMin
<1>4. ASSUME NEW m \in T
      PROVE  n <= m
  <2>1. m \in Nat /\ n \in Nat /\ ~ (m < n)
    BY <1>1, <1>3
  <2> QED  BY <2>1
<1> QED  BY <1>4

\* Induction, for sets: the form of it that a prover can use.
LEMMA SetInduction ==
  ASSUME NEW S, 0 \in S, \A n \in Nat : n \in S => n + 1 \in S
  PROVE  \A n \in Nat : n \in S
<1> DEFINE T == {n \in Nat : n \notin S}
<1> SUFFICES ASSUME T # {}
             PROVE  FALSE
  OBVIOUS
<1>1. PICK n \in T : \A m \in T : n <= m
  BY LeastNatural
<1>2. n # 0 /\ n \in Nat
  BY <1>1
<1>3. n - 1 \in Nat /\ n - 1 \notin T
  BY <1>1, <1>2
<1> QED  BY <1>1, <1>2, <1>3

\* The solutions of a recursion over the numbers up to n.
Solutions(n, D, c, T) ==
  {g \in [0 .. n -> D] : g[0] = c /\ \A k \in 1 .. n : g[k] = T[k][g[k - 1]]}

\* There is one: each value is made from the one before.
LEMMA Iteration ==
  ASSUME NEW n \in Nat, NEW D, NEW c \in D, NEW T,
         \A k \in 1 .. n : \A x \in D : T[k][x] \in D
  PROVE  Solutions(n, D, c, T) # {}
<1> DEFINE Is(g, m) == /\ g \in [0 .. m -> D] /\ g[0] = c
                       /\ \A k \in 1 .. m : g[k] = T[k][g[k - 1]]
           S == {m \in Nat : m <= n => \E g : Is(g, m)}
<1>1. 0 \in S
  <2>1. Is([k \in 0 .. 0 |-> c], 0)
    OBVIOUS
  <2> QED  BY <2>1
<1>2. ASSUME NEW m \in Nat, m \in S, m + 1 <= n
      PROVE  \E g : Is(g, m + 1)
  <2>1. PICK g : Is(g, m)
    BY <1>2
  <2> DEFINE h == [k \in 0 .. m + 1 |-> IF k = m + 1 THEN T[m + 1][g[m]] ELSE g[k]]
  <2>2. g[m] \in D /\ m + 1 \in 1 .. n
    BY <1>2, <2>1
  <2>3. h \in [0 .. m + 1 -> D] /\ h[0] = c
    BY <2>1, <2>2
  <2>4. ASSUME NEW k \in 1 .. m + 1
        PROVE  h[k] = T[k][h[k - 1]]
    <3>1. CASE k = m + 1
      BY <3>1
    <3>2. CASE k # m + 1
      <4>1. k \in 1 .. m /\ k - 1 \in 0 .. m
        BY <3>2
      <4>2. h[k] = g[k] /\ h[k - 1] = g[k - 1]
        BY <4>1
      <4> QED  BY <2>1, <4>1, <4>2
    <3> QED  BY <3>1, <3>2
  <2> HIDE DEF h
  <2>5. Is(h, m + 1)
    BY <2>3, <2>4
  <2> HIDE DEF Is
  <2> QED  BY <2>5
<1>3. n \in S
  <2> HIDE DEF Is
  <2>1. \A m \in Nat : m \in S => m + 1 \in S
    BY <1>2
  <2> HIDE DEF S
  <2> QED  BY <1>1, <2>1, SetInduction
<1>4. PICK g : Is(g, n)
  BY <1>3
<1>5. g \in Solutions(n, D, c, T)
  BY <1>4 DEF Solutions
<1> QED  BY <1>5

\* The power as the last value of such a recursion.
LEMMA PowerIs ==
  ASSUME NEW b \in Nat \ {0}, NEW n \in Nat
  PROVE  \E g \in [0 .. n -> Nat \ {0}] :
           /\ g[0] = 1 /\ g[n] = Power(b, n)
           /\ \A k \in 1 .. n : g[k] = b * g[k - 1]
<1> DEFINE D == Nat \ {0}
           T == [k \in 1 .. n |-> [x \in D |-> b * x]]
           F(f) == [k \in 0 .. n |-> IF k = 0 THEN 1 ELSE b * f[k - 1]]
           p == CHOOSE f : f = F(f)
<1>1. PICK g \in [0 .. n -> D] : g[0] = 1 /\ \A k \in 1 .. n : g[k] = T[k][g[k - 1]]
  <2> DEFINE one == 1
  <2>1. one \in D /\ \A k \in 1 .. n : \A x \in D : T[k][x] \in D
    OBVIOUS
  <2> HIDE DEF D, T, one
  <2>2. Solutions(n, D, one, T) # {}
    BY <2>1, Iteration
  <2> QED  BY <2>2 DEF one, Solutions
<1>2. \A k \in 1 .. n : g[k] = b * g[k - 1]
  <2> SUFFICES ASSUME NEW k \in 1 .. n
               PROVE  g[k] = b * g[k - 1]
    OBVIOUS
  <2>1. g[k - 1] \in D
    BY <1>1
  <2> QED  BY <1>1, <2>1
<1>3. g = F(g)
  BY <1>1, <1>2
<1>4. p = F(p)
  <2> HIDE DEF F
  <2> QED  BY <1>3
<1>5. Power(b, n) = p[n]
  BY DEF Power
<1> HIDE DEF p
<1>6. p[0] = 1 /\ \A k \in 1 .. n : p[k] = b * p[k - 1]
  <2>1. \A k \in 0 .. n : p[k] = IF k = 0 THEN 1 ELSE b * p[k - 1]
    BY <1>4
  <2>2. 0 \in 0 .. n /\ \A k \in 1 .. n : k \in 0 .. n /\ k # 0
    OBVIOUS
  <2> QED  BY <2>1, <2>2
<1>7. p[n] = g[n]
  <2> DEFINE S == {m \in Nat : m <= n => p[m] = g[m]}
  <2>1. 0 \in S
    BY <1>1, <1>6
  <2>2. ASSUME NEW m \in Nat, m \in S, m + 1 <= n
        PROVE  p[m + 1] = g[m + 1]
    <3>1. m + 1 \in 1 .. n /\ m + 1 - 1 = m /\ p[m] = g[m]
      BY <2>2
    <3> QED  BY <1>2, <1>6, <3>1
  <2>3. \A m \in Nat : m \in S => m + 1 \in S
    BY <2>2
  <2> HIDE DEF S
  <2>4. n \in S
    BY <2>1, <2>3, SetInduction
  <2> QED  BY <2>4 DEF S
<1> QED  BY <1>1, <1>2, <1>5, <1>7

\* The laws of the power.
LEMMA Powers ==
  ASSUME NEW b \in Nat \ {0}, NEW n \in Nat
  PROVE  /\ Power(b, n) \in Nat \ {0}
         /\ Power(b, 0) = 1
         /\ Power(b, n + 1) = b * Power(b, n)
<1>1. PICK g \in [0 .. n -> Nat \ {0}] :
        /\ g[0] = 1 /\ g[n] = Power(b, n)
        /\ \A k \in 1 .. n : g[k] = b * g[k - 1]
  BY PowerIs
<1>2. PICK h \in [0 .. n + 1 -> Nat \ {0}] :
        /\ h[0] = 1 /\ h[n + 1] = Power(b, n + 1)
        /\ \A k \in 1 .. n + 1 : h[k] = b * h[k - 1]
  <2>1. n + 1 \in Nat
    OBVIOUS
  <2> QED  BY <2>1, PowerIs
<1>3. Power(b, 0) = 1
  <2>1. 0 \in Nat
    OBVIOUS
  <2> QED  BY <2>1, PowerIs
<1> DEFINE S == {m \in Nat : m <= n => h[m] = g[m]}
<1>4. 0 \in S
  BY <1>1, <1>2
<1>5. ASSUME NEW m \in Nat, m \in S, m + 1 <= n
      PROVE  h[m + 1] = g[m + 1]
  <2>1. m + 1 \in 1 .. n /\ m + 1 \in 1 .. n + 1 /\ m + 1 - 1 = m /\ h[m] = g[m]
    BY <1>5
  <2> QED  BY <1>1, <1>2, <2>1
<1>6. \A m \in Nat : m \in S => m + 1 \in S
  BY <1>5
<1>7. n \in S
  <2> HIDE DEF S
  <2> QED  BY <1>4, <1>6, SetInduction
<1>8. n + 1 \in 1 .. n + 1 /\ n + 1 - 1 = n /\ h[n] = g[n]
  BY <1>7
<1> QED  BY <1>1, <1>2, <1>3, <1>8

\* Those of a machine word are positive.
LEMMA TwoPowers ==
  ASSUME NEW n \in Nat
  PROVE  Power(2, n) \in Nat \ {0}
<1>1. 2 \in Nat \ {0}
  OBVIOUS
<1> QED  BY <1>1, Powers

\* A larger power of two has a larger exponent.
LEMMA PowersGrow ==
  ASSUME NEW m \in Nat, NEW n \in Nat, Power(2, m) < Power(2, n)
  PROVE  m < n
<1> DEFINE S == {k \in Nat : Power(2, n) <= Power(2, n + k)}
<1>1. 0 \in S
  BY Powers
<1>2. ASSUME NEW k \in Nat, k \in S
      PROVE  k + 1 \in S
  <2> DEFINE j == n + k
  <2>1. j \in Nat /\ j + 1 = n + (k + 1) /\ Power(2, n) <= Power(2, j)
    BY <1>2
  <2> HIDE DEF j
  <2>2. Power(2, j + 1) = 2 * Power(2, j) /\ Power(2, j) \in Nat /\ Power(2, n) \in Nat
    BY <2>1, Powers
  <2>3. Power(2, n) <= Power(2, j + 1)
    BY <2>1, <2>2
  <2> QED  BY <2>1, <2>3
<1>3. \A k \in Nat : k \in S
  <2> HIDE DEF S
  <2> QED  BY <1>1, <1>2, SetInduction
<1>4. SUFFICES ASSUME n <= m
               PROVE  FALSE
  OBVIOUS
<1>5. m - n \in Nat /\ n + (m - n) = m
  BY <1>4
<1>6. Power(2, n) <= Power(2, m)
  <2>1. m - n \in S
    BY <1>3, <1>5
  <2> QED  BY <1>5, <2>1
<1> QED  BY <1>6, Powers

\* A digit in base b is worth so many bits, and not fewer.
Bits(b) == CASE b = 2 -> 1 [] b = 10 -> 3 [] b = 16 -> 4

Bases == {2, 10, 16}

\* As many digits as n tell at least that many bits apart.
LEMMA BitsOfDigits ==
  ASSUME NEW b \in Bases, NEW n \in Nat
  PROVE  /\ Bits(b) \in 1 .. 4
         /\ Power(2, Bits(b) * n) <= Power(b, n)
<1>1. /\ Power(2, 0) = 1 /\ Power(2, 1) = 2 * Power(2, 0) /\ Power(2, 2) = 2 * Power(2, 1)
      /\ Power(2, 3) = 2 * Power(2, 2) /\ Power(2, 4) = 2 * Power(2, 3)
  BY Powers, 0 + 1 = 1, 1 + 1 = 2, 2 + 1 = 3, 3 + 1 = 4
<1>2. Bits(b) \in 1 .. 4 /\ b \in Nat \ {0}
  BY DEF Bits, Bases
<1>3. ASSUME NEW k \in Nat
      PROVE  Power(2, k + Bits(b)) <= b * Power(2, k)
  <2>1. /\ Power(2, k + 1) = 2 * Power(2, k)
        /\ Power(2, k + 3) = 8 * Power(2, k)
        /\ Power(2, k + 4) = 16 * Power(2, k)
        /\ Power(2, k) \in Nat
    <3>1. /\ Power(2, k) \in Nat /\ Power(2, k + 1) = 2 * Power(2, k)
      BY Powers
    <3>2. Power(2, k + 2) = 2 * Power(2, k + 1)
      BY Powers, k + 1 \in Nat, k + 1 + 1 = k + 2
    <3>3. Power(2, k + 3) = 2 * Power(2, k + 2)
      BY Powers, k + 2 \in Nat, k + 2 + 1 = k + 3
    <3>4. Power(2, k + 4) = 2 * Power(2, k + 3)
      BY Powers, k + 3 \in Nat, k + 3 + 1 = k + 4
    <3> QED  BY <3>1, <3>2, <3>3, <3>4
  <2>2. CASE b = 2
    BY <2>1, <2>2 DEF Bits
  <2>3. CASE b = 10
    BY <2>1, <2>3 DEF Bits
  <2>4. CASE b = 16
    BY <2>1, <2>4 DEF Bits
  <2> QED  BY <2>2, <2>3, <2>4 DEF Bases
<1> DEFINE S == {k \in Nat : Power(2, Bits(b) * k) <= Power(b, k)}
<1>4. 0 \in S
  <2>1. Bits(b) * 0 = 0
    BY <1>2
  <2>2. Power(b, 0) = 1
    BY <1>2, Powers, 0 \in Nat
  <2> QED  BY <1>1, <2>1, <2>2
<1>5. ASSUME NEW k \in Nat, k \in S
      PROVE  k + 1 \in S
  <2> DEFINE x == Power(2, Bits(b) * k)
             y == Power(b, k)
  <2>1. Bits(b) * k \in Nat /\ Bits(b) * (k + 1) = Bits(b) * k + Bits(b)
    BY <1>2
  <2>2. x \in Nat /\ y \in Nat /\ x <= y /\ Power(b, k + 1) = b * y
    BY <1>2, <1>5, <2>1, Powers
  <2>3. Power(2, Bits(b) * (k + 1)) <= b * x
    BY <1>3, <2>1
  <2>4. Power(2, Bits(b) * (k + 1)) \in Nat
    <3>1. Bits(b) * (k + 1) \in Nat
      BY <1>2
    <3> QED  BY <3>1, Powers
  <2> HIDE DEF x, y
  <2>5. b * x <= b * y /\ b * x \in Nat /\ b * y \in Nat
    BY <1>2, <2>2
  <2>6. Power(2, Bits(b) * (k + 1)) <= Power(b, k + 1)
    BY <2>2, <2>3, <2>4, <2>5
  <2> QED  BY <2>6
<1>6. n \in S
  <2> HIDE DEF S
  <2> QED  BY <1>4, <1>5, SetInduction
<1> QED  BY <1>2, <1>6

\* What was read after each digit.
Readings(n, s, b) ==
  {g \in [0 .. Len(s) -> Int] :
     /\ g[0] = n /\ g[Len(s)] = Number(n, s, b)
     /\ \A k \in 1 .. Len(s) : g[k] = b * g[k - 1] + s[k]}

\* The number digits mean as the last value of a recursion: a digit at a time.
LEMMA NumberIs ==
  ASSUME NEW n \in Int, NEW s \in Seq(Int), NEW b \in Int
  PROVE  Readings(n, s, b) # {}
<1> DEFINE l == Len(s)
           T == [k \in 1 .. l |-> [x \in Int |-> b * x + s[k]]]
           F(f) == [k \in 0 .. l |-> IF k = 0 THEN n ELSE b * f[k - 1] + s[k]]
           p == CHOOSE f : f = F(f)
<1>1. l \in Nat /\ \A k \in 1 .. l : s[k] \in Int
  OBVIOUS
<1>2. Number(n, s, b) = p[l]
  BY DEF Number
<1> HIDE DEF l
<1>3. PICK g \in [0 .. l -> Int] : g[0] = n /\ \A k \in 1 .. l : g[k] = T[k][g[k - 1]]
  <2>1. \A k \in 1 .. l : \A x \in Int : T[k][x] \in Int
    BY <1>1
  <2> HIDE DEF T
  <2>2. Solutions(l, Int, n, T) # {}
    BY <1>1, <2>1, Iteration
  <2> QED  BY <2>2 DEF Solutions
<1>4. \A k \in 1 .. l : g[k] = b * g[k - 1] + s[k]
  <2> SUFFICES ASSUME NEW k \in 1 .. l
               PROVE  g[k] = b * g[k - 1] + s[k]
    OBVIOUS
  <2>1. g[k - 1] \in Int
    BY <1>1, <1>3
  <2> QED  BY <1>1, <1>3, <2>1
<1>5. g = F(g)
  BY <1>1, <1>3, <1>4
<1>6. p = F(p)
  <2> HIDE DEF F
  <2> QED  BY <1>5
<1> HIDE DEF p
<1>7. p[0] = n /\ \A k \in 1 .. l : p[k] = b * p[k - 1] + s[k]
  <2>1. \A k \in 0 .. l : p[k] = IF k = 0 THEN n ELSE b * p[k - 1] + s[k]
    BY <1>6
  <2>2. 0 \in 0 .. l /\ \A k \in 1 .. l : k \in 0 .. l /\ k # 0
    BY <1>1
  <2> QED  BY <2>1, <2>2
<1>8. p[l] = g[l]
  <2> DEFINE S == {m \in Nat : m <= l => p[m] = g[m]}
  <2>1. 0 \in S
    BY <1>3, <1>7
  <2>2. ASSUME NEW m \in Nat, m \in S, m + 1 <= l
        PROVE  p[m + 1] = g[m + 1]
    <3>1. m + 1 \in 1 .. l /\ m + 1 - 1 = m /\ p[m] = g[m]
      BY <1>1, <2>2
    <3> QED  BY <1>4, <1>7, <3>1
  <2>3. \A m \in Nat : m \in S => m + 1 \in S
    BY <1>1, <2>2
  <2> HIDE DEF S
  <2>4. l \in S
    BY <1>1, <2>1, <2>3, SetInduction
  <2> QED  BY <1>1, <2>4 DEF S
<1>9. /\ g \in [0 .. Len(s) -> Int] /\ g[0] = n /\ g[Len(s)] = Number(n, s, b)
      /\ \A k \in 1 .. Len(s) : g[k] = b * g[k - 1] + s[k]
  BY <1>2, <1>3, <1>4, <1>8 DEF l
<1>10. g \in Readings(n, s, b)
  BY <1>9 DEF Readings
<1> QED  BY <1>10

\* No digits leave the number that was read before.
LEMMA NothingRead ==
  ASSUME NEW n \in Int, NEW b \in Int, NEW s \in Seq(Int)
  PROVE  Len(s) = 0 => Number(n, s, b) = n
<1>1. PICK g \in Readings(n, s, b) : TRUE
  BY NumberIs
<1> QED  BY <1>1 DEF Readings

InFront(t, s) == Len(t) = Len(s) + 1 /\ \A k \in 1 .. Len(s) : t[k + 1] = s[k]

\* A digit in front is read first.
LEMMA DigitInFront ==
  ASSUME NEW n \in Int, NEW b \in Int, NEW s \in Seq(Int), NEW t \in Seq(Int),
         InFront(t, s)
  PROVE  Number(n, t, b) = Number(b * n + t[1], s, b)
<1> DEFINE l == Len(s)
           m == b * n + t[1]
<1>1. l \in Nat /\ Len(t) = l + 1 /\ t[1] \in Int
  BY DEF InFront
<1>2. m \in Int
  BY <1>1
<1> HIDE DEF m
<1>3. PICK g \in [0 .. l -> Int] :
        /\ g[0] = m /\ g[l] = Number(m, s, b)
        /\ \A k \in 1 .. l : g[k] = b * g[k - 1] + s[k]
  <2>1. Readings(m, s, b) # {}
    BY <1>2, NumberIs
  <2> QED  BY <2>1 DEF Readings
<1>4. PICK h \in [0 .. l + 1 -> Int] :
        /\ h[0] = n /\ h[l + 1] = Number(n, t, b)
        /\ \A k \in 1 .. l + 1 : h[k] = b * h[k - 1] + t[k]
  <2>1. PICK h \in [0 .. Len(t) -> Int] :
          /\ h[0] = n /\ h[Len(t)] = Number(n, t, b)
          /\ \A k \in 1 .. Len(t) : h[k] = b * h[k - 1] + t[k]
    <3>1. Readings(n, t, b) # {}
      BY NumberIs
    <3> QED  BY <3>1 DEF Readings
  <2>2. Len(t) = l + 1
    BY <1>1
  <2> HIDE DEF l
  <2> QED  BY <2>1, <2>2
<1>5. l \in Nat /\ \A k \in 1 .. l : t[k + 1] = s[k]
  BY <1>1 DEF InFront
<1> HIDE DEF l
<1> DEFINE S == {k \in Nat : k <= l => h[k + 1] = g[k]}
<1>6. 0 \in S
  <2>1. 1 \in 1 .. l + 1 /\ 1 - 1 = 0
    BY <1>1
  <2>2. h[1] = b * n + t[1]
    BY <1>4, <2>1
  <2> QED  BY <1>3, <2>2 DEF m
<1>7. ASSUME NEW k \in Nat, k \in S, k + 1 <= l
      PROVE  h[k + 1 + 1] = g[k + 1]
  <2>1. /\ k + 1 \in 1 .. l /\ k + 1 + 1 \in 1 .. l + 1
        /\ k + 1 - 1 = k /\ k + 1 + 1 - 1 = k + 1 /\ h[k + 1] = g[k]
    BY <1>1, <1>7
  <2>2. h[k + 1 + 1] = b * h[k + 1] + t[k + 1 + 1]
    BY <1>4, <2>1
  <2>3. g[k + 1] = b * g[k] + s[k + 1]
    BY <1>3, <2>1
  <2> QED  BY <1>5, <2>1, <2>2, <2>3
<1>8. \A k \in Nat : k \in S => k + 1 \in S
  <2> SUFFICES ASSUME NEW k \in Nat, k \in S, k + 1 <= l
               PROVE  h[k + 1 + 1] = g[k + 1]
    OBVIOUS
  <2> QED  BY <1>7
<1>9. l \in S
  <2> HIDE DEF S
  <2> QED  BY <1>5, <1>6, <1>8, SetInduction
<1>10. Number(n, t, b) = Number(m, s, b)
  BY <1>1, <1>3, <1>4, <1>9
<1> QED  BY <1>10 DEF m

\* Zeros in front count for nothing.
LEMMA ZerosInFront ==
  ASSUME NEW b \in Int, NEW s \in Seq(Int), NEW t \in Seq(Int), NEW m \in Nat,
         Len(t) = m + Len(s),
         \A k \in 1 .. m : t[k] = 0,
         \A k \in 1 .. Len(s) : t[m + k] = s[k]
  PROVE  Number(0, t, b) = Number(0, s, b)
<1> DEFINE Padded(n, u) == /\ Len(u) = n + Len(s)
                           /\ \A k \in 1 .. n : u[k] = 0
                           /\ \A k \in 1 .. Len(s) : u[n + k] = s[k]
           S == {n \in Nat : \A u \in Seq(Int) : Padded(n, u) => Number(0, u, b) = Number(0, s, b)}
<1>1. 0 \in S
  <2> SUFFICES ASSUME NEW u \in Seq(Int), Padded(0, u)
               PROVE  u = s
    OBVIOUS
  <2>1. Len(u) = Len(s) /\ \A k \in 1 .. Len(s) : u[k] = s[k]
    OBVIOUS
  <2>2. \A k \in 1 .. Len(u) : u[k] = s[k]
    BY <2>1
  <2> QED  BY <2>1, <2>2, SeqEqual
<1>2. ASSUME NEW n \in Nat, n \in S, NEW u \in Seq(Int), Padded(n + 1, u)
      PROVE  Number(0, u, b) = Number(0, s, b)
  <2> DEFINE r == Tail(u)
  <2>1. /\ r \in Seq(Int) /\ Len(r) = n + Len(s) /\ Len(u) = Len(r) + 1
        /\ \A k \in 1 .. Len(r) : u[k + 1] = r[k]
    <3>1. Len(u) = n + 1 + Len(s) /\ Len(s) \in Nat
      BY <1>2
    <3>2. u # << >>
      BY <3>1
    <3>3. /\ r \in Seq(Int) /\ Len(r) = Len(u) - 1
          /\ \A k \in 1 .. Len(r) : r[k] = u[k + 1]
      BY <3>2, HeadTailProperties
    <3> HIDE DEF r
    <3> QED  BY <3>1, <3>3
  <2> HIDE DEF r
  <2>2. u[1] = 0
    BY <1>2
  <2>3. Padded(n, r)
    <3>1. ASSUME NEW k \in 1 .. n
          PROVE  r[k] = 0
      <4>1. k \in 1 .. Len(r) /\ k + 1 \in 1 .. n + 1
        BY <2>1
      <4> QED  BY <1>2, <2>1, <4>1
    <3>2. ASSUME NEW k \in 1 .. Len(s)
          PROVE  r[n + k] = s[k]
      <4>1. n + k \in 1 .. Len(r) /\ n + k + 1 = n + 1 + k
        BY <2>1
      <4> QED  BY <1>2, <2>1, <4>1
    <3> QED  BY <2>1, <3>1, <3>2
  <2>4. Number(0, r, b) = Number(0, s, b)
    BY <1>2, <2>1, <2>3
  <2>5. Number(0, u, b) = Number(b * 0 + u[1], r, b)
    <3>1. InFront(u, r) /\ b \in Int /\ 0 \in Int
      BY <2>1 DEF InFront
    <3>2. u \in Seq(Int) /\ r \in Seq(Int)
      BY <2>1
    <3> QED  BY <3>1, <3>2, DigitInFront
  <2>6. b * 0 + u[1] = 0
    BY <2>2
  <2> QED  BY <2>4, <2>5, <2>6
<1>3. \A n \in Nat : n \in S => n + 1 \in S
  <2> HIDE DEF Padded
  <2> QED  BY <1>2
<1>4. m \in S
  <2> HIDE DEF S
  <2> QED  BY <1>1, <1>3, SetInduction
<1> QED  BY <1>4

----------------------------------------------------------------------------
(***************************************************************************)
(* Arithmetic of C.                                                        *)
(***************************************************************************)
Abs(n) == IF n < 0 THEN -n ELSE n

\* Division of numbers that are not negative.
LEMMA DivisionIs ==
  ASSUME NEW a \in Nat, NEW b \in Nat \ {0}
  PROVE  /\ a \div b \in Nat /\ a % b \in 0 .. b - 1
         /\ a = b * (a \div b) + (a % b)
OBVIOUS

\* Division of C: what is left has the sign of what was divided.
LEMMA DivisionToZero ==
  ASSUME NEW v \in Int, NEW b \in Nat \ {0}
  PROVE  /\ Quot(v, b) \in Int /\ Rem(v, b) \in 1 - b .. b - 1
         /\ v = b * Quot(v, b) + Rem(v, b)
         /\ Abs(Quot(v, b)) * b <= Abs(v)
         /\ v >= 0 => /\ Quot(v, b) = v \div b /\ Rem(v, b) = v % b
                      /\ Quot(v, b) >= 0 /\ Rem(v, b) >= 0
<1>1. CASE v >= 0
  <2>1. v \in Nat
    BY <1>1
  <2>2. /\ v \div b \in Nat /\ v % b \in 0 .. b - 1
        /\ v = b * (v \div b) + (v % b)
    BY <2>1, DivisionIs
  <2>3. Quot(v, b) = v \div b
    BY <1>1 DEF Quot
  <2>4. Rem(v, b) = v % b
    BY <2>2, <2>3 DEF Rem
  <2>5. b * (v \div b) = (v \div b) * b
    BY <2>2
  <2> QED  BY <1>1, <2>2, <2>3, <2>4, <2>5 DEF Abs
<1>2. CASE v < 0
  <2> DEFINE w == -v
             q == w \div b
             r == w % b
  <2>1. w \in Nat /\ w > 0 /\ v = -w
    BY <1>2
  <2>2. q \in Nat /\ r \in 0 .. b - 1 /\ w = b * q + r
    BY <2>1, DivisionIs
  <2>3. Quot(v, b) = -q
    BY <1>2 DEF Quot
  <2> HIDE DEF q, r, w
  <2>4. b * q \in Nat /\ b * (-q) = -(b * q) /\ q * b = b * q
    BY <2>2
  <2>5. Rem(v, b) = -r
    BY <2>1, <2>2, <2>3, <2>4 DEF Rem
  <2>6. Abs(v) = w /\ Abs(-q) = q
    BY <2>1, <2>2 DEF Abs
  <2> QED  BY <1>2, <2>1, <2>2, <2>3, <2>4, <2>5, <2>6
<1> QED  BY <1>1, <1>2


\* The remainder of a word stays in the word,
LEMMA Remainder ==
  ASSUME NEW a \in Int, NEW b \in Nat \ {0}
  PROVE  a % b \in 0 .. b - 1
OBVIOUS

\* and is the number itself when that is small enough.
LEMMA SmallRemainder ==
  ASSUME NEW b \in Nat \ {0}, NEW a \in 0 .. b - 1
  PROVE  a % b = a
OBVIOUS

\* The smallest int has no negation: it is its own.
LEMMA Ints ==
  /\ MinInt \in Int /\ MinInt < 0
  /\ Power(2, INT) = 2 * (-MinInt)
  /\ \A n \in Int : ToInt(n) \in MinInt .. -MinInt - 1
  /\ \A n \in MinInt .. 0 : ToInt(-n) = IF n = MinInt THEN n ELSE -n
<1> DEFINE H == Power(2, INT - 1)
           P == Power(2, INT)
<1>1. INT - 1 \in Nat /\ INT - 1 + 1 = INT
  BY ConversionsAssumption
<1>2. H \in Nat \ {0} /\ P = 2 * H
  BY <1>1, Powers
<1>3. MinInt = -H
  BY DEF MinInt
<1>4. \A n \in Int : ToInt(n) = LET u == n % P IN IF u < H THEN u ELSE u - P
  BY DEF ToInt
<1> HIDE DEF H, P
<1>5. ASSUME NEW n \in Int
      PROVE  ToInt(n) \in MinInt .. -MinInt - 1
  <2> DEFINE u == n % P
  <2>1. u \in 0 .. P - 1
    BY <1>2, Remainder
  <2>2. ToInt(n) = IF u < H THEN u ELSE u - P
    BY <1>4
  <2> HIDE DEF u
  <2> QED  BY <1>2, <1>3, <2>1, <2>2
<1>6. ASSUME NEW n \in MinInt .. 0
      PROVE  ToInt(-n) = IF n = MinInt THEN n ELSE -n
  <2>1. -n \in 0 .. P - 1 /\ P \in Nat \ {0} /\ n \in Int
    BY <1>2, <1>3
  <2>2. (-n) % P = -n
    BY <2>1, SmallRemainder
  <2> QED  BY <1>2, <1>3, <1>4, <2>1, <2>2
<1> QED  BY <1>2, <1>3, <1>5, <1>6 DEF P

----------------------------------------------------------------------------
(***************************************************************************)
(* What printf asks for.                                                   *)
(***************************************************************************)
Legal(c) ==
  \/ /\ c.fn = "itoa" /\ c.arg = "int"
     /\ \/ c.base = 10 /\ c.size = INT /\ c.pad = 0
        \/ c.base = 2 /\ c.size = INT /\ c.pad = 0
        \/ c.base = 2 /\ c.size = LONG + 1 /\ c.pad = LONG
  \/ /\ c.fn = "itoa64"
     /\ \/ c.arg \in {"int", "uint"} /\ c.base \in {10, 16} /\ c.size = INT /\ c.pad = 0
        \/ /\ c.arg = "long" /\ c.base = 16
           /\ c.size = LONG \div 4 + 4 /\ c.pad = LONG \div 4

\* Each case of printf and printfs is of one of these forms.
LEMMA Cases ==
  ASSUME NEW f \in DOMAIN conversion
  PROVE  Legal(conversion[f])
<1>1. f \in {"cu", "ci", "cx", "cb", "cB", "cp", "su", "si", "sx", "sb", "sp"}
  BY DEF conversion
<1>2. CASE f \in {"cu", "ci", "cx"}
  BY <1>2 DEF conversion, Case, Legal
<1>3. CASE f \in {"cb", "cB", "cp"}
  BY <1>3 DEF conversion, Case, Legal
<1>4. CASE f \in {"su", "si", "sx"}
  BY <1>4 DEF conversion, Case, Legal
<1>5. CASE f \in {"sb", "sp"}
  BY <1>5 DEF conversion, Case, Legal
<1> QED  BY <1>1, <1>2, <1>3, <1>4, <1>5

\* An address has four bits to a digit.
LEMMA Widths ==
  /\ INT \in Nat /\ INT >= 3 /\ LONG \in Nat /\ LONG > INT
  /\ LONG \div 4 \in Nat \ {0} /\ LONG = 4 * (LONG \div 4)
BY ConversionsAssumption

\* What is passed to itoa is an int, what is passed to itoa64 a word of LONG bits.
LEMMA Arguments ==
  ASSUME NEW c, Legal(c), NEW w \in Words \cup {0}
  PROVE  /\ c.fn = "itoa" => Argument(c, w) \in MinInt .. -MinInt - 1
         /\ c.fn = "itoa64" => Argument(c, w) \in 0 .. Power(2, LONG) - 1
<1> DEFINE L == Power(2, LONG)
           P == Power(2, INT)
<1>1. L \in Nat \ {0} /\ P \in Nat \ {0}
  <2>1. LONG \in Nat /\ INT \in Nat
    BY Widths
  <2> QED  BY <2>1, TwoPowers
<1>2. P <= L
  BY Widths, PowersGrow, <1>1
<1>3. w \in 0 .. L - 1 /\ w \in Int
  BY <1>1, ConversionsAssumption
<1>4. CASE c.fn = "itoa"
  <2>1. Argument(c, w) = ToInt(w)
    BY <1>4 DEF Legal, Argument
  <2> QED  BY <1>3, <1>4, <2>1, Ints
<1>5. CASE c.fn = "itoa64" /\ c.arg = "int"
  <2>1. Argument(c, w) = ToInt(w) % L
    BY <1>5 DEF Argument
  <2>2. ToInt(w) \in Int
    BY <1>3, Ints
  <2> HIDE DEF L
  <2>3. ToInt(w) % L \in 0 .. L - 1
    BY <1>1, <2>2, Remainder
  <2> QED  BY <1>5, <2>1, <2>3 DEF L
<1>6. CASE c.fn = "itoa64" /\ c.arg = "uint"
  <2>1. Argument(c, w) = w % P
    BY <1>6 DEF Argument
  <2> HIDE DEF L, P
  <2>2. w % P \in 0 .. P - 1
    BY <1>1, <1>3, Remainder
  <2>3. w % P \in 0 .. L - 1
    BY <1>1, <1>2, <2>2
  <2> QED  BY <1>6, <2>1, <2>3 DEF L
<1>7. CASE c.fn = "itoa64" /\ c.arg = "long"
  <2>1. Argument(c, w) = w
    BY <1>7 DEF Argument
  <2> QED  BY <1>3, <1>7, <2>1
<1> QED  BY <1>4, <1>5, <1>6, <1>7 DEF Legal

----------------------------------------------------------------------------
(***************************************************************************)
(* The digits that were taken from a number, lowest first.                 *)
(***************************************************************************)
Backwards(s) == [k \in 1 .. Len(s) |-> s[Len(s) + 1 - k]]

\* A text turned round has the same characters and the same length.
LEMMA BackwardsIs ==
  ASSUME NEW S, NEW s \in Seq(S)
  PROVE  /\ Backwards(s) \in Seq(S) /\ Len(Backwards(s)) = Len(s)
         /\ \A k \in 1 .. Len(s) : Backwards(s)[k] = s[Len(s) + 1 - k]
<1>1. Len(s) \in Nat /\ \A k \in 1 .. Len(s) : s[Len(s) + 1 - k] \in S
  <2>1. ASSUME NEW k \in 1 .. Len(s)
        PROVE  s[Len(s) + 1 - k] \in S
    <3>1. Len(s) + 1 - k \in 1 .. Len(s)
      OBVIOUS
    <3> QED  BY <3>1, ElementOfSeq
  <2> QED  BY <2>1
<1>2. Backwards(s) \in [1 .. Len(s) -> S]
  BY <1>1 DEF Backwards
<1>3. Backwards(s) \in Seq(S) /\ Len(Backwards(s)) = Len(s)
  BY <1>1, <1>2
<1> QED  BY <1>3 DEF Backwards

\* Nothing else has these digits.
LEMMA OnlyBackwards ==
  ASSUME NEW S, NEW s \in Seq(S), NEW t \in Seq(S), Len(t) = Len(s),
         \A k \in 1 .. Len(s) : t[k] = s[Len(s) + 1 - k]
  PROVE  t = Backwards(s)
<1>1. /\ Backwards(s) \in Seq(S) /\ Len(Backwards(s)) = Len(s)
      /\ \A k \in 1 .. Len(s) : Backwards(s)[k] = s[Len(s) + 1 - k]
  BY BackwardsIs
<1>2. \A k \in 1 .. Len(t) : t[k] = Backwards(s)[k]
  BY <1>1
<1> QED  BY <1>1, <1>2, SeqEqual

\* The last comes first.
LEMMA LastFirst ==
  ASSUME NEW s \in Seq(Int), NEW e \in Int
  PROVE  /\ Backwards(Append(s, e)) \in Seq(Int)
         /\ Len(Backwards(Append(s, e))) = Len(s) + 1
         /\ Backwards(Append(s, e))[1] = e
         /\ \A k \in 1 .. Len(s) : Backwards(Append(s, e))[k + 1] = Backwards(s)[k]
         /\ Tail(Backwards(Append(s, e))) = Backwards(s)
<1> DEFINE a == Append(s, e)
           t == Backwards(a)
<1>1. /\ a \in Seq(Int) /\ Len(a) = Len(s) + 1 /\ Len(s) \in Nat
      /\ a[Len(s) + 1] = e /\ \A k \in 1 .. Len(s) : a[k] = s[k]
  BY AppendProperties
<1> HIDE DEF a
<1>2. /\ t \in Seq(Int) /\ Len(t) = Len(a)
      /\ \A k \in 1 .. Len(a) : t[k] = a[Len(a) + 1 - k]
  BY <1>1, BackwardsIs
<1> HIDE DEF t
<1>3. t[1] = e
  <2>1. 1 \in 1 .. Len(a) /\ Len(a) + 1 - 1 = Len(s) + 1
    BY <1>1
  <2> QED  BY <1>1, <1>2, <2>1
<1>4. /\ Backwards(s) \in Seq(Int) /\ Len(Backwards(s)) = Len(s)
      /\ \A k \in 1 .. Len(s) : Backwards(s)[k] = s[Len(s) + 1 - k]
  BY BackwardsIs
<1>5. ASSUME NEW k \in 1 .. Len(s)
      PROVE  t[k + 1] = Backwards(s)[k]
  <2>1. /\ k + 1 \in 1 .. Len(a) /\ Len(s) + 1 - k \in 1 .. Len(s)
        /\ Len(a) + 1 - (k + 1) = Len(s) + 1 - k
    BY <1>1
  <2> QED  BY <1>1, <1>2, <1>4, <2>1
<1>6. Tail(t) = Backwards(s)
  <2>1. t # << >>
    BY <1>1, <1>2
  <2>2. /\ Tail(t) \in Seq(Int) /\ Len(Tail(t)) = Len(t) - 1
        /\ \A k \in 1 .. Len(Tail(t)) : Tail(t)[k] = t[k + 1]
    BY <1>2, <2>1, HeadTailProperties
  <2>3. Len(Tail(t)) = Len(s) /\ Len(Tail(t)) = Len(Backwards(s))
    BY <1>1, <1>2, <1>4, <2>2
  <2>4. \A k \in 1 .. Len(Tail(t)) : Tail(t)[k] = Backwards(s)[k]
    BY <1>5, <2>2, <2>3
  <2> QED  BY <1>4, <2>2, <2>3, <2>4, SeqEqual
<1> QED  BY <1>1, <1>2, <1>3, <1>5, <1>6 DEF t, a

Digits == -9 .. 15

\* Digits are numbers.
LEMMA DigitsAreInts ==
  ASSUME NEW s \in Seq(Digits)
  PROVE  s \in Seq(Int)
<1>1. Len(s) \in Nat /\ s \in [1 .. Len(s) -> Digits]
  BY LenProperties
<1>2. \A k \in 1 .. Len(s) : s[k] \in Int
  <2>1. \A k \in 1 .. Len(s) : s[k] \in Digits
    BY <1>1
  <2>2. Digits \subseteq Int
    BY DEF Digits
  <2> QED  BY <2>1, <2>2
<1>3. s \in [1 .. Len(s) -> Int]
  BY <1>1, <1>2
<1> QED  BY <1>1, <1>3

\* Digits d in base b and what is left, v, of the number a: together they are a, and
\* no digit is one too many.
Taken(b, a, d, v) ==
  /\ d \in Seq(Digits) /\ v \in Int
  /\ Abs(v) * Power(b, Len(d)) <= Abs(a)
  /\ Len(d) > 1 => Power(b, Len(d) - 1) <= Abs(a)
  /\ a < 0 => v <= 0
  /\ a >= 0 => v >= 0 /\ d \in Seq(0 .. 15) /\ Number(v, Backwards(d), b) = a

\* Before the first digit the number is all that is left.
LEMMA NothingTaken ==
  ASSUME NEW a \in Int, NEW b \in Bases
  PROVE  Taken(b, a, << >>, a)
<1> DEFINE e == << >>
<1>1. e \in Seq(Digits) /\ e \in Seq(0 .. 15) /\ e \in Seq(Int) /\ Len(e) = 0
  OBVIOUS
<1>2. b \in Nat \ {0} /\ b \in Int
  BY DEF Bases
<1>3. Power(b, 0) = 1
  BY <1>2, Powers, 0 \in Nat
<1> HIDE DEF e
<1>4. Backwards(e) \in Seq(Int) /\ Len(Backwards(e)) = 0
  BY <1>1, BackwardsIs
<1>5. Number(a, Backwards(e), b) = a
  BY <1>2, <1>4, NothingRead
<1>6. Abs(a) * Power(b, Len(e)) <= Abs(a)
  BY <1>1, <1>3 DEF Abs
<1> QED  BY <1>1, <1>5, <1>6 DEF e, Taken

\* Both sides times the same factor.
LEMMA Product ==
  ASSUME NEW x \in Nat, NEW y \in Nat, NEW b \in Nat, NEW p \in Nat, x * b <= y
  PROVE  x * (b * p) <= y * p
<1>1. x * (b * p) = (x * b) * p /\ x * b \in Nat
  OBVIOUS
<1> DEFINE z == x * b
<1> HIDE DEF z
<1>2. ASSUME z \in Nat, z <= y
      PROVE  z * p <= y * p
  BY <1>2
<1> QED  BY <1>1, <1>2 DEF z

\* A digit more, and what is left without it, are the same number.
LEMMA DigitTaken ==
  ASSUME NEW b \in Bases, NEW a \in Int, NEW d, NEW v, Taken(b, a, d, v),
         v # 0 \/ d = << >>, b = 16 => a >= 0
  PROVE  Taken(b, a, Append(d, Rem(v, b)), Quot(v, b))
<1> DEFINE r == Rem(v, b)
           q == Quot(v, b)
           e == Append(d, r)
           l == Len(d)
           p == Power(b, l)
<1>1. b \in Nat \ {0} /\ b \in Int
  BY DEF Bases
<1>2. d \in Seq(Digits) /\ v \in Int /\ l \in Nat
  BY DEF Taken
<1>3. v = b * q + r /\ Abs(q) * b <= Abs(v)
  BY <1>1, <1>2, DivisionToZero
<1>4. /\ q \in Int /\ r \in 1 - b .. b - 1
      /\ v >= 0 => q >= 0 /\ r >= 0
  BY <1>1, <1>2, DivisionToZero
<1>5. v <= 0 => q <= 0
  <2>1. v < 0 => q <= 0
    <3>1. v < 0 => -v \in Nat /\ q = -((-v) \div b)
      BY <1>2 DEF Quot
    <3>2. v < 0 => (-v) \div b \in Nat
      BY <1>1, <3>1, DivisionIs
    <3> QED  BY <3>1, <3>2
  <2>2. v = 0 => q <= 0
    <3> DEFINE w == Abs(v)
               x == Abs(q)
    <3>1. /\ v = 0 => w = 0
          /\ q > 0 => x > 0
          /\ x * b <= w /\ x \in Nat /\ w \in Nat
      <4>1. x * b <= w
        BY <1>3
      <4> HIDE DEF q, r
      <4>2. (v = 0 => w = 0) /\ (q > 0 => x > 0) /\ x \in Nat /\ w \in Nat
        BY <1>2, <1>4 DEF Abs
      <4> HIDE DEF w, x
      <4> QED  BY <4>1, <4>2
    <3> HIDE DEF w, x, q, r
    <3> DEFINE xb == x * b
    <3>2. (x > 0 => xb > 0) /\ xb \in Nat /\ xb <= w
      BY <1>1, <3>1
    <3> HIDE DEF xb
    <3>3. q \in Int
      BY <1>4
    <3> QED  BY <3>1, <3>2, <3>3
  <2> HIDE DEF q, r
  <2> QED  BY <1>2, <2>1, <2>2
<1>6. r \in Digits
  <2> HIDE DEF q, r
  <2>1. b = 16 => v >= 0
    BY DEF Taken
  <2>2. r \in Int /\ (b = 16 => r \in 0 .. 15)
    BY <1>4, <2>1
  <2>3. b = 2 => r \in -1 .. 1
    BY <1>4
  <2>4. b = 10 => r \in -9 .. 9
    BY <1>4
  <2> QED  BY <2>2, <2>3, <2>4 DEF Bases, Digits
<1>7. /\ e \in Seq(Digits) /\ Len(e) = l + 1
      /\ r >= 0 /\ d \in Seq(0 .. 15) => e \in Seq(0 .. 15)
  <2>1. e \in Seq(Digits) /\ Len(e) = l + 1
    BY <1>2, <1>6, AppendProperties
  <2> HIDE DEF r
  <2>2. r >= 0 => r \in 0 .. 15
    BY <1>6 DEF Digits
  <2> QED  BY <2>1, <2>2, AppendProperties
<1>8. p \in Nat \ {0} /\ Power(b, l + 1) = b * p
  <2> HIDE DEF l
  <2> QED  BY <1>1, <1>2, Powers
<1>9. Abs(v) * p <= Abs(a) /\ Abs(v) \in Nat /\ Abs(q) \in Nat /\ Abs(a) \in Nat
  BY <1>2, <1>4 DEF Taken, Abs
<1> HIDE DEF r, q, e, p
<1>10. Abs(q) * Power(b, Len(e)) <= Abs(a)
  <2>1. Abs(q) * (b * p) <= Abs(v) * p
    BY <1>1, <1>3, <1>8, <1>9, Product
  <2>2. Abs(q) * (b * p) \in Int /\ Abs(v) * p \in Int
    BY <1>1, <1>8, <1>9
  <2> DEFINE x == Abs(q) * (b * p)
             y == Abs(v) * p
             z == Abs(a)
  <2>3. x <= y /\ y <= z /\ x \in Int /\ y \in Int /\ z \in Int
    BY <1>9, <2>1, <2>2
  <2>4. x <= z
    <3> HIDE DEF x, y, z
    <3> QED  BY <2>3
  <2> QED  BY <1>7, <1>8, <2>4
<1>11. Len(e) > 1 => Power(b, Len(e) - 1) <= Abs(a)
  <2> SUFFICES ASSUME l > 0
               PROVE  p <= Abs(a)
    BY <1>2, <1>7 DEF p
  <2>1. v # 0
    <3>1. d # << >>
      BY <1>2
    <3> QED  BY <3>1
  <2>2. Abs(v) >= 1
    BY <1>2, <2>1 DEF Abs
  <2>3. p <= Abs(v) * p /\ Abs(v) * p \in Nat
    <3> DEFINE x == Abs(v)
    <3>1. x >= 1 /\ x \in Nat
      BY <1>9, <2>2
    <3> HIDE DEF x
    <3>2. p <= x * p /\ x * p \in Nat
      BY <1>8, <3>1
    <3> QED  BY <3>2 DEF x
  <2> QED  BY <1>8, <1>9, <2>3
<1>12. a < 0 => q <= 0
  BY <1>5 DEF Taken
<1>13. ASSUME a >= 0
       PROVE  q >= 0 /\ e \in Seq(0 .. 15) /\ Number(q, Backwards(e), b) = a
  <2>1. v >= 0 /\ d \in Seq(0 .. 15) /\ Number(v, Backwards(d), b) = a
    BY <1>13 DEF Taken
  <2>2. q >= 0 /\ e \in Seq(0 .. 15)
    BY <1>4, <1>7, <2>1
  <2>3. d \in Seq(Int) /\ r \in Int
    BY <1>2, <1>6, DigitsAreInts DEF Digits
  <2> DEFINE s == Backwards(d)
             t == Backwards(e)
  <2>4. s \in Seq(Int) /\ Len(s) = Len(d)
    BY <2>3, BackwardsIs
  <2>5. /\ t \in Seq(Int) /\ Len(t) = Len(d) + 1 /\ t[1] = r
        /\ \A k \in 1 .. Len(d) : t[k + 1] = s[k]
    <3> HIDE DEF r
    <3>1. /\ Backwards(Append(d, r)) \in Seq(Int)
          /\ Len(Backwards(Append(d, r))) = Len(d) + 1
          /\ Backwards(Append(d, r))[1] = r
          /\ \A k \in 1 .. Len(d) : Backwards(Append(d, r))[k + 1] = Backwards(d)[k]
      BY <2>3, LastFirst
    <3> QED  BY <3>1 DEF e
  <2> HIDE DEF s, t
  <2>6. Number(q, t, b) = Number(b * q + t[1], s, b)
    <3>1. s \in Seq(Int) /\ t \in Seq(Int) /\ InFront(t, s)
      BY <2>4, <2>5 DEF InFront
    <3>2. b \in Int /\ q \in Int
      BY <1>1, <1>4
    <3> QED  BY <3>1, <3>2, DigitInFront
  <2> QED  BY <1>3, <2>1, <2>2, <2>5, <2>6 DEF s, t
<1> QED  BY <1>4, <1>7, <1>10, <1>11, <1>12, <1>13 DEF Taken, e, q, r

----------------------------------------------------------------------------
(***************************************************************************)
(* The inductive invariant.                                                *)
(***************************************************************************)
\* The number whose digits are taken.
Start == IF is_negative THEN ToInt(-Arg) ELSE Arg

PcOK ==
  /\ pc \in {"idle", "itoa", "sign", "reverse", "itoa64", "copy", "pad", "done"}
  /\ format \in DOMAIN conversion /\ word \in Words \cup {0}
  /\ is_negative \in BOOLEAN
  /\ is_negative <=> pc # "idle" /\ chosen.fn = "itoa" /\ Negated(chosen, Arg)
  /\ pc \in {"itoa", "sign", "reverse"} => chosen.fn = "itoa"
  /\ pc \in {"itoa64", "copy"} => chosen.fn = "itoa64"
  /\ pc = "idle" => str = << >>
  /\ pc # "copy" => buffer = << >>

\* All digits, and the sign behind them.
Finished(b, a, d) == Taken(b, a, d, 0) /\ d # << >>

SignedText(neg, d) == IF neg THEN Append(d, MINUS) ELSE d

\* SignedText t is s up to what is outside of n, which has been turned round.
Turned(t, s, n) ==
  /\ t \in Seq(Int) /\ Len(t) = Len(s)
  /\ n \in 1 .. Len(s) /\ 2 * (n - 1) <= Len(s)
  /\ \A k \in 1 .. Len(s) :
       t[k] = IF k < n \/ k > Len(s) + 1 - n THEN s[Len(s) + 1 - k] ELSE s[k]

\* Of text s, u has been copied and t is left.
Copied(t, u, s) ==
  /\ t \in Seq(Int) /\ u \in Seq(Int) /\ Len(t) + Len(u) = Len(s)
  /\ \A k \in 1 .. Len(t) : t[k] = s[k]
  /\ \A k \in 1 .. Len(u) : u[k] = s[Len(s) + 1 - k]

Filled(t, n) == [k \in 1 .. n - Len(t) |-> 0] \o t

DigitsOK ==
  /\ pc \in {"itoa", "itoa64"} =>
       Taken(chosen.base, Start, str, value) /\ (value # 0 \/ str = << >>)
  /\ pc = "sign" => Finished(chosen.base, Start, str)

TurnedOK ==
  pc = "reverse" =>
    \E d : Finished(chosen.base, Start, d) /\ Turned(str, SignedText(is_negative, d), i)

CopiedOK ==
  pc = "copy" => \E d : Finished(chosen.base, Start, d) /\ Copied(str, buffer, d)

TextOK ==
  pc \in {"pad", "done"} =>
    \E d : /\ Finished(chosen.base, Start, d)
           /\ str = IF pc = "pad" THEN Backwards(SignedText(is_negative, d))
                    ELSE Filled(Backwards(SignedText(is_negative, d)), chosen.pad)

ConversionsInv == PcOK /\ DigitsOK /\ TurnedOK /\ CopiedOK /\ TextOK

\* What the digits are taken from is the argument without its sign, but for an
\* argument that is not printed.
LEMMA Starts ==
  ASSUME PcOK, pc # "idle"
  PROVE  /\ Legal(chosen) /\ chosen.base \in Bases
         /\ Start \in Int /\ Arg \in Int
         /\ chosen.base = 16 => Start >= 0
         /\ chosen.fn = "itoa" => /\ Start \in MinInt .. -MinInt - 1
                                  /\ Start = MinInt => Arg = MinInt
         /\ chosen.fn = "itoa64" => Start \in 0 .. Power(2, LONG) - 1
         /\ is_negative => chosen.fn = "itoa" /\ chosen.base = 10
         /\ ~Unprintable => Start >= 0 /\ Arg = IF is_negative THEN -Start ELSE Start
<1> DEFINE n == Arg
           c == chosen
<1>1. Legal(c)
  BY Cases DEF PcOK, chosen
<1>2. c.base \in Bases /\ c.fn \in {"itoa", "itoa64"} /\ (c.base = 16 => c.fn = "itoa64")
  BY <1>1 DEF Legal, Bases
<1>3. /\ c.fn = "itoa" => n \in MinInt .. -MinInt - 1
      /\ c.fn = "itoa64" => n \in 0 .. Power(2, LONG) - 1
  BY <1>1, Arguments DEF PcOK, Arg
<1>4. /\ MinInt \in Int /\ MinInt < 0
      /\ \A m \in MinInt .. 0 : ToInt(-m) = IF m = MinInt THEN m ELSE -m
  BY Ints
<1>5. Power(2, LONG) \in Int
  BY Widths, TwoPowers
<1>6. n \in Int
  BY <1>2, <1>3, <1>4, <1>5
<1>7. is_negative <=> (c.fn = "itoa" /\ n < 0 /\ c.base = 10)
  BY DEF PcOK, Negated
<1>8. Unprintable <=> (c.fn = "itoa" /\ n < 0 /\ (c.base # 10 \/ n = MinInt))
  BY DEF Unprintable
<1>9. Start = IF is_negative THEN ToInt(-n) ELSE n
  BY DEF Start
<1> HIDE DEF c, n
<1>10. CASE is_negative
  <2>1. c.fn = "itoa" /\ n < 0 /\ c.base = 10
    BY <1>7, <1>10
  <2>2. n \in MinInt .. -1 /\ n \in MinInt .. 0
    BY <1>3, <1>4, <1>6, <2>1
  <2>3. Start = IF n = MinInt THEN n ELSE -n
    BY <1>4, <1>9, <1>10, <2>2
  <2>4. Start \in MinInt .. -MinInt - 1 /\ (Start = MinInt => n = MinInt)
    BY <1>4, <2>2, <2>3
  <2>5. ~Unprintable => Start >= 0 /\ n = -Start
    BY <1>4, <1>8, <2>1, <2>2, <2>3
  <2> QED  BY <1>1, <1>2, <1>4, <1>6, <1>10, <2>1, <2>4, <2>5 DEF c, n
<1>11. CASE ~is_negative
  <2>1. Start = n
    BY <1>9, <1>11
  <2>2. ~Unprintable => n >= 0
    BY <1>2, <1>3, <1>5, <1>6, <1>7, <1>8, <1>11
  <2>3. c.base = 16 => n >= 0
    BY <1>2, <1>3, <1>5
  <2> QED  BY <1>1, <1>2, <1>3, <1>6, <1>11, <2>1, <2>2, <2>3 DEF c, n
<1> QED  BY <1>10, <1>11

\* A number of n bits has no digits beyond them.
LEMMA DigitsFit ==
  ASSUME NEW b \in Bases, NEW a \in Int, NEW d, NEW v, Taken(b, a, d, v),
         NEW n \in Nat, Abs(a) < Power(2, n)
  PROVE  Len(d) \in Nat /\ (Len(d) <= 1 \/ Bits(b) * (Len(d) - 1) < n)
<1>1. Len(d) \in Nat
  BY DEF Taken
<1> SUFFICES ASSUME Len(d) > 1
             PROVE  Bits(b) * (Len(d) - 1) < n
  BY <1>1
<1> DEFINE l == Len(d) - 1
           x == Bits(b) * l
<1>2. l \in Nat /\ Power(b, l) <= Abs(a)
  BY <1>1 DEF Taken
<1> HIDE DEF l
<1>3. x \in Nat /\ Power(2, x) <= Power(b, l)
  <2>1. Bits(b) \in 1 .. 4 /\ Power(2, Bits(b) * l) <= Power(b, l)
    BY <1>2, BitsOfDigits
  <2> QED  BY <1>2, <2>1
<1> HIDE DEF x
<1>4. Power(2, x) \in Nat /\ Power(2, n) \in Nat
  BY <1>3, TwoPowers
<1>5. Power(b, l) \in Nat
  <2>1. b \in Nat \ {0}
    BY DEF Bases
  <2> QED  BY <1>2, <2>1, Powers
<1>6. Abs(a) \in Nat
  BY DEF Abs
<1>7. Power(2, x) < Power(2, n)
  BY <1>2, <1>3, <1>4, <1>5, <1>6
<1>8. x < n
  BY <1>3, <1>7, PowersGrow
<1> QED  BY <1>8 DEF x, l

\* How many digits there are at most.
LEMMA Lengths ==
  ASSUME PcOK, pc # "idle", NEW d, NEW v, Taken(chosen.base, Start, d, v)
  PROVE  /\ Len(d) \in Nat
         /\ chosen.fn = "itoa" /\ chosen.base = 10 => Len(d) + 2 <= INT
         /\ chosen.base = 2 => Len(d) <= INT /\ (Arg = MinInt \/ Len(d) + 1 <= INT)
         /\ chosen.fn = "itoa64" => Len(d) + 1 <= INT
         /\ chosen.base = 16 => Len(d) <= LONG \div 4
<1> DEFINE b == chosen.base
           a == Start
           l == Len(d)
<1>1. /\ Legal(chosen) /\ b \in Bases /\ a \in Int
      /\ chosen.fn = "itoa" => /\ a \in MinInt .. -MinInt - 1
                               /\ a = MinInt => Arg = MinInt
      /\ chosen.fn = "itoa64" => a \in 0 .. Power(2, LONG) - 1
  BY Starts
<1>2. \/ chosen.fn = "itoa" /\ b \in {2, 10}
      \/ chosen.fn = "itoa64" /\ b \in {10, 16}
  BY <1>1 DEF Legal
<1>3. /\ INT \in Nat /\ INT >= 3 /\ LONG \in Nat /\ LONG > INT
      /\ LONG \div 4 \in Nat \ {0} /\ LONG = 4 * (LONG \div 4)
      /\ LONG <= 3 * (INT - 1)
  BY Widths, ConversionsAssumption
<1>4. l \in Nat
  BY DEF Taken
<1>5. ASSUME NEW n \in Nat, Abs(a) < Power(2, n)
      PROVE  l <= 1 \/ Bits(b) * (l - 1) < n
  BY <1>1, <1>5, DigitsFit
<1>6. ASSUME chosen.fn = "itoa"
      PROVE  /\ l <= 1 \/ Bits(b) * (l - 1) < INT
             /\ Arg = MinInt \/ l <= 1 \/ Bits(b) * (l - 1) < INT - 1
  <2>1. /\ MinInt \in Int /\ MinInt < 0
        /\ Power(2, INT) = 2 * (-MinInt) /\ Power(2, INT - 1) = -MinInt
    <3>1. INT - 1 \in Nat
      BY <1>3
    <3>2. Power(2, INT - 1) \in Nat
      BY <3>1, TwoPowers
    <3>3. MinInt = -Power(2, INT - 1)
      BY DEF MinInt
    <3>4. Power(2, INT - 1) = -MinInt
      BY <3>2, <3>3
    <3> QED  BY <3>4, Ints
  <2>2. Abs(a) <= -MinInt /\ (Abs(a) < -MinInt \/ Arg = MinInt)
    BY <1>1, <1>6, <2>1 DEF Abs
  <2>3. Abs(a) < Power(2, INT)
    BY <1>1, <2>1, <2>2 DEF Abs
  <2>4. INT - 1 \in Nat
    BY <1>3
  <2> QED  BY <1>3, <1>5, <2>1, <2>2, <2>3, <2>4
<1>7. ASSUME chosen.fn = "itoa64"
      PROVE  l <= 1 \/ Bits(b) * (l - 1) < LONG
  <2>1. Power(2, LONG) \in Nat
    BY <1>3, TwoPowers
  <2>2. Abs(a) < Power(2, LONG)
    BY <1>1, <1>7, <2>1 DEF Abs
  <2> QED  BY <1>3, <1>5, <2>2
<1>8. /\ b = 2 => Bits(b) = 1
      /\ b = 10 => Bits(b) = 3
      /\ b = 16 => Bits(b) = 4
  BY DEF Bits
<1> DEFINE m == LONG \div 4
<1> HIDE DEF b, a, l, m
<1>9. ASSUME chosen.fn = "itoa", b = 10
      PROVE  l + 2 <= INT
  BY <1>3, <1>4, <1>6, <1>8, <1>9
<1>10. ASSUME chosen.fn = "itoa", b = 2
       PROVE  l <= INT /\ (Arg = MinInt \/ l + 1 <= INT)
  BY <1>3, <1>4, <1>6, <1>8, <1>10
<1>11. ASSUME chosen.fn = "itoa64", b = 10
       PROVE  l + 1 <= INT
  BY <1>3, <1>4, <1>7, <1>8, <1>11
<1>12. ASSUME chosen.fn = "itoa64", b = 16
       PROVE  l + 1 <= INT /\ l <= m
  <2>1. m \in Nat \ {0} /\ LONG = 4 * m
    BY <1>3 DEF m
  <2> QED  BY <1>3, <1>4, <1>7, <1>8, <1>12, <2>1
<1>13. /\ chosen.fn = "itoa" /\ b = 10 => l + 2 <= INT
       /\ b = 2 => l <= INT /\ (Arg = MinInt \/ l + 1 <= INT)
       /\ chosen.fn = "itoa64" => l + 1 <= INT
       /\ b = 16 => l <= m
  BY <1>2, <1>9, <1>10, <1>11, <1>12
<1> QED  BY <1>4, <1>13 DEF b, l, m

\* Whose number it is changes only when a call begins or its text is printed.
LEMMA Kept ==
  UNCHANGED <<format, word, is_negative>> =>
    chosen' = chosen /\ Arg' = Arg /\ Start' = Start
BY DEF chosen, Arg, Start

\* The sign adds one character.
LEMMA SignedTextIs ==
  ASSUME NEW b, NEW a, NEW d, Finished(b, a, d), NEW neg \in BOOLEAN
  PROVE  /\ d \in Seq(Int) /\ SignedText(neg, d) \in Seq(Int)
         /\ Len(SignedText(neg, d)) = Len(d) + (IF neg THEN 1 ELSE 0)
         /\ Len(d) >= 1 /\ Len(d) \in Nat
<1>1. d \in Seq(Digits) /\ d # << >>
  BY DEF Finished, Taken
<1>2. d \in Seq(Int) /\ Len(d) >= 1 /\ Len(d) \in Nat
  BY <1>1, DigitsAreInts
<1>3. /\ Append(d, MINUS) \in Seq(Int) /\ Len(Append(d, MINUS)) = Len(d) + 1
  BY <1>2 DEF MINUS
<1> QED  BY <1>2, <1>3 DEF SignedText

\* At first nothing has been turned.
LEMMA NothingTurned ==
  ASSUME NEW s \in Seq(Int), Len(s) >= 1
  PROVE  Turned(s, s, 1)
BY DEF Turned

\* An exchange turns two more characters round.
LEMMA TwoTurned ==
  ASSUME NEW s \in Seq(Int), NEW t, NEW n, Turned(t, s, n), n < Len(t) + 1 - n
  PROVE  Turned([t EXCEPT ![n] = t[Len(t) + 1 - n], ![Len(t) + 1 - n] = t[n]], s, n + 1)
<1> DEFINE l == Len(s)
           m == l + 1 - n
           u == [t EXCEPT ![n] = t[m], ![m] = t[n]]
<1>1. /\ t \in Seq(Int) /\ Len(t) = l /\ l \in Nat
      /\ n \in 1 .. l /\ 2 * (n - 1) <= l
      /\ \A k \in 1 .. l : t[k] = IF k < n \/ k > m THEN s[l + 1 - k] ELSE s[k]
  BY DEF Turned
<1>2. m \in 1 .. l /\ n < m /\ n + 1 \in 1 .. l /\ 2 * n <= l
  BY <1>1
<1>3. t \in [1 .. l -> Int]
  BY <1>1, LenProperties
<1> HIDE DEF m, l
<1>4. u \in [1 .. l -> Int]
  <2>1. t[m] \in Int /\ t[n] \in Int
    <3>1. m \in 1 .. l /\ n \in 1 .. l
      BY <1>1, <1>2
    <3> QED  BY <1>3, <3>1
  <2> QED  BY <1>3, <2>1
<1>5. u \in Seq(Int) /\ Len(u) = l
  BY <1>1, <1>4
<1>6. \A k \in 1 .. l : u[k] = IF k = n THEN t[m] ELSE IF k = m THEN t[n] ELSE t[k]
  BY <1>1, <1>2, <1>3
<1> HIDE DEF u
<1>7. m = l + 1 - n
  BY DEF m
<1>8. ASSUME NEW k \in 1 .. l
      PROVE  u[k] = IF k < n + 1 \/ k > l + 1 - (n + 1) THEN s[l + 1 - k] ELSE s[k]
  <2>1. t[m] = s[m] /\ t[n] = s[n] /\ l + 1 - m = n
    <3>1. m \in Int /\ n \in Int /\ n \in 1 .. l /\ ~ (n < n) /\ ~ (n > m)
          /\ ~ (m < n) /\ ~ (m > m) /\ l + 1 - m = n
      BY <1>1, <1>2, <1>7
    <3> QED  BY <1>1, <1>2, <3>1
  <2>2. CASE k = n
    BY <1>1, <1>2, <1>6, <1>7, <2>1, <2>2
  <2>3. CASE k = m
    BY <1>1, <1>2, <1>6, <1>7, <2>1, <2>3
  <2>4. CASE k # n /\ k # m
    <3>1. u[k] = t[k]
      BY <1>6, <2>4
    <3>2. k < n + 1 <=> k < n
      BY <1>1, <2>4
    <3>3. k > l + 1 - (n + 1) <=> k > m
      BY <1>1, <1>7, <2>4
    <3> QED  BY <1>1, <3>1, <3>2, <3>3
  <2> QED  BY <2>2, <2>3, <2>4
<1>9. Turned(u, s, n + 1)
  <2>1. n + 1 - 1 = n
    BY <1>1
  <2> QED  BY <1>2, <1>5, <1>8, <2>1 DEF Turned, l
<1> QED  BY <1>1, <1>9 DEF u, m, l

\* When the positions meet the whole text is turned round.
LEMMA AllTurned ==
  ASSUME NEW s \in Seq(Int), NEW t, NEW n, Turned(t, s, n), ~ (n < Len(t) + 1 - n)
  PROVE  t = Backwards(s)
<1>1. /\ t \in Seq(Int) /\ Len(t) = Len(s) /\ Len(s) \in Nat
      /\ n \in 1 .. Len(s)
      /\ \A k \in 1 .. Len(s) :
           t[k] = IF k < n \/ k > Len(s) + 1 - n THEN s[Len(s) + 1 - k] ELSE s[k]
  BY DEF Turned
<1>2. ASSUME NEW k \in 1 .. Len(s)
      PROVE  t[k] = s[Len(s) + 1 - k]
  <2>1. CASE k < n \/ k > Len(s) + 1 - n
    BY <1>1, <2>1
  <2>2. CASE ~ (k < n \/ k > Len(s) + 1 - n)
    <3>1. k = Len(s) + 1 - k
      <4> DEFINE l == Len(s)
      <4>1. l \in Nat /\ n \in 1 .. l /\ ~ (n < l + 1 - n)
        BY <1>1
      <4>2. k \in 1 .. l /\ k >= n /\ k <= l + 1 - n
        BY <1>1, <2>2
      <4> HIDE DEF l
      <4>3. k = l + 1 - k
        BY <4>1, <4>2
      <4> QED  BY <4>3 DEF l
    <3>2. t[k] = s[k]
      BY <1>1, <2>2
    <3> QED  BY <3>1, <3>2
  <2> QED  BY <2>1, <2>2
<1> QED  BY <1>1, <1>2, OnlyBackwards

\* At first nothing has been copied,
LEMMA NothingCopied ==
  ASSUME NEW s \in Seq(Int)
  PROVE  Copied(s, << >>, s)
BY DEF Copied

\* the last digit is copied next,
LEMMA LastCopied ==
  ASSUME NEW s \in Seq(Int), NEW t, NEW u, Copied(t, u, s), t # << >>
  PROVE  Copied(SubSeq(t, 1, Len(t) - 1), Append(u, t[Len(t)]), s)
<1> DEFINE l == Len(t)
           v == SubSeq(t, 1, l - 1)
           w == Append(u, t[l])
<1>1. /\ t \in Seq(Int) /\ u \in Seq(Int) /\ Len(t) + Len(u) = Len(s)
      /\ \A k \in 1 .. Len(t) : t[k] = s[k]
      /\ \A k \in 1 .. Len(u) : u[k] = s[Len(s) + 1 - k]
      /\ l \in Nat /\ l >= 1 /\ Len(u) \in Nat /\ Len(s) \in Nat
  BY DEF Copied
<1>2. /\ v \in Seq(Int) /\ Len(v) = l - 1
      /\ \A k \in 1 .. l - 1 : v[k] = t[k]
  <2>1. \A k \in 1 .. l - 1 : t[k] \in Int
    BY <1>1
  <2>2. l - 1 \in Int /\ 1 \in Int /\ l - 1 \in Nat
    BY <1>1
  <2> HIDE DEF l
  <2>3. /\ v \in Seq(Int)
        /\ Len(v) = IF 1 <= l - 1 THEN l - 1 - 1 + 1 ELSE 0
        /\ \A k \in 1 .. l - 1 - 1 + 1 : v[k] = t[1 + k - 1]
    BY <2>1, <2>2, SubSeqProperties
  <2> QED  BY <1>1, <2>2, <2>3
<1>3. t[l] = s[l] /\ t[l] \in Int
  BY <1>1
<1>4. /\ w \in Seq(Int) /\ Len(w) = Len(u) + 1
      /\ \A k \in 1 .. Len(u) : w[k] = u[k]
      /\ w[Len(u) + 1] = t[l]
  BY <1>1, <1>3, AppendProperties
<1> HIDE DEF v, w
<1>5. \A k \in 1 .. Len(v) : v[k] = s[k]
  BY <1>1, <1>2
<1>6. ASSUME NEW k \in 1 .. Len(w)
      PROVE  w[k] = s[Len(s) + 1 - k]
  <2>1. CASE k = Len(u) + 1
    <3>1. Len(s) + 1 - k = l
      BY <1>1, <2>1
    <3> QED  BY <1>3, <1>4, <2>1, <3>1
  <2>2. CASE k # Len(u) + 1
    <3>1. k \in 1 .. Len(u)
      BY <1>1, <1>4, <2>2
    <3> QED  BY <1>1, <1>4, <3>1
  <2> QED  BY <2>1, <2>2
<1>7. Len(v) + Len(w) = Len(s)
  <2> DEFINE x == Len(t)
             y == Len(u)
  <2>1. Len(v) = x - 1 /\ Len(w) = y + 1
    BY <1>2, <1>4
  <2>2. x \in Nat /\ y \in Nat /\ x + y = Len(s)
    BY <1>1
  <2> HIDE DEF x, y
  <2>3. x - 1 + (y + 1) = x + y
    BY <2>2
  <2> QED  BY <2>1, <2>2, <2>3
<1>8. Copied(v, w, s)
  BY <1>2, <1>4, <1>5, <1>6, <1>7 DEF Copied
<1> QED  BY <1>8 DEF v, w

\* and when no digit is left the copy is the text turned round.
LEMMA AllCopied ==
  ASSUME NEW s \in Seq(Int), NEW u, Copied(<< >>, u, s)
  PROVE  u = Backwards(s)
<1>1. u \in Seq(Int) /\ Len(u) = Len(s) /\ \A k \in 1 .. Len(u) : u[k] = s[Len(s) + 1 - k]
  BY DEF Copied
<1> QED  BY <1>1, OnlyBackwards

----------------------------------------------------------------------------
(***************************************************************************)
(* Each step keeps the invariant.                                          *)
(***************************************************************************)
\* At first nothing is being printed.
LEMMA AtFirst == ConversionsInit => ConversionsInv
<1> SUFFICES ASSUME ConversionsInit
             PROVE  ConversionsInv
  OBVIOUS
<1>1. PcOK
  <2>1. "cu" \in DOMAIN conversion
    BY DEF conversion
  <2> QED  BY <2>1 DEF ConversionsInit, PcOK
<1> QED
  BY <1>1 DEF ConversionsInit, ConversionsInv, DigitsOK, TurnedOK, CopiedOK, TextOK

\* A call, and the number it is about.
LEMMA CallStarts ==
  ASSUME NEW f \in DOMAIN conversion, NEW w \in Words,
         format' = f, word' = w
  PROVE  /\ chosen' = conversion[f] /\ Legal(chosen') /\ chosen'.base \in Bases
         /\ Arg' = Argument(conversion[f], w) /\ Arg' \in Int /\ Start' \in Int
<1>1. chosen' = conversion[f] /\ Legal(conversion[f])
  BY Cases DEF chosen
<1>2. Arg' = Argument(conversion[f], w)
  BY <1>1 DEF Arg
<1>3. /\ conversion[f].fn \in {"itoa", "itoa64"} /\ conversion[f].base \in Bases
  BY <1>1 DEF Legal, Bases
<1>4. Argument(conversion[f], w) \in Int
  <2>1. Power(2, LONG) \in Int /\ MinInt \in Int
    BY Widths, TwoPowers, Ints
  <2>2. w \in Words \cup {0}
    OBVIOUS
  <2> QED  BY <1>1, <1>3, <2>1, <2>2, Arguments
<1>5. ToInt(-Argument(conversion[f], w)) \in Int
  <2>1. -Argument(conversion[f], w) \in Int
    BY <1>4
  <2> QED  BY <2>1, Ints
<1>6. Start' = IF is_negative' THEN ToInt(-Arg') ELSE Arg'
  BY DEF Start
<1> QED  BY <1>1, <1>2, <1>3, <1>4, <1>5, <1>6

\* itoa is called: nothing has been taken yet.
LEMMA ItoaStep ==
  ASSUME ConversionsInv, NEW f \in DOMAIN conversion, NEW w \in Words, itoa(f, w)
  PROVE  ConversionsInv'
<1>1. /\ pc = "idle" /\ conversion[f].fn = "itoa" /\ pc' = "itoa"
      /\ format' = f /\ word' = w
      /\ is_negative' = Negated(conversion[f], Argument(conversion[f], w))
      /\ value' = IF is_negative' THEN ToInt(-Argument(conversion[f], w))
                  ELSE Argument(conversion[f], w)
      /\ str' = << >> /\ buffer' = << >>
  BY DEF itoa, ConversionsInv, PcOK
<1>2. /\ chosen' = conversion[f] /\ chosen'.base \in Bases
      /\ Arg' = Argument(conversion[f], w) /\ Start' \in Int
  BY <1>1, CallStarts
<1>3. PcOK'
  <2>1. is_negative' <=> chosen'.fn = "itoa" /\ Negated(chosen', Arg')
    BY <1>1, <1>2
  <2>2. is_negative' \in BOOLEAN
    BY <1>1 DEF Negated
  <2> QED  BY <1>1, <1>2, <2>1, <2>2 DEF PcOK
<1>4. value' = Start'
  BY <1>1, <1>2 DEF Start
<1>5. Taken(chosen'.base, Start', str', value')
  BY <1>1, <1>2, <1>4, NothingTaken
<1> QED
  BY <1>1, <1>3, <1>5 DEF ConversionsInv, DigitsOK, TurnedOK, CopiedOK, TextOK

\* Nought has one digit.
LEMMA Nought ==
  ASSUME NEW b \in Bases
  PROVE  Finished(b, 0, <<0>>) /\ Backwards(<<0>>) = <<0>>
<1>1. b \in Nat \ {0}
  BY DEF Bases
<1>2. Quot(0, b) = 0 /\ Rem(0, b) = 0
  <2> DEFINE z == 0
  <2>1. /\ Quot(z, b) \in Int /\ Quot(z, b) = z \div b /\ Rem(z, b) = z % b
        /\ Quot(z, b) >= 0 /\ Abs(Quot(z, b)) * b <= Abs(z)
    BY <1>1, DivisionToZero
  <2>2. z % b = 0
    BY <1>1, SmallRemainder
  <2> DEFINE q == Quot(z, b)
             x == Abs(q)
  <2>3. q \in Int /\ q >= 0 /\ x = q /\ x * b <= 0
    BY <2>1 DEF Abs
  <2>4. Rem(z, b) = 0
    BY <2>1, <2>2
  <2> HIDE DEF q, x, z
  <2>5. q > 0 => q * b > 0
    BY <1>1, <2>3
  <2>6. q = 0
    <3> DEFINE y == q * b
    <3>1. y <= 0 /\ (q > 0 => y > 0)
      BY <2>3, <2>5
    <3>2. y \in Int
      BY <1>1, <2>3
    <3> HIDE DEF y
    <3> QED  BY <2>3, <3>1, <3>2
  <2> QED  BY <2>4, <2>6 DEF q, z
<1> DEFINE e == << >>
<1>3. Taken(b, 0, e, 0)
  BY NothingTaken
<1>4. Taken(b, 0, Append(e, 0), 0)
  <2> DEFINE z == 0
  <2>1. /\ z \in Int /\ Taken(b, z, e, z) /\ (z # 0 \/ e = << >>)
        /\ b = 16 => z >= 0
    BY <1>3
  <2>2. Taken(b, 0, Append(e, Rem(0, b)), Quot(0, b))
    <3> HIDE DEF z, e
    <3>1. Taken(b, z, Append(e, Rem(z, b)), Quot(z, b))
      BY <2>1, DigitTaken
    <3> QED  BY <3>1 DEF z
  <2> QED  BY <1>2, <2>2
<1>5. Append(e, 0) = <<0>>
  OBVIOUS
<1>6. Backwards(<<0>>) = <<0>>
  <2> DEFINE s == <<0>>
  <2>1. s \in Seq(Int) /\ Len(s) = 1 /\ \A k \in 1 .. 1 : s[k] = s[Len(s) + 1 - k]
    OBVIOUS
  <2> HIDE DEF s
  <2> QED  BY <2>1, OnlyBackwards DEF s
<1> QED  BY <1>4, <1>5, <1>6 DEF Finished

\* itoa64 is called: nought has its digit at once.
LEMMA Itoa64Step ==
  ASSUME ConversionsInv, NEW f \in DOMAIN conversion, NEW w \in Words, itoa64(f, w)
  PROVE  ConversionsInv'
<1>1. /\ pc = "idle" /\ conversion[f].fn = "itoa64"
      /\ format' = f /\ word' = w /\ value' = Argument(conversion[f], w)
      /\ IF value' = 0
           THEN pc' = "pad" /\ str' = <<0>>
           ELSE pc' = "itoa64" /\ str' = str
      /\ str = << >> /\ buffer' = << >> /\ ~is_negative' /\ is_negative' \in BOOLEAN
  BY DEF itoa64, ConversionsInv, PcOK
<1>2. /\ chosen' = conversion[f] /\ chosen'.base \in Bases
      /\ Arg' = Argument(conversion[f], w) /\ Start' \in Int
  BY <1>1, CallStarts
<1>3. PcOK'
  BY <1>1, <1>2 DEF PcOK
<1>4. value' = Start'
  BY <1>1, <1>2 DEF Start
<1>5. CASE value' = 0
  <2>1. Finished(chosen'.base, Start', <<0>>) /\ Backwards(<<0>>) = <<0>>
    BY <1>2, <1>4, <1>5, Nought
  <2>2. SignedText(is_negative', <<0>>) = <<0>>
    BY <1>1 DEF SignedText
  <2>3. str' = Backwards(SignedText(is_negative', <<0>>)) /\ pc' = "pad"
    BY <1>1, <1>5, <2>1, <2>2
  <2>4. TextOK'
    BY <2>1, <2>3 DEF TextOK
  <2> QED  BY <1>3, <2>3, <2>4 DEF ConversionsInv, DigitsOK, TurnedOK, CopiedOK
<1>6. CASE value' # 0
  <2>1. str' = << >> /\ pc' = "itoa64"
    BY <1>1, <1>6
  <2>2. Taken(chosen'.base, Start', str', value')
    BY <1>2, <1>4, <2>1, NothingTaken
  <2> QED
    BY <1>3, <2>1, <2>2 DEF ConversionsInv, DigitsOK, TurnedOK, CopiedOK, TextOK
<1> QED  BY <1>5, <1>6

\* A digit is taken, in either function.
LEMMA DigitStep ==
  ASSUME ConversionsInv, pc \in {"itoa", "itoa64"},
         str' = Append(str, Rem(value, chosen.base)), value' = Quot(value, chosen.base),
         UNCHANGED <<format, word, is_negative>>
  PROVE  /\ chosen' = chosen /\ Arg' = Arg /\ Start' = Start
         /\ Taken(chosen.base, Start, str', value') /\ str' # << >>
<1>1. chosen' = chosen /\ Arg' = Arg /\ Start' = Start
  BY Kept
<1>2. /\ chosen.base \in Bases /\ Start \in Int
      /\ chosen.base = 16 => Start >= 0
  BY Starts DEF ConversionsInv
<1>3. Taken(chosen.base, Start, str, value) /\ (value # 0 \/ str = << >>)
  BY DEF ConversionsInv, DigitsOK
<1>4. Taken(chosen.base, Start, str', value')
  BY <1>2, <1>3, DigitTaken
<1>5. str \in Seq(Digits)
  BY <1>3 DEF Taken
<1>6. str' # << >>
  <2>1. Len(Append(str, Rem(value, chosen.base))) = Len(str) + 1 /\ Len(str) \in Nat
    BY <1>5
  <2> QED  BY <2>1
<1> QED  BY <1>1, <1>4, <1>6

\* A turn of the loop of itoa.
LEMMA ItoaDigitStep ==
  ASSUME ConversionsInv, itoa_digit
  PROVE  ConversionsInv'
<1>1. /\ pc = "itoa"
      /\ str' = Append(str, Rem(value, chosen.base)) /\ value' = Quot(value, chosen.base)
      /\ pc' = IF value' = 0 THEN "sign" ELSE "itoa"
      /\ UNCHANGED <<format, word, is_negative, buffer>>
  BY DEF itoa_digit
<1>2. /\ chosen' = chosen /\ Arg' = Arg /\ Start' = Start
      /\ Taken(chosen'.base, Start', str', value') /\ str' # << >>
  BY <1>1, DigitStep
<1>3. PcOK'
  BY <1>1, <1>2 DEF ConversionsInv, PcOK
<1>4. DigitsOK'
  BY <1>1, <1>2 DEF DigitsOK, Finished
<1> QED  BY <1>1, <1>3, <1>4 DEF ConversionsInv, TurnedOK, CopiedOK, TextOK

\* A turn of the loop of itoa64, whose value is never negative.
LEMMA Itoa64DigitStep ==
  ASSUME ConversionsInv, itoa64_digit
  PROVE  ConversionsInv'
<1>1. /\ pc = "itoa64"
      /\ str' = Append(str, value % chosen.base) /\ value' = value \div chosen.base
      /\ pc' = IF value' = 0 THEN "copy" ELSE "itoa64"
      /\ UNCHANGED <<format, word, is_negative, buffer>>
  BY DEF itoa64_digit
<1>2. chosen.base \in Nat \ {0} /\ value \in Int /\ value >= 0
  <2>1. chosen.fn = "itoa64" /\ Taken(chosen.base, Start, str, value)
    BY <1>1 DEF ConversionsInv, PcOK, DigitsOK
  <2>2. chosen.base \in Bases /\ Start >= 0
    <3>1. chosen.base \in Bases /\ Start \in 0 .. Power(2, LONG) - 1
      BY <1>1, <2>1, Starts DEF ConversionsInv
    <3>2. Power(2, LONG) \in Int
      BY Widths, TwoPowers
    <3> QED  BY <3>1, <3>2
  <2> QED  BY <2>1, <2>2 DEF Taken, Bases
<1>3. /\ Quot(value, chosen.base) = value \div chosen.base
      /\ Rem(value, chosen.base) = value % chosen.base
  BY <1>2, DivisionToZero
<1>4. /\ chosen' = chosen /\ Arg' = Arg /\ Start' = Start
      /\ Taken(chosen'.base, Start', str', value') /\ str' # << >>
  BY <1>1, <1>3, DigitStep
<1>5. PcOK'
  BY <1>1, <1>4 DEF ConversionsInv, PcOK
<1>6. DigitsOK'
  BY <1>1, <1>4 DEF DigitsOK
<1>7. CopiedOK'
  <2> SUFFICES ASSUME pc' = "copy"
               PROVE  \E d : Finished(chosen'.base, Start', d) /\ Copied(str', buffer', d)
    BY DEF CopiedOK
  <2>1. value' = 0 /\ buffer' = << >>
    BY <1>1 DEF ConversionsInv, PcOK
  <2>2. Finished(chosen'.base, Start', str')
    BY <1>4, <2>1 DEF Finished
  <2>3. str' \in Seq(Int)
    BY <1>4, DigitsAreInts DEF Taken
  <2>4. Copied(str', buffer', str')
    BY <2>1, <2>3, NothingCopied
  <2> QED  BY <2>2, <2>4
<1> QED  BY <1>1, <1>5, <1>6, <1>7 DEF ConversionsInv, TurnedOK, TextOK

\* The sign is put behind the digits.
LEMMA SignStep ==
  ASSUME ConversionsInv, itoa_sign
  PROVE  ConversionsInv'
<1>1. /\ pc = "sign" /\ str' = SignedText(is_negative, str) /\ pc' = "reverse" /\ i' = 1
      /\ UNCHANGED <<format, word, is_negative, buffer>>
  BY DEF itoa_sign, SignedText
<1>2. chosen' = chosen /\ Arg' = Arg /\ Start' = Start
  BY <1>1, Kept
<1>3. PcOK'
  BY <1>1, <1>2 DEF ConversionsInv, PcOK
<1>4. Finished(chosen.base, Start, str) /\ is_negative \in BOOLEAN
  BY <1>1 DEF ConversionsInv, PcOK, DigitsOK
<1>5. Turned(str', str', i')
  <2>1. str' \in Seq(Int) /\ Len(str') >= 1
    BY <1>1, <1>4, SignedTextIs
  <2> QED  BY <1>1, <2>1, NothingTurned
<1>6. TurnedOK'
  BY <1>1, <1>2, <1>4, <1>5 DEF TurnedOK
<1> QED  BY <1>1, <1>3, <1>6 DEF ConversionsInv, DigitsOK, CopiedOK, TextOK

\* A turn of the loop of reverse.
LEMMA ReverseStep ==
  ASSUME ConversionsInv, reverse
  PROVE  ConversionsInv'
<1>1. /\ pc = "reverse"
      /\ UNCHANGED <<format, word, is_negative, buffer>>
  BY DEF reverse
<1>2. chosen' = chosen /\ Arg' = Arg /\ Start' = Start
  BY <1>1, Kept
<1>3. is_negative \in BOOLEAN
  BY DEF ConversionsInv, PcOK
<1>4. PICK d : Finished(chosen.base, Start, d) /\ Turned(str, SignedText(is_negative, d), i)
  BY <1>1 DEF ConversionsInv, TurnedOK
<1> DEFINE s == SignedText(is_negative, d)
<1>5. s \in Seq(Int)
  BY <1>3, <1>4, SignedTextIs
<1>6. Finished(chosen'.base, Start', d) /\ s = SignedText(is_negative', d)
  BY <1>1, <1>2, <1>4
<1> HIDE DEF s
<1>7. CASE i < Len(str) + 1 - i
  <2>1. /\ str' = [str EXCEPT ![i] = str[Len(str) + 1 - i], ![Len(str) + 1 - i] = str[i]]
        /\ i' = i + 1 /\ pc' = pc
    BY <1>7 DEF reverse
  <2>2. Turned(str', s, i')
    BY <1>4, <1>5, <1>7, <2>1, TwoTurned DEF s
  <2>3. PcOK'
    BY <1>1, <1>2, <2>1 DEF ConversionsInv, PcOK
  <2>4. TurnedOK'
    BY <1>6, <2>2 DEF TurnedOK
  <2> QED  BY <1>1, <2>1, <2>3, <2>4 DEF ConversionsInv, DigitsOK, CopiedOK, TextOK
<1>8. CASE ~ (i < Len(str) + 1 - i)
  <2>1. str' = str /\ pc' = "pad"
    BY <1>8 DEF reverse
  <2>2. str' = Backwards(s)
    BY <1>4, <1>5, <1>8, <2>1, AllTurned DEF s
  <2>3. PcOK'
    BY <1>1, <1>2, <2>1 DEF ConversionsInv, PcOK
  <2>4. TextOK'
    BY <1>6, <2>1, <2>2 DEF TextOK
  <2> QED  BY <1>1, <2>1, <2>3, <2>4 DEF ConversionsInv, DigitsOK, TurnedOK, CopiedOK
<1> QED  BY <1>7, <1>8

\* A turn of the loop that copies the digits to the buffer.
LEMMA CopyStep ==
  ASSUME ConversionsInv, itoa64_copy
  PROVE  ConversionsInv'
<1>1. pc = "copy" /\ UNCHANGED <<format, word, is_negative>>
  BY DEF itoa64_copy
<1>2. chosen' = chosen /\ Arg' = Arg /\ Start' = Start
  BY <1>1, Kept
<1>3. ~is_negative /\ ~is_negative'
  BY <1>1 DEF ConversionsInv, PcOK
<1>4. PICK d : Finished(chosen.base, Start, d) /\ Copied(str, buffer, d)
  BY <1>1 DEF ConversionsInv, CopiedOK
<1>5. d \in Seq(Int)
  BY <1>4, SignedTextIs
<1>6. Finished(chosen'.base, Start', d)
  BY <1>2, <1>4
<1>7. CASE str # << >>
  <2>1. /\ buffer' = Append(buffer, str[Len(str)])
        /\ str' = SubSeq(str, 1, Len(str) - 1) /\ pc' = pc
    BY <1>7 DEF itoa64_copy
  <2>2. Copied(str', buffer', d)
    BY <1>4, <1>5, <1>7, <2>1, LastCopied
  <2>3. PcOK'
    BY <1>1, <1>2, <2>1 DEF ConversionsInv, PcOK
  <2>4. CopiedOK'
    BY <1>6, <2>2 DEF CopiedOK
  <2> QED  BY <1>1, <2>1, <2>3, <2>4 DEF ConversionsInv, DigitsOK, TurnedOK, TextOK
<1>8. CASE str = << >>
  <2>1. str' = buffer /\ buffer' = << >> /\ pc' = "pad"
    BY <1>8 DEF itoa64_copy
  <2>2. str' = Backwards(SignedText(is_negative', d))
    <3>1. buffer = Backwards(d)
      BY <1>4, <1>5, <1>8, AllCopied
    <3> QED  BY <1>3, <2>1, <3>1 DEF SignedText
  <2>3. PcOK'
    BY <1>1, <1>2, <2>1 DEF ConversionsInv, PcOK
  <2>4. TextOK'
    BY <1>6, <2>1, <2>2 DEF TextOK
  <2> QED  BY <1>1, <2>1, <2>3, <2>4 DEF ConversionsInv, DigitsOK, TurnedOK, CopiedOK
<1> QED  BY <1>7, <1>8

\* The zeros in front.
LEMMA PadStep ==
  ASSUME ConversionsInv, pad
  PROVE  ConversionsInv'
<1>1. /\ pc = "pad" /\ pc' = "done" /\ str' = Filled(str, chosen.pad)
      /\ UNCHANGED <<format, word, is_negative, buffer>>
  BY DEF pad, Filled
<1>2. chosen' = chosen /\ Arg' = Arg /\ Start' = Start
  BY <1>1, Kept
<1>3. PcOK'
  BY <1>1, <1>2 DEF ConversionsInv, PcOK
<1>4. PICK d : Finished(chosen.base, Start, d) /\ str = Backwards(SignedText(is_negative, d))
  BY <1>1 DEF ConversionsInv, TextOK
<1>5. TextOK'
  BY <1>1, <1>2, <1>4 DEF TextOK
<1> QED  BY <1>1, <1>3, <1>5 DEF ConversionsInv, DigitsOK, TurnedOK, CopiedOK

\* The text is printed, and nothing is left of the call.
LEMMA PrintStep ==
  ASSUME ConversionsInv, print
  PROVE  ConversionsInv'
<1>1. /\ pc = "done" /\ pc' = "idle" /\ format' = "cu" /\ word' = 0
      /\ is_negative' = FALSE /\ str' = << >> /\ buffer' = << >>
  BY DEF print, ConversionsInv, PcOK
<1>2. "cu" \in DOMAIN conversion
  BY DEF conversion
<1>3. PcOK'
  BY <1>1, <1>2 DEF PcOK
<1> QED  BY <1>1, <1>3 DEF ConversionsInv, DigitsOK, TurnedOK, CopiedOK, TextOK

\* Elsewhere nothing happens here.
LEMMA StutterStep ==
  ASSUME ConversionsInv, UNCHANGED conversionsVars
  PROVE  ConversionsInv'
<1>1. UNCHANGED <<pc, format, word, value, is_negative, str, buffer, i>>
  BY DEF conversionsVars
<1>2. chosen' = chosen /\ Arg' = Arg /\ Start' = Start
  BY <1>1, Kept
<1> QED
  BY <1>1, <1>2 DEF ConversionsInv, PcOK, DigitsOK, TurnedOK, CopiedOK, TextOK

\* Every step keeps the invariant.
LEMMA ConversionsStep ==
  ConversionsInv /\ [ConversionsNext]_conversionsVars => ConversionsInv'
<1> SUFFICES ASSUME ConversionsInv, [ConversionsNext]_conversionsVars
             PROVE  ConversionsInv'
  OBVIOUS
<1>1. CASE \E f \in DOMAIN conversion, w \in Words : itoa(f, w) \/ itoa64(f, w)
  BY <1>1, ItoaStep, Itoa64Step
<1>2. CASE Turn
  BY <1>2, ItoaDigitStep, SignStep, ReverseStep, Itoa64DigitStep, CopyStep, PadStep,
     PrintStep DEF Turn
<1>3. CASE UNCHANGED conversionsVars
  BY <1>3, StutterStep
<1> QED  BY <1>1, <1>2, <1>3 DEF ConversionsNext

----------------------------------------------------------------------------
(***************************************************************************)
(* What the text says, and how long it is.                                 *)
(***************************************************************************)
\* Zeros in front of what is shorter than the padding.
LEMMA FilledIs ==
  ASSUME NEW t \in Seq(Int), NEW n \in Nat
  PROVE  LET m == IF Len(t) < n THEN n - Len(t) ELSE 0
         IN  /\ m \in Nat /\ Filled(t, n) \in Seq(Int) /\ Len(Filled(t, n)) = m + Len(t)
             /\ \A k \in 1 .. m : Filled(t, n)[k] = 0
             /\ \A k \in 1 .. Len(t) : Filled(t, n)[m + k] = t[k]
<1> DEFINE m == IF Len(t) < n THEN n - Len(t) ELSE 0
           z == [k \in 1 .. n - Len(t) |-> 0]
<1>1. m \in Nat /\ Len(t) \in Nat
  OBVIOUS
<1>2. z = [k \in 1 .. m |-> 0]
  <2>1. 1 .. n - Len(t) = 1 .. m
    BY <1>1
  <2> QED  BY <2>1
<1> HIDE DEF m
<1>3. Filled(t, n) = z \o t
  BY DEF Filled
<1> HIDE DEF z
<1>4. z \in Seq(Int) /\ Len(z) = m /\ \A k \in 1 .. m : z[k] = 0
  <2>1. z \in [1 .. m -> Int] /\ \A k \in 1 .. m : z[k] = 0
    BY <1>2
  <2>2. z \in Seq(Int) /\ Len(z) = m
    BY <1>1, <2>1
  <2> QED  BY <2>1, <2>2
<1>5. /\ z \o t \in Seq(Int) /\ Len(z \o t) = m + Len(t)
      /\ \A k \in 1 .. m + Len(t) : (z \o t)[k] = IF k <= m THEN z[k] ELSE t[k - m]
  BY <1>1, <1>4, ConcatProperties
<1>6. \A k \in 1 .. m : (z \o t)[k] = 0
  BY <1>1, <1>4, <1>5
<1>7. ASSUME NEW k \in 1 .. Len(t)
      PROVE  (z \o t)[m + k] = t[k]
  <2> DEFINE j == m + k
  <2>1. j \in 1 .. m + Len(t) /\ ~ (j <= m) /\ j - m = k
    BY <1>1
  <2> HIDE DEF j
  <2>2. (z \o t)[j] = t[k]
    BY <1>5, <2>1
  <2> QED  BY <2>2 DEF j
<1> QED  BY <1>1, <1>3, <1>5, <1>6, <1>7 DEF m

\* The finished text fits its buffer and its padding.
LEMMA TextLengths ==
  ASSUME PcOK, pc # "idle", NEW d, Finished(chosen.base, Start, d)
  PROVE  LET t == Backwards(SignedText(is_negative, d))
         IN  /\ t \in Seq(Int)
             /\ Len(t) + 1 <= chosen.size \/ (Arg = MinInt /\ chosen.base = 2)
             /\ ~Unprintable /\ chosen.pad > 0 => Len(t) <= chosen.pad
<1> DEFINE t == Backwards(SignedText(is_negative, d))
           l == Len(d)
<1>1. /\ t \in Seq(Int) /\ Len(t) = l + (IF is_negative THEN 1 ELSE 0)
  <2>1. is_negative \in BOOLEAN
    BY DEF PcOK
  <2>2. /\ SignedText(is_negative, d) \in Seq(Int)
        /\ Len(SignedText(is_negative, d)) = l + (IF is_negative THEN 1 ELSE 0)
    BY <2>1, SignedTextIs
  <2> QED  BY <2>2, BackwardsIs
<1>2. /\ l \in Nat
      /\ chosen.fn = "itoa" /\ chosen.base = 10 => l + 2 <= INT
      /\ chosen.base = 2 => l <= INT /\ (Arg = MinInt \/ l + 1 <= INT)
      /\ chosen.fn = "itoa64" => l + 1 <= INT
      /\ chosen.base = 16 => l <= LONG \div 4
  BY Lengths DEF Finished
<1>3. /\ INT \in Nat /\ INT >= 3 /\ LONG \in Nat /\ LONG > INT /\ LONG \div 4 \in Nat
  BY Widths
<1>4. /\ Legal(chosen)
      /\ is_negative => chosen.fn = "itoa" /\ chosen.base = 10
  BY Starts
<1> DEFINE m == LONG \div 4
           n == Len(t)
<1> HIDE DEF t, l, m, n
<1>5. /\ n = l + (IF is_negative THEN 1 ELSE 0) /\ l \in Nat /\ m \in Nat
      /\ chosen.base = 16 => l <= m
  BY <1>1, <1>2, <1>3 DEF n, m
<1>6. CASE chosen.fn = "itoa"
  <2>1. \/ chosen.base = 10 /\ chosen.size = INT /\ chosen.pad = 0
        \/ chosen.base = 2 /\ chosen.size = INT /\ chosen.pad = 0
        \/ chosen.base = 2 /\ chosen.size = LONG + 1 /\ chosen.pad = LONG
    BY <1>4, <1>6 DEF Legal
  <2> QED  BY <1>1, <1>2, <1>3, <1>4, <1>5, <1>6, <2>1 DEF n, t
<1>7. CASE chosen.fn = "itoa64"
  <2>1. \/ chosen.size = INT /\ chosen.pad = 0
        \/ chosen.base = 16 /\ chosen.size = m + 4 /\ chosen.pad = m
    BY <1>4, <1>7 DEF Legal, m
  <2>2. ~is_negative
    BY <1>4, <1>7
  <2> QED  BY <1>1, <1>2, <1>3, <1>5, <1>7, <2>1, <2>2 DEF n, t
<1> QED  BY <1>4, <1>6, <1>7 DEF Legal

\* The invariant says that texts fit,
LEMMA TextFitsNow == ConversionsInv => FitsBuffer
<1> SUFFICES ASSUME ConversionsInv, pc \in {"itoa", "sign", "reverse", "pad"}
             PROVE  Len(str) + 1 <= chosen.size \/ (Arg = MinInt /\ chosen.base = 2)
  BY DEF FitsBuffer
<1>1. PcOK /\ pc # "idle"
  BY DEF ConversionsInv
<1>2. CASE pc \in {"itoa", "sign"}
  <2>1. PICK v : Taken(chosen.base, Start, str, v)
    BY <1>2 DEF ConversionsInv, DigitsOK, Finished
  <2>2. chosen.fn = "itoa"
    BY <1>1, <1>2 DEF PcOK
  <2>3. Legal(chosen)
    BY <1>1, Starts
  <2>4. /\ Len(str) \in Nat
        /\ chosen.base = 10 => Len(str) + 2 <= INT
        /\ chosen.base = 2 => (Arg = MinInt \/ Len(str) + 1 <= INT)
    BY <1>1, <2>1, <2>2, Lengths
  <2>5. INT \in Nat /\ LONG \in Nat /\ LONG > INT
    BY Widths
  <2>6. \/ chosen.base = 10 /\ chosen.size = INT
        \/ chosen.base = 2 /\ chosen.size \in {INT, LONG + 1}
    BY <2>2, <2>3 DEF Legal
  <2> QED  BY <2>4, <2>5, <2>6
<1>3. CASE pc = "reverse"
  <2>1. PICK d : Finished(chosen.base, Start, d) /\ Turned(str, SignedText(is_negative, d), i)
    BY <1>3 DEF ConversionsInv, TurnedOK
  <2>2. is_negative \in BOOLEAN
    BY <1>1 DEF PcOK
  <2>3. Len(str) = Len(Backwards(SignedText(is_negative, d)))
    <3>1. SignedText(is_negative, d) \in Seq(Int)
      BY <2>1, <2>2, SignedTextIs
    <3> QED  BY <2>1, <3>1, BackwardsIs DEF Turned
  <2> QED  BY <1>1, <2>1, <2>3, TextLengths
<1>4. CASE pc = "pad"
  <2>1. PICK d : /\ Finished(chosen.base, Start, d)
                 /\ str = Backwards(SignedText(is_negative, d))
    BY <1>4 DEF ConversionsInv, TextOK
  <2> QED  BY <1>1, <2>1, TextLengths
<1> QED  BY <1>2, <1>3, <1>4

\* and that what is printed is the number.
LEMMA NumberPrintedNow == ConversionsInv => PrintsTheNumber
<1> SUFFICES ASSUME ConversionsInv, pc = "done", ~Unprintable
             PROVE  /\ Signed(str, chosen.base) = Arg
                    /\ chosen.pad > 0 => Len(str) = chosen.pad
  BY DEF PrintsTheNumber
<1>1. PcOK /\ pc # "idle" /\ is_negative \in BOOLEAN
  BY DEF ConversionsInv, PcOK
<1>2. PICK d : /\ Finished(chosen.base, Start, d)
               /\ str = Filled(Backwards(SignedText(is_negative, d)), chosen.pad)
  BY DEF ConversionsInv, TextOK
<1> DEFINE t == Backwards(SignedText(is_negative, d))
           b == chosen.base
           n == chosen.pad
           m == IF Len(t) < n THEN n - Len(t) ELSE 0
<1>3. /\ Legal(chosen) /\ b \in Bases /\ Start \in Int
      /\ is_negative => chosen.fn = "itoa" /\ b = 10
      /\ Start >= 0 /\ Arg = IF is_negative THEN -Start ELSE Start
  BY <1>1, Starts
<1>4. t \in Seq(Int) /\ (n > 0 => Len(t) <= n)
  BY <1>1, <1>2, TextLengths
<1>5. n \in Nat /\ (is_negative => n = 0)
  <2>1. LONG \in Nat /\ LONG \div 4 \in Nat
    BY Widths
  <2> QED  BY <1>3, <2>1 DEF Legal
<1>6. /\ m \in Nat /\ str \in Seq(Int) /\ Len(str) = m + Len(t)
      /\ \A k \in 1 .. m : str[k] = 0
      /\ \A k \in 1 .. Len(t) : str[m + k] = t[k]
  BY <1>2, <1>4, <1>5, FilledIs
<1>7. n > 0 => Len(str) = n
  BY <1>4, <1>5, <1>6
<1>8. /\ d \in Seq(Int) /\ Len(d) >= 1 /\ Len(d) \in Nat
      /\ d \in Seq(0 .. 15) /\ Number(0, Backwards(d), b) = Start
  BY <1>1, <1>2, <1>3, SignedTextIs DEF Finished, Taken
<1>9. /\ Backwards(d) \in Seq(0 .. 15) /\ Backwards(d) \in Seq(Int)
      /\ Len(Backwards(d)) = Len(d)
  BY <1>8, BackwardsIs
<1> HIDE DEF t, m
<1>10. CASE is_negative
  <2>1. t = Backwards(Append(d, MINUS))
    BY <1>10 DEF t, SignedText
  <2>2. t[1] = MINUS /\ Tail(t) = Backwards(d) /\ Len(t) = Len(d) + 1
    <3>1. MINUS \in Int
      BY DEF MINUS
    <3>2. /\ Backwards(Append(d, MINUS))[1] = MINUS
          /\ Tail(Backwards(Append(d, MINUS))) = Backwards(d)
          /\ Len(Backwards(Append(d, MINUS))) = Len(d) + 1
      BY <1>8, <3>1, LastFirst
    <3> QED  BY <2>1, <3>2
  <2>3. str = t
    <3>1. m = 0
      BY <1>4, <1>5, <1>10 DEF m
    <3>2. Len(str) = Len(t) /\ \A k \in 1 .. Len(str) : str[k] = t[k]
      BY <1>4, <1>6, <3>1
    <3> QED  BY <1>4, <1>6, <3>2, SeqEqual
  <2>4. Signed(str, b) = -Number(0, Backwards(d), b)
    BY <2>2, <2>3 DEF Signed
  <2> QED  BY <1>3, <1>7, <1>8, <1>10, <2>4
<1>11. CASE ~is_negative
  <2>1. t = Backwards(d)
    BY <1>11 DEF t, SignedText
  <2>2. str[1] # MINUS
    <3>1. t[1] \in 0 .. 15 /\ 1 \in 1 .. Len(t)
      <4>1. 1 \in 1 .. Len(Backwards(d))
        BY <1>8, <1>9
      <4> QED  BY <1>9, <2>1, <4>1, ElementOfSeq
    <3>2. CASE m = 0
      BY <1>6, <3>1, <3>2 DEF MINUS
    <3>3. CASE m # 0
      BY <1>6, <3>3 DEF MINUS
    <3> QED  BY <3>2, <3>3
  <2>3. Number(0, str, b) = Number(0, t, b)
    <3>1. b \in Int
      BY <1>3 DEF Bases
    <3> QED  BY <1>4, <1>6, <3>1, ZerosInFront
  <2>4. Signed(str, b) = Number(0, str, b)
    BY <2>2 DEF Signed
  <2> QED  BY <1>3, <1>7, <1>8, <1>11, <2>1, <2>3, <2>4
<1> QED  BY <1>10, <1>11

----------------------------------------------------------------------------
\* Every number that itoa and itoa64 are made for is printed as what it is, and
\* addresses and %B with the same number of characters whatever their value
\* (stdio.c, printf; serial.c, printfs).
THEOREM NumbersArePrinted == ConversionsSpec => []PrintsTheNumber
<1>1. ConversionsSpec => []ConversionsInv
  BY AtFirst, ConversionsStep, PTL DEF ConversionsSpec
<1> QED  BY <1>1, NumberPrintedNow, PTL

\* No buffer of printf is too short for its number and the end of the text, except
\* for the smallest int in base two.
THEOREM NumbersFit == ConversionsSpec => []FitsBuffer
<1>1. ConversionsSpec => []ConversionsInv
  BY AtFirst, ConversionsStep, PTL DEF ConversionsSpec
<1> QED  BY <1>1, TextFitsNow, PTL

----------------------------------------------------------------------------
(***************************************************************************)
(* Types: what is left of a number lies between nought and the number, and *)
(* reverse stays inside the text.                                          *)
(***************************************************************************)
Symbols == {MINUS} \cup Digits

RestOK == i \in 1 .. LONG /\ (pc \notin {"itoa", "itoa64"} => value = 0)

\* A position of reverse is one of the text.
LEMMA RestStep ==
  ConversionsInv /\ RestOK /\ [ConversionsNext]_conversionsVars => RestOK'
<1> SUFFICES ASSUME ConversionsInv, RestOK, [ConversionsNext]_conversionsVars
             PROVE  RestOK'
  OBVIOUS
<1>1. 1 \in 1 .. LONG
  BY Widths
<1>2. ASSUME NEW f \in DOMAIN conversion, NEW w \in Words, itoa(f, w) \/ itoa64(f, w)
      PROVE  RestOK'
  BY <1>2 DEF itoa, itoa64, RestOK
<1>3. CASE itoa_digit \/ itoa64_digit
  BY <1>3 DEF itoa_digit, itoa64_digit, RestOK
<1>4. CASE itoa_sign \/ print
  BY <1>1, <1>4 DEF itoa_sign, print, RestOK
<1>5. CASE itoa64_copy \/ pad
  BY <1>5 DEF itoa64_copy, pad, RestOK
<1>6. CASE reverse
  <2>1. value' = value /\ pc = "reverse" /\ pc' \in {"reverse", "pad"}
    BY <1>6 DEF reverse
  <2>2. CASE i' = i
    BY <2>1, <2>2 DEF RestOK
  <2>3. CASE i' # i
    <3>1. i' = i + 1 /\ i < Len(str) + 1 - i
      BY <1>6, <2>3 DEF reverse
    <3>2. PICK d : Finished(chosen.base, Start, d) /\ Turned(str, SignedText(is_negative, d), i)
      BY <2>1 DEF ConversionsInv, TurnedOK
    <3>3. PcOK /\ pc # "idle" /\ chosen.fn = "itoa" /\ is_negative \in BOOLEAN
      BY <2>1 DEF ConversionsInv, PcOK
    <3>4. /\ Len(str) = Len(d) + (IF is_negative THEN 1 ELSE 0) /\ Len(d) \in Nat
      BY <3>2, <3>3, SignedTextIs DEF Turned
    <3>5. chosen.base \in {2, 10} /\ (is_negative => chosen.base = 10)
      BY <3>3, Starts DEF Legal
    <3>6. /\ chosen.base = 10 => Len(d) + 2 <= INT
          /\ chosen.base = 2 => Len(d) <= INT
      BY <3>2, <3>3, Lengths DEF Finished
    <3>7. INT \in Nat /\ LONG \in Nat /\ INT < LONG
      BY Widths
    <3>8. Len(str) <= INT
      BY <3>4, <3>5, <3>6, <3>7
    <3>9. i \in Int /\ i >= 1 /\ Len(str) \in Nat
      BY <3>4 DEF RestOK
    <3>10. i' \in 1 .. LONG
      BY <3>1, <3>7, <3>8, <3>9
    <3> QED  BY <2>1, <3>10 DEF RestOK
  <2> QED  BY <2>2, <2>3
<1>7. CASE UNCHANGED conversionsVars
  BY <1>7 DEF conversionsVars, RestOK
<1> QED  BY <1>2, <1>3, <1>4, <1>5, <1>6, <1>7 DEF ConversionsNext, Turn

\* What is left is no larger than the number.
LEMMA ValueTyped ==
  ASSUME PcOK, pc \in {"itoa", "itoa64"}, NEW d, NEW v, Taken(chosen.base, Start, d, v)
  PROVE  v \in MinInt .. (IF chosen.fn = "itoa" THEN -MinInt ELSE Power(2, LONG)) - 1
<1>1. pc # "idle" /\ chosen.fn \in {"itoa", "itoa64"}
  BY Starts DEF Legal
<1>2. /\ chosen.base \in Nat \ {0} /\ Start \in Int
      /\ chosen.fn = "itoa" => Start \in MinInt .. -MinInt - 1
      /\ chosen.fn = "itoa64" => Start \in 0 .. Power(2, LONG) - 1
  BY <1>1, Starts DEF Bases
<1>3. MinInt \in Int /\ MinInt < 0 /\ Power(2, LONG) \in Nat
  BY Ints, Widths, TwoPowers
<1> DEFINE p == Power(chosen.base, Len(d))
           x == Abs(v)
           y == Abs(Start)
<1>4. p \in Nat /\ p >= 1
  <2> DEFINE l == Len(d)
             b == chosen.base
  <2>1. l \in Nat /\ b \in Nat \ {0}
    BY <1>2 DEF Taken
  <2> HIDE DEF l, b
  <2>2. Power(b, l) \in Nat \ {0}
    BY <2>1, Powers
  <2> QED  BY <2>2 DEF l, b
<1>5. v \in Int /\ x * p <= y /\ (Start < 0 => v <= 0) /\ (Start >= 0 => v >= 0)
  BY DEF Taken
<1>6. x \in Nat /\ y \in Nat
  BY <1>2, <1>5 DEF Abs
<1>7. x <= y
  <2> HIDE DEF x, y, p
  <2>1. x <= x * p /\ x * p \in Nat
    BY <1>4, <1>6
  <2> DEFINE z == x * p
  <2>2. x <= z /\ z <= y /\ z \in Nat
    BY <1>5, <2>1
  <2> HIDE DEF z
  <2> QED  BY <1>6, <2>2
<1>8. v \in -y .. y /\ (Start >= 0 => v \in 0 .. Start) /\ (Start < 0 => v \in Start .. 0)
  <2>1. x = (IF v < 0 THEN -v ELSE v) /\ y = (IF Start < 0 THEN -Start ELSE Start)
    BY DEF Abs
  <2>2. v \in Int /\ (Start < 0 => v <= 0) /\ (Start >= 0 => v >= 0)
    BY <1>5
  <2> HIDE DEF x, y
  <2> QED  BY <1>2, <1>6, <1>7, <2>1, <2>2
<1> HIDE DEF p, x, y
<1>9. CASE chosen.fn = "itoa"
  BY <1>2, <1>3, <1>8, <1>9
<1>10. CASE chosen.fn = "itoa64"
  BY <1>2, <1>3, <1>8, <1>10
<1> QED  BY <1>1, <1>9, <1>10

\* A text of digits and signs.
LEMMA SymbolsOnly ==
  ASSUME NEW s \in Seq(Int), \A k \in 1 .. Len(s) : s[k] \in Symbols
  PROVE  s \in Seq(Symbols)
<1>1. Len(s) \in Nat /\ s \in [1 .. Len(s) -> Int]
  BY LenProperties
<1>2. s \in [1 .. Len(s) -> Symbols]
  BY <1>1
<1> QED  BY <1>1, <1>2

\* Whatever has been done to the text, it has digits and a sign only.
LEMMA TextTyped == ConversionsInv => str \in Seq(Symbols)
<1> SUFFICES ASSUME ConversionsInv
             PROVE  str \in Seq(Symbols)
  OBVIOUS
<1>1. PcOK
  BY DEF ConversionsInv
<1>2. ASSUME NEW d \in Seq(Digits)
      PROVE  /\ d \in Seq(Symbols)
             /\ \A neg \in BOOLEAN : SignedText(neg, d) \in Seq(Symbols)
  <2>1. d \in Seq(Int) /\ \A k \in 1 .. Len(d) : d[k] \in Symbols
    BY <1>2, DigitsAreInts, ElementOfSeq DEF Symbols
  <2>2. d \in Seq(Symbols)
    BY <2>1, SymbolsOnly
  <2>3. Append(d, MINUS) \in Seq(Symbols)
    <3>1. MINUS \in Symbols
      BY DEF Symbols
    <3> QED  BY <2>2, <3>1
  <2> QED  BY <2>2, <2>3 DEF SignedText
<1>3. \A b, a, d : Finished(b, a, d) => d \in Seq(Digits)
  BY DEF Finished, Taken
<1>4. is_negative \in BOOLEAN
  BY <1>1 DEF PcOK
<1>5. CASE pc = "idle"
  BY <1>1, <1>5 DEF PcOK
<1>6. CASE pc \in {"itoa", "itoa64", "sign"}
  <2>1. str \in Seq(Digits)
    BY <1>6 DEF ConversionsInv, DigitsOK, Finished, Taken
  <2> QED  BY <1>2, <2>1
<1>7. CASE pc = "reverse"
  <2>1. PICK d : Finished(chosen.base, Start, d) /\ Turned(str, SignedText(is_negative, d), i)
    BY <1>7 DEF ConversionsInv, TurnedOK
  <2> DEFINE s == SignedText(is_negative, d)
  <2>2. s \in Seq(Symbols)
    BY <1>2, <1>3, <1>4, <2>1
  <2> HIDE DEF s
  <2>3. Turned(str, s, i) /\ Len(s) \in Nat
    BY <2>1, <2>2 DEF s
  <2>4. /\ str \in Seq(Int) /\ Len(str) = Len(s) /\ Len(s) \in Nat
        /\ \A k \in 1 .. Len(s) : str[k] = s[Len(s) + 1 - k] \/ str[k] = s[k]
    BY <2>3 DEF Turned
  <2>5. \A k \in 1 .. Len(s) : s[k] \in Symbols
    BY <2>2, ElementOfSeq
  <2>6. \A k \in 1 .. Len(s) : Len(s) + 1 - k \in 1 .. Len(s)
    BY <2>4
  <2>7. \A k \in 1 .. Len(str) : str[k] \in Symbols
    BY <2>4, <2>5, <2>6
  <2> QED  BY <2>4, <2>7, SymbolsOnly
<1>8. CASE pc = "copy"
  <2>1. PICK d : Finished(chosen.base, Start, d) /\ Copied(str, buffer, d)
    BY <1>8 DEF ConversionsInv, CopiedOK
  <2>2. d \in Seq(Symbols)
    BY <1>2, <1>3, <2>1
  <2>3. /\ str \in Seq(Int) /\ Len(str) \in Nat /\ Len(d) \in Nat /\ Len(str) <= Len(d)
        /\ \A k \in 1 .. Len(str) : str[k] = d[k]
    BY <2>1, <2>2 DEF Copied
  <2>4. \A k \in 1 .. Len(d) : d[k] \in Symbols
    BY <2>2, ElementOfSeq
  <2>5. \A k \in 1 .. Len(str) : str[k] \in Symbols
    BY <2>3, <2>4
  <2> QED  BY <2>3, <2>5, SymbolsOnly
<1>9. CASE pc \in {"pad", "done"}
  <2>1. PICK d : /\ Finished(chosen.base, Start, d)
                 /\ str = IF pc = "pad" THEN Backwards(SignedText(is_negative, d))
                          ELSE Filled(Backwards(SignedText(is_negative, d)), chosen.pad)
    BY <1>9 DEF ConversionsInv, TextOK
  <2> DEFINE t == Backwards(SignedText(is_negative, d))
  <2>2. t \in Seq(Symbols)
    <3>1. SignedText(is_negative, d) \in Seq(Symbols)
      BY <1>2, <1>3, <1>4, <2>1
    <3> QED  BY <3>1, BackwardsIs
  <2> HIDE DEF t
  <2>3. 0 \in Symbols
    BY DEF Symbols, Digits
  <2>4. CASE pc = "pad"
    BY <2>1, <2>2, <2>4 DEF t
  <2>5. CASE pc = "done"
    <3>1. str = Filled(t, chosen.pad)
      BY <2>1, <2>5 DEF t
    <3>2. chosen.pad \in Nat
      <4>1. Legal(chosen)
        BY <1>1, <2>5, Starts
      <4>2. LONG \in Nat /\ LONG \div 4 \in Nat
        BY Widths
      <4> QED  BY <4>1, <4>2 DEF Legal
    <3> DEFINE n == chosen.pad - Len(t)
               z == [k \in 1 .. n |-> 0]
    <3>3. n \in Int
      BY <2>2, <3>2
    <3>4. z \in Seq(Symbols)
      <4>1. z \in [1 .. n -> Symbols]
        BY <2>3
      <4>2. CASE n >= 0
        BY <3>3, <4>1, <4>2
      <4>3. CASE n < 0
        <5>1. 1 .. n = 1 .. 0
          BY <3>3, <4>3
        <5>2. z \in [1 .. 0 -> Symbols] /\ 0 \in Nat
          BY <4>1, <5>1
        <5> HIDE DEF z
        <5> QED  BY <5>2
      <4> QED  BY <3>3, <4>2, <4>3
    <3>5. str = z \o t
      BY <3>1 DEF Filled
    <3> HIDE DEF z
    <3> QED  BY <2>2, <3>4, <3>5, ConcatProperties
  <2> QED  BY <1>9, <2>4, <2>5
<1> QED
  BY <1>1, <1>5, <1>6, <1>7, <1>8, <1>9 DEF PcOK

\* The invariant gives the types.
LEMMA TypedNow == ConversionsInv /\ RestOK => ConversionsTypeOK
<1> SUFFICES ASSUME ConversionsInv, RestOK
             PROVE  ConversionsTypeOK
  OBVIOUS
<1>1. PcOK
  BY DEF ConversionsInv
<1>2. value \in MinInt .. (IF chosen.fn = "itoa" THEN -MinInt ELSE Power(2, LONG)) - 1
  <2>1. CASE pc \in {"itoa", "itoa64"}
    BY <1>1, <2>1, ValueTyped DEF ConversionsInv, DigitsOK
  <2>2. CASE pc \notin {"itoa", "itoa64"}
    <3>1. MinInt \in Int /\ MinInt < 0 /\ Power(2, LONG) \in Nat \ {0}
      BY Ints, Widths, TwoPowers
    <3> QED  BY <2>2, <3>1 DEF RestOK
  <2> QED  BY <2>1, <2>2
<1>3. str \in Seq({MINUS} \cup -9 .. 15)
  BY TextTyped DEF Symbols, Digits
<1> QED  BY <1>1, <1>2, <1>3 DEF ConversionsTypeOK, PcOK, RestOK

\* The variables of a conversion have their types: what is left of an int stays an
\* int, and the position in reverse stays inside the text.
THEOREM ConversionsTypes == ConversionsSpec => []ConversionsTypeOK
<1>1. ConversionsInit => RestOK
  BY Widths DEF ConversionsInit, RestOK
<1>2. ConversionsSpec => [](ConversionsInv /\ RestOK)
  BY <1>1, AtFirst, ConversionsStep, RestStep, PTL DEF ConversionsSpec
<1> QED  BY <1>2, TypedNow, PTL
=============================================================================
