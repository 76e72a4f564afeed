------------------------------ MODULE Terminal ------------------------------
(***************************************************************************)
(* What a reader of the screen relies on: a page of lines, of which the    *)
(* last is being written, and which moves up when it is full.              *)
(***************************************************************************)
EXTENDS Naturals, Sequences

CONSTANTS Width,   \* characters in a line
          Height,  \* lines on the page
          Letters

VARIABLES page,    \* the lines, from top to bottom
          valid    \* FALSE once two prints have overlapped

pageVars == <<page, valid>>

Current == page[Len(page)]

Fresh(p) == Append(IF Len(p) = Height THEN Tail(p) ELSE p, << >>)

Init == page = << << >> >> /\ valid = TRUE

\* A letter at the end of the last line; the line it fills is the last no more.
Put(c) ==
  LET p == [page EXCEPT ![Len(page)] = Append(@, c)]
  IN  page' = IF Len(Current) + 1 = Width THEN Fresh(p) ELSE p

NewLine == page' = Fresh(page)

\* Only the last line can be taken back.
Erase ==
  /\ Current # << >>
  /\ page' = [page EXCEPT ![Len(page)] = SubSeq(@, 1, Len(@) - 1)]

Next ==
  /\ (\E c \in Letters : Put(c)) \/ NewLine \/ Erase
  /\ valid' = TRUE

Overlap == valid' = FALSE

Spec == Init /\ [][valid => Next \/ Overlap]_pageVars
=============================================================================
