---------------------------- MODULE AddressSpace ----------------------------
(***************************************************************************)
(* What a mapping function promises: a page that has no frame gets one     *)
(* that was spare, a page that has one keeps it, and no other page         *)
(* notices.  The promise ends when there is no frame left to give.         *)
(***************************************************************************)
VARIABLES mapping, \* the pages that have a frame: pairs of page and frame
          spare,   \* frames that are in no use
          valid    \* FALSE once a request found no spare frame

spaceVars == <<mapping, spare, valid>>

Init ==
  /\ valid = TRUE
  /\ \A e \in mapping : e[2] \notin spare

\* A page gets a frame nobody uses.
Map ==
  \E e \in mapping' \ mapping :
    /\ mapping' = mapping \cup {e}
    /\ \A d \in mapping : d[1] # e[1]
    /\ e[2] \in spare \ spare'

Keep == mapping' = mapping

\* Spare frames may also go to the book-keeping of the address space.
Next ==
  /\ Map \/ Keep
  /\ spare' \subseteq spare
  /\ valid' = TRUE

Exhaust == valid' = FALSE

Spec == Init /\ [][valid = TRUE => Next \/ Exhaust]_spaceVars
=============================================================================
