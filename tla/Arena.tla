------------------------------- MODULE Arena -------------------------------
(***************************************************************************)
(* What the callers of a heap rely on: every block handed out is memory no *)
(* other block has a byte of, and it stays handed out until its owner      *)
(* gives it back.                                                          *)
(***************************************************************************)
EXTENDS Naturals

VARIABLE blocks   \* the blocks in use: first byte and length

Disjoint(b, c) ==
  \/ b.addr + b.len <= c.addr
  \/ c.addr + c.len <= b.addr

Init == blocks = {}

Alloc(b) ==
  /\ \A c \in blocks : b.addr # c.addr /\ Disjoint(b, c)
  /\ blocks' = blocks \cup {b}

Free(b) ==
  /\ b \in blocks
  /\ blocks' = blocks \ {b}

Next ==
  \/ \E b \in blocks' : Alloc(b)
  \/ \E b \in blocks : Free(b)

Spec == Init /\ [][Next]_blocks
=============================================================================
