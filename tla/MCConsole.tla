----------------------------- MODULE MCConsole -----------------------------
(***************************************************************************)
(* Two threads on a screen of four rows of two letters; the picture ends  *)
(* in the middle of the last row.                                          *)
(***************************************************************************)
EXTENDS Console

MCThread == {"A", "boot"}
MCLetters == {"a"}

\* Once prints have overlapped, no property reads what is on the screen.
MCView == IF overlap THEN <<cursorX, cursorY, call, torn>> ELSE vars
=============================================================================
