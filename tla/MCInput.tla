------------------------------- MODULE MCInput -------------------------------
(***************************************************************************)
(* A letter and the shift keys; two bytes may wait, so that a key may      *)
(* change before the one before it is read.  Next to timer and keyboard    *)
(* there is a disk on the second PIC.                                      *)
(***************************************************************************)
EXTENDS Input

MCLetters == {"a"}
MCOthers == {}
MCStrangers == {14}

\* After a halt nothing happens any more, and no property reads the rest.
view == IF phase = "halted" THEN <<refused>> ELSE inputVars
=============================================================================
