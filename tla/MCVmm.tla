------------------------------- MODULE MCVmm -------------------------------
(***************************************************************************)
(* A page of four bytes, two of them for a header: the sizes take one page *)
(* exactly, two for the last byte, and two in full.                        *)
(***************************************************************************)
EXTENDS Vmm

MCSizes == {2, 3, 6}

MCSpare == 15 .. 24

\* The clients of the VMM do not map pages themselves.
MCPages == {}

MCContents == { [i \in Index |-> IF i % 2 = 0 THEN 0 ELSE NONE] }
=============================================================================
