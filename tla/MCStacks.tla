------------------------------ MODULE MCStacks -----------------------------
(***************************************************************************)
(* The sizes of the kernel.  Depths on both sides of every field of the    *)
(* record: the first instruction, after push rbp, in the loop around hlt,  *)
(* at the entry of printf, a call or two further, and deep in printf.      *)
(***************************************************************************)
EXTENDS Stacks

MCDepths == {0, 8, 24, 40, 48, 56, 64, 136, 144, 200, 240, 248, 1500}
=============================================================================
