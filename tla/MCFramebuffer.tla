--------------------------- MODULE MCFramebuffer ---------------------------
(***************************************************************************)
(* Pictures of 2 x 6 with a console of three rows of two letters, of two   *)
(* pixels each.  The modes: the one asked for, a smaller one whose size is *)
(* no multiple of four, and two larger ones.                               *)
(***************************************************************************)
EXTENDS Framebuffer

MCModes == {[w |-> 2, h |-> 6], [w |-> 1, h |-> 5], [w |-> 3, h |-> 6], [w |-> 2, h |-> 8]}
=============================================================================
