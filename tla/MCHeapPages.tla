---------------------------- MODULE MCHeapPages ----------------------------
(***************************************************************************)
(* Pages of four bytes and headers of two.  The region has one page, which *)
(* the heap outgrows, or as many as it ever uses.  A request of three      *)
(* bytes leaves its page by one byte or stays in it, one of six leaves a   *)
(* page behind it that nobody has touched, for later splits to end up in.  *)
(***************************************************************************)
EXTENDS HeapPages

MCSizes == {0, 1, 3, 6}
MCJunkSizes == {0, 2}
MCRegions == {1, 5}
=============================================================================
