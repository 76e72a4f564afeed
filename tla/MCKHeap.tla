------------------------------ MODULE MCKHeap ------------------------------
(***************************************************************************)
(* A small heap: headers of two bytes, requests of none, one and three.    *)
(***************************************************************************)
EXTENDS KHeap

MCSizes == {0, 1, 3}
MCJunkSizes == {0, 2}
=============================================================================
