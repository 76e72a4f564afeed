--------------------------- MODULE MCConversions ---------------------------
(***************************************************************************)
(* An int of six bits and arguments of twelve: the smallest and the largest *)
(* numbers of either width, and those in between for the digits.           *)
(***************************************************************************)
EXTENDS Conversions

MCWords ==
  (0 .. 70) \cup (2^(LONG - 1) - 3 .. 2^(LONG - 1) + 3) \cup (2^LONG - 40 .. 2^LONG - 1)
=============================================================================
