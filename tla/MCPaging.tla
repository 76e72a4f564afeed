------------------------------ MODULE MCPaging ------------------------------
(***************************************************************************)
(* Page tables with five entries: slot 3 is the recursive one, 4 the last. *)
(***************************************************************************)
EXTENDS Paging

\* A page the boot has mapped, by its other name; two names of the first page
\* of the VMM; its neighbours in the same page table and in the next one; and
\* one in another top-level slot.
MCPages ==
  { <<4, 3, 0, 1>>, <<0, 1, 0, 0>>, <<4, 1, 0, 0>>,
    <<0, 1, 0, 4>>, <<0, 1, 1, 0>>, <<1, 3, 0, 0>> }

\* Memory that nobody cleaned looks like a table, in part.
MCContents == { [i \in Index |-> IF i % 2 = 0 THEN 0 ELSE NONE] }
=============================================================================
