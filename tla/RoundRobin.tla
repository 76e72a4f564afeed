----------------------------- MODULE RoundRobin -----------------------------
(***************************************************************************)
(* What a round-robin scheduler promises: the processor passes around a    *)
(* ring in a fixed order, nobody is passed over, and it is always passed   *)
(* on.  Members join at the end of the ring; member 0 is there first.      *)
(***************************************************************************)
EXTENDS Naturals

VARIABLES members,   \* how many members the ring has
          on         \* the member that has the processor

ringVars == <<members, on>>

Init == members = 0 /\ on = 0

Join ==
  /\ members' = members + 1
  /\ UNCHANGED on

Pass ==
  /\ members > 0
  /\ on' = (on + 1) % members
  /\ UNCHANGED members

Next == Join \/ Pass

Spec == Init /\ [][Next]_ringVars

FairSpec == Spec /\ WF_ringVars(Pass)
=============================================================================
