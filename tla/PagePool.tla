------------------------------ MODULE PagePool ------------------------------
(***************************************************************************)
(* What the rest of the kernel may rely on when it asks for physical       *)
(* pages: a pool of frames, each of them free or with exactly one client.  *)
(* How the pool is represented, and in which order it is searched, is left *)
(* open.                                                                   *)
(***************************************************************************)
CONSTANTS Page,     \* the frames a client may ever be given
          NoPage    \* the answer when no frame is left

VARIABLES open,     \* TRUE once requests may be made
          free,     \* frames the pool can give out
          held,     \* frames with a client
          answer    \* what the last request returned

poolVars == <<open, free, held, answer>>

Init == ~open /\ free = {} /\ held = {} /\ answer = NoPage

\* At boot the pool is filled, and possibly narrowed again, until it opens.
Fill ==
  /\ ~open
  /\ open' \in BOOLEAN
  /\ free' \subseteq Page
  /\ UNCHANGED <<held, answer>>

Grant(p) ==
  /\ open
  /\ free' = free \ {p}
  /\ held' = held \cup {p}
  /\ answer' = p
  /\ UNCHANGED open

Refuse ==
  /\ open
  /\ free = {}
  /\ answer' = NoPage
  /\ UNCHANGED <<open, free, held>>

Release(p) ==
  /\ open
  /\ held' = held \ {p}
  /\ free' = free \cup {p}
  /\ UNCHANGED <<open, answer>>

Next ==
  \/ Fill
  \/ \E p \in free : Grant(p)
  \/ Refuse
  \/ \E p \in held : Release(p)

Spec == Init /\ [][Next]_poolVars
=============================================================================
