----------------------------- MODULE VmmProofs -----------------------------
(***************************************************************************)
(* Proofs about the page tables (Paging) and the virtual memory manager    *)
(* (Vmm).                                                                  *)
(*                                                                         *)
(* The invariant is that the tables form a tree: each frame has a level,   *)
(* 4 for the top table, 0 for what is no table, and, the recursive slot    *)
(* and the boot's second names apart, there is one slot that points to a   *)
(* table, in a table of the next level, and one leaf that holds a frame    *)
(* of a client.                                                            *)
(***************************************************************************)
EXTENDS Vmm, WellFoundedInduction, FiniteSetTheorems, TLAPS

Memory == [Frame -> [Index -> Entry]]

\* The slots of the tree: all but the recursive one.
Inner(t, i) == ~ (t = p4_table /\ i = SELF)

\* The slots of the boot's tables that share a table.
Alias(t, i, j) ==
  \/ t = p4_table /\ i \in {0, TOP} /\ j \in {0, TOP}
  \/ t = p3_table /\ i \in {0, TOP - 1} /\ j \in {0, TOP - 1}

TopIsLevelFour(lev) == \A t \in Frame : lev[t] = 4 <=> t = p4_table

BootSlots(m) ==
  /\ m[p4_table][SELF] = p4_table
  /\ m[p4_table][0] = p3_table /\ m[p4_table][TOP] = p3_table
  /\ m[p3_table][0] = p2_table /\ m[p3_table][TOP - 1] = p2_table

TablesAreTaken(f, lev) == \A t \in Frame : lev[t] # 0 => t \notin f

\* What a slot of a table points to is a table of the next level.
LevelsDescend(m, lev) ==
  \A t \in Frame, i \in Index :
    lev[t] > 1 /\ Inner(t, i) /\ m[t][i] # NONE =>
      m[t][i] \in Frame /\ lev[m[t][i]] = lev[t] - 1

\* The frame of a page is no table, and it is not free.
PagesAreTaken(m, f, lev) ==
  \A t \in Frame, i \in Index :
    lev[t] = 1 /\ m[t][i] \in Spare => lev[m[t][i]] = 0 /\ m[t][i] \notin f

OneParent(m, lev) ==
  \A t, u \in Frame, i, j \in Index :
    /\ lev[t] > 1 /\ lev[u] > 1 /\ Inner(t, i) /\ Inner(u, j)
    /\ m[t][i] # NONE /\ m[t][i] = m[u][j]
    => t = u /\ (i = j \/ Alias(t, i, j))

OneLeaf(m, lev) ==
  \A t, u \in Frame, i, j \in Index :
    /\ lev[t] = 1 /\ lev[u] = 1
    /\ m[t][i] \in Spare /\ m[t][i] = m[u][j]
    => t = u /\ i = j

Levels == [Frame -> 0 .. 4]

Tree(m, f, lev) ==
  /\ lev \in Levels
  /\ TopIsLevelFour(lev)
  /\ BootSlots(m)
  /\ TablesAreTaken(f, lev)
  /\ LevelsDescend(m, lev)
  /\ PagesAreTaken(m, f, lev)
  /\ OneParent(m, lev)
  /\ OneLeaf(m, lev)

\* A frame that is in use nowhere in the tree.
Unused(m, lev, n) ==
  /\ lev[n] = 0
  /\ \A t \in Frame, i \in Index : lev[t] = 1 => m[t][i] # n

----------------------------------------------------------------------------
(***************************************************************************)
(* The constants, and walks in general.                                    *)
(***************************************************************************)
LEMMA Frames ==
  /\ p4_table \in Frame /\ p3_table \in Frame /\ p2_table \in Frame
  /\ p4_table \notin Spare /\ p3_table \notin Spare /\ p2_table \notin Spare
  /\ p4_table # p3_table /\ p4_table # p2_table /\ p3_table # p2_table
  /\ Frame \subseteq Nat /\ Spare \subseteq Frame
  /\ NONE \notin Frame /\ NONE \notin Spare /\ NONE \in Entry
  /\ Frame \subseteq Entry /\ 0 \notin Spare /\ 0 \in Frame
BY PagingAssumption, SMT
   DEF p4_table, p3_table, p2_table, fbb_pt_tables, Frame, IdentityMapped, NONE,
       Entry, PD_LOOP_LIMIT

LEMMA Slots ==
  /\ 0 \in Index /\ SELF \in Index /\ TOP \in Index /\ TOP - 1 \in Index
  /\ SELF # 0 /\ SELF # TOP /\ SELF = TOP - 1 /\ TOP # 0
BY PagingAssumption, SMT DEF Index, TOP, PD_LOOP_LIMIT

LEMMA Parts ==
  ASSUME NEW q \in VirtualPage
  PROVE  q[1] \in Index /\ q[2] \in Index /\ q[3] \in Index /\ q[4] \in Index
BY DEF VirtualPage

\* A walk meets tables of the levels 3, 2 and 1, or ends.
LEMMA WalkDescends ==
  ASSUME NEW m \in Memory, NEW f, NEW lev, Tree(m, f, lev),
         NEW w, w[1] \in Index \ {SELF}, w[2] \in Index, w[3] \in Index
  PROVE  /\ PDPR(m, w) = NONE \/ (PDPR(m, w) \in Frame /\ lev[PDPR(m, w)] = 3)
         /\ PD(m, w) = NONE \/ (PD(m, w) \in Frame /\ lev[PD(m, w)] = 2)
         /\ PT(m, w) = NONE \/ (PT(m, w) \in Frame /\ lev[PT(m, w)] = 1)
<1>1. p4_table \in Frame /\ lev[p4_table] = 4 /\ NONE \notin Frame
  BY Frames DEF Tree, TopIsLevelFour
<1>2. PDPR(m, w) = NONE \/ (PDPR(m, w) \in Frame /\ lev[PDPR(m, w)] = 3)
  BY <1>1 DEF PDPR, At, Tree, LevelsDescend, Inner
<1>3. PD(m, w) = NONE \/ (PD(m, w) \in Frame /\ lev[PD(m, w)] = 2)
  <2> DEFINE t == PDPR(m, w)
  <2> HIDE DEF t
  <2>1. t = NONE \/ (t \in Frame /\ lev[t] = 3)
    BY <1>2 DEF t
  <2>2. t \in Frame => Inner(t, w[2])
    BY <2>1, <1>1 DEF Inner
  <2>3. At(m, t, w[2]) = NONE \/ (At(m, t, w[2]) \in Frame /\ lev[At(m, t, w[2])] = 2)
    BY <2>1, <2>2, <1>1 DEF At, Tree, LevelsDescend
  <2> QED  BY <2>3 DEF PD, t
<1>4. PT(m, w) = NONE \/ (PT(m, w) \in Frame /\ lev[PT(m, w)] = 1)
  <2> DEFINE t == PD(m, w)
  <2> HIDE DEF t
  <2>1. t = NONE \/ (t \in Frame /\ lev[t] = 2)
    BY <1>3 DEF t
  <2>2. t \in Frame => Inner(t, w[3])
    BY <2>1, <1>1 DEF Inner
  <2>3. At(m, t, w[3]) = NONE \/ (At(m, t, w[3]) \in Frame /\ lev[At(m, t, w[3])] = 1)
    BY <2>1, <2>2, <1>1 DEF At, Tree, LevelsDescend
  <2> QED  BY <2>3 DEF PT, t
<1> QED  BY <1>2, <1>3, <1>4

LEMMA WalkEnds ==
  ASSUME NEW m, NEW q
  PROVE  MMU(m, q) = At(m, PT(m, q), q[4])
BY DEF MMU, PT, PD, PDPR

\* What a walk reaches depends only on the slots on its way.
LEMMA SameWalk ==
  ASSUME NEW m, NEW m2, NEW q,
         At(m2, p4_table, q[1]) = At(m, p4_table, q[1]),
         At(m2, PDPR(m, q), q[2]) = At(m, PDPR(m, q), q[2]),
         At(m2, PD(m, q), q[3]) = At(m, PD(m, q), q[3]),
         At(m2, PT(m, q), q[4]) = At(m, PT(m, q), q[4])
  PROVE  /\ PDPR(m2, q) = PDPR(m, q) /\ PD(m2, q) = PD(m, q)
         /\ PT(m2, q) = PT(m, q) /\ MMU(m2, q) = MMU(m, q)
<1>1. PDPR(m2, q) = PDPR(m, q)
  BY DEF PDPR
<1>2. PD(m2, q) = PD(m, q)
  BY <1>1 DEF PD
<1>3. PT(m2, q) = PT(m, q)
  BY <1>2 DEF PT
<1> QED  BY <1>1, <1>2, <1>3, WalkEnds

----------------------------------------------------------------------------
(***************************************************************************)
(* The elementary changes of the tree: a new table is linked, a frame is   *)
(* taken, a leaf is filled, a client writes to its frame.                  *)
(***************************************************************************)
\* m2 is m with the clean table n in slot i of table t.
Linked(m, m2, t, i, n) ==
  /\ m2[t][i] = n
  /\ \A j \in Index : m2[n][j] = NONE
  /\ \A x \in Frame \ {n}, j \in Index :
       (x = t /\ j = i) \/ m2[x][j] = m[x][j]

LEMMA LinkKeepsTree ==
  ASSUME NEW m \in Memory, NEW f \in SUBSET Spare, NEW lev, Tree(m, f, lev),
         NEW t \in Frame, NEW i \in Index, NEW n \in f,
         lev[t] > 1, Inner(t, i), m[t][i] = NONE,
         NEW m2 \in Memory, Linked(m, m2, t, i, n),
         NEW lev2, lev2 = [lev EXCEPT ![n] = lev[t] - 1]
  PROVE  Tree(m2, f \ {n}, lev2)
<1>1. /\ lev \in Levels /\ n \in Spare /\ n \in Frame /\ lev[n] = 0 /\ n # t
      /\ lev[t] \in 2 .. 4 /\ lev2[n] = lev[t] - 1 /\ lev2[n] # 0
      /\ \A x \in Frame : x # n => lev2[x] = lev[x]
      /\ \A x \in Frame : lev[x] \in 0 .. 4
  BY Frames DEF Tree, TablesAreTaken, Levels
<1>2. lev2 \in Levels
  BY <1>1 DEF Levels
<1>3. /\ n # p4_table /\ n # p3_table /\ n # p2_table
  BY <1>1, Frames
<1>4. TopIsLevelFour(lev2)
  BY <1>1, <1>3 DEF Tree, TopIsLevelFour
<1>5. BootSlots(m2)
  <2>1. /\ m[p4_table][SELF] # NONE /\ m[p4_table][0] # NONE /\ m[p4_table][TOP] # NONE
        /\ m[p3_table][0] # NONE /\ m[p3_table][TOP - 1] # NONE
    BY Frames DEF Tree, BootSlots
  <2>2. /\ m2[p4_table][SELF] = m[p4_table][SELF] /\ m2[p4_table][0] = m[p4_table][0]
        /\ m2[p4_table][TOP] = m[p4_table][TOP]
        /\ m2[p3_table][0] = m[p3_table][0] /\ m2[p3_table][TOP - 1] = m[p3_table][TOP - 1]
    BY <2>1, <1>3, Frames, Slots DEF Linked
  <2> QED  BY <2>2 DEF Tree, BootSlots
<1>6. TablesAreTaken(f \ {n}, lev2)
  BY <1>1 DEF Tree, TablesAreTaken
<1>7. \A x \in Frame, j \in Index : lev[x] > 1 /\ Inner(x, j) => m[x][j] # n
  BY <1>1, Frames DEF Tree, LevelsDescend
<1>8. LevelsDescend(m2, lev2)
  <2> SUFFICES ASSUME NEW x \in Frame, NEW j \in Index,
                      lev2[x] > 1, Inner(x, j), m2[x][j] # NONE
               PROVE  m2[x][j] \in Frame /\ lev2[m2[x][j]] = lev2[x] - 1
    BY DEF LevelsDescend
  <2>1. x # n /\ lev2[x] = lev[x]
    BY <1>1 DEF Linked
  <2>2. CASE x = t /\ j = i
    BY <2>1, <2>2, <1>1 DEF Linked
  <2>3. CASE ~ (x = t /\ j = i)
    <3>1. m2[x][j] = m[x][j]
      BY <2>1, <2>3 DEF Linked
    <3>2. m[x][j] \in Frame /\ lev[m[x][j]] = lev[x] - 1 /\ m[x][j] # n
      BY <3>1, <2>1, <1>7 DEF Tree, LevelsDescend
    <3> QED  BY <3>1, <3>2, <2>1, <1>1
  <2> QED  BY <2>2, <2>3
<1>9. \A x \in Frame, j \in Index :
        lev2[x] = 1 /\ m2[x][j] # NONE =>
          x # n /\ lev[x] = 1 /\ m2[x][j] = m[x][j]
  BY <1>1 DEF Linked
<1>10. NONE \notin Spare
  BY Frames
<1>11. PagesAreTaken(m2, f \ {n}, lev2)
  <2> SUFFICES ASSUME NEW x \in Frame, NEW j \in Index, lev2[x] = 1, m2[x][j] \in Spare
               PROVE  lev2[m2[x][j]] = 0 /\ m2[x][j] \notin f
    BY DEF PagesAreTaken
  <2>1. lev[x] = 1 /\ m2[x][j] = m[x][j]
    BY <1>9, <1>10
  <2>2. lev[m[x][j]] = 0 /\ m[x][j] \notin f
    BY <2>1 DEF Tree, PagesAreTaken
  <2> QED  BY <2>1, <2>2, <1>1, Frames
<1>12. \A x \in Frame, j \in Index :
         lev2[x] > 1 /\ Inner(x, j) /\ m2[x][j] # NONE =>
           /\ lev[x] > 1
           /\ \/ x = t /\ j = i /\ m2[x][j] = n
              \/ m2[x][j] = m[x][j] /\ m2[x][j] # n
  BY <1>1, <1>7 DEF Linked
<1>13. OneParent(m2, lev2)
  <2> SUFFICES ASSUME NEW x \in Frame, NEW y \in Frame, NEW j \in Index, NEW k \in Index,
                      lev2[x] > 1, lev2[y] > 1, Inner(x, j), Inner(y, k),
                      m2[x][j] # NONE, m2[x][j] = m2[y][k]
               PROVE  x = y /\ (j = k \/ Alias(x, j, k))
    BY DEF OneParent
  <2>1. lev[x] > 1 /\ lev[y] > 1
    BY <1>12
  <2>2. CASE m2[x][j] = n
    BY <2>2, <1>12
  <2>3. CASE m2[x][j] # n
    <3>1. m[x][j] = m2[x][j] /\ m[y][k] = m2[x][j]
      BY <2>3, <1>12
    <3> QED  BY <3>1, <2>1 DEF Tree, OneParent
  <2> QED  BY <2>2, <2>3
<1>14. OneLeaf(m2, lev2)
  <2> SUFFICES ASSUME NEW x \in Frame, NEW y \in Frame, NEW j \in Index, NEW k \in Index,
                      lev2[x] = 1, lev2[y] = 1, m2[x][j] \in Spare, m2[x][j] = m2[y][k]
               PROVE  x = y /\ j = k
    BY DEF OneLeaf
  <2>1. lev[x] = 1 /\ lev[y] = 1 /\ m2[x][j] = m[x][j] /\ m2[y][k] = m[y][k]
    BY <1>9, <1>10
  <2>2. m[x][j] \in Spare /\ m[x][j] = m[y][k]
    BY <2>1
  <2>3. OneLeaf(m, lev)
    BY DEF Tree
  <2> QED  BY <2>1, <2>2, <2>3 DEF OneLeaf
<1> QED  BY <1>2, <1>4, <1>5, <1>6, <1>8, <1>11, <1>13, <1>14 DEF Tree

\* No walk to a page outside the windows changes what it ends in.
SamePages(m, m2) ==
  \A q \in VirtualPage : q[1] # SELF => MMU(m2, q) = MMU(m, q)

LEMMA LinkKeepsPages ==
  ASSUME NEW m \in Memory, NEW f \in SUBSET Spare, NEW lev, Tree(m, f, lev),
         NEW t \in Frame, NEW i \in Index, NEW n \in f,
         lev[t] > 1, Inner(t, i), m[t][i] = NONE,
         NEW m2 \in Memory, Linked(m, m2, t, i, n)
  PROVE  SamePages(m, m2)
<1> SUFFICES ASSUME NEW q \in VirtualPage, q[1] # SELF
             PROVE  MMU(m2, q) = MMU(m, q)
  BY DEF SamePages
<1>1. q[1] \in Index \ {SELF} /\ q[2] \in Index /\ q[3] \in Index /\ q[4] \in Index
  BY Parts
<1>2. /\ n \in Frame /\ lev[n] = 0 /\ n # t /\ NONE \notin Frame /\ p4_table \in Frame
      /\ lev[p4_table] = 4 /\ n # p4_table
  BY Frames DEF Tree, TablesAreTaken, TopIsLevelFour
<1>3. /\ PDPR(m, q) = NONE \/ (PDPR(m, q) \in Frame /\ lev[PDPR(m, q)] = 3)
      /\ PD(m, q) = NONE \/ (PD(m, q) \in Frame /\ lev[PD(m, q)] = 2)
      /\ PT(m, q) = NONE \/ (PT(m, q) \in Frame /\ lev[PT(m, q)] = 1)
  BY <1>1, WalkDescends
\* A slot of a table on the way that is not the new one is as it was.
<1>4. ASSUME NEW x, x = NONE \/ (x \in Frame /\ lev[x] # 0), NEW j \in Index
      PROVE  \/ x = t /\ j = i /\ At(m, x, j) = NONE /\ At(m2, x, j) = n
             \/ At(m2, x, j) = At(m, x, j)
  BY <1>4, <1>2 DEF At, Linked
<1>5. ASSUME NEW j \in Index
      PROVE  At(m2, n, j) = NONE /\ At(m, NONE, j) = NONE /\ At(m2, NONE, j) = NONE
  BY <1>2 DEF At, Linked
<1>6. At(m2, PT(m, q), q[4]) = At(m, PT(m, q), q[4])
  <2>1. PT(m, q) # t
    BY <1>3, <1>2
  <2> QED  BY <2>1, <1>3, <1>4, <1>1
<1>7. CASE At(m2, p4_table, q[1]) # At(m, p4_table, q[1])
  <2>1. PDPR(m, q) = NONE /\ PDPR(m2, q) = n
    BY <1>7, <1>4, <1>2, <1>1 DEF PDPR
  <2>2. PD(m, q) = NONE /\ PD(m2, q) = NONE
    BY <2>1, <1>5, <1>1 DEF PD
  <2>3. PT(m, q) = NONE /\ PT(m2, q) = NONE
    BY <2>2, <1>5, <1>1 DEF PT
  <2> QED  BY <2>3, <1>5, <1>1, WalkEnds
<1>8. CASE /\ At(m2, p4_table, q[1]) = At(m, p4_table, q[1])
           /\ At(m2, PDPR(m, q), q[2]) # At(m, PDPR(m, q), q[2])
  <2>1. PD(m, q) = NONE /\ PD(m2, q) = n
    BY <1>8, <1>3, <1>4, <1>1 DEF PDPR, PD
  <2>2. PT(m, q) = NONE /\ PT(m2, q) = NONE
    BY <2>1, <1>5, <1>1 DEF PT
  <2> QED  BY <2>2, <1>5, <1>1, WalkEnds
<1>9. CASE /\ At(m2, p4_table, q[1]) = At(m, p4_table, q[1])
           /\ At(m2, PDPR(m, q), q[2]) = At(m, PDPR(m, q), q[2])
           /\ At(m2, PD(m, q), q[3]) # At(m, PD(m, q), q[3])
  <2>1. PD(m2, q) = PD(m, q)
    BY <1>9 DEF PDPR, PD
  <2>2. PT(m, q) = NONE /\ PT(m2, q) = n
    BY <2>1, <1>9, <1>3, <1>4, <1>1 DEF PT
  <2> QED  BY <2>2, <1>5, <1>1, WalkEnds
<1>10. CASE /\ At(m2, p4_table, q[1]) = At(m, p4_table, q[1])
            /\ At(m2, PDPR(m, q), q[2]) = At(m, PDPR(m, q), q[2])
            /\ At(m2, PD(m, q), q[3]) = At(m, PD(m, q), q[3])
  BY <1>10, <1>6, SameWalk
<1> QED  BY <1>7, <1>8, <1>9, <1>10

LEMMA TakeKeepsTree ==
  ASSUME NEW m \in Memory, NEW f \in SUBSET Spare, NEW lev, Tree(m, f, lev),
         NEW g \in SUBSET f
  PROVE  Tree(m, g, lev)
<1>1. TablesAreTaken(g, lev)
  BY DEF Tree, TablesAreTaken
<1>2. PagesAreTaken(m, g, lev)
  BY DEF Tree, PagesAreTaken
<1> QED  BY <1>1, <1>2 DEF Tree

LEMMA FreeIsUnused ==
  ASSUME NEW m \in Memory, NEW f \in SUBSET Spare, NEW lev, Tree(m, f, lev),
         NEW n \in f
  PROVE  Unused(m, lev, n)
BY Frames DEF Tree, TablesAreTaken, PagesAreTaken, Unused

LEMMA LinkKeepsUnused ==
  ASSUME NEW m \in Memory, NEW lev \in Levels, NEW t \in Frame, NEW i \in Index,
         NEW n \in Frame, lev[t] > 1,
         NEW m2 \in Memory, Linked(m, m2, t, i, n), n # t,
         NEW lev2, lev2 = [lev EXCEPT ![n] = lev[t] - 1],
         NEW k \in Spare, k # n, Unused(m, lev, k)
  PROVE  Unused(m2, lev2, k)
<1>1. lev2[k] = 0 /\ \A x \in Frame : x # n => lev2[x] = lev[x]
  BY Frames DEF Unused, Levels
<1>2. ASSUME NEW x \in Frame, NEW j \in Index, lev2[x] = 1
      PROVE  m2[x][j] # k
  <2>1. CASE x = n
    BY <2>1, Frames DEF Linked
  <2>2. CASE x # n
    <3>1. lev[x] = 1 /\ x # t
      BY <2>2, <1>1, <1>2
    <3> QED  BY <3>1, <2>2 DEF Linked, Unused
  <2> QED  BY <2>1, <2>2
<1> QED  BY <1>1, <1>2 DEF Unused

\* m2 is m with e in slot i of table t.
Filled(m, m2, t, i, e) ==
  /\ m2[t][i] = e
  /\ \A x \in Frame, j \in Index : (x = t /\ j = i) \/ m2[x][j] = m[x][j]

LEMMA FillKeepsTree ==
  ASSUME NEW m \in Memory, NEW f \in SUBSET Spare, NEW lev, Tree(m, f, lev),
         NEW t \in Frame, NEW i \in Index, lev[t] = 1,
         NEW n \in Spare, n \notin f, Unused(m, lev, n),
         NEW m2 \in Memory, Filled(m, m2, t, i, n)
  PROVE  Tree(m2, f, lev)
<1>1. \A x \in Frame, j \in Index : lev[x] > 1 => m2[x][j] = m[x][j]
  BY DEF Filled
<1>2. lev[p4_table] > 1 /\ lev[p3_table] > 1
  <2>1. lev[p4_table] = 4 /\ p4_table \in Frame
    BY Frames DEF Tree, TopIsLevelFour
  <2>2. lev[p3_table] = 3
    BY <2>1, Frames, Slots DEF Tree, BootSlots, LevelsDescend, Inner
  <2> QED  BY <2>1, <2>2
<1>3. BootSlots(m2)
  BY <1>1, <1>2, Frames, Slots DEF Tree, BootSlots
<1>4. LevelsDescend(m2, lev)
  BY <1>1 DEF Tree, LevelsDescend
<1>5. OneParent(m2, lev)
  <2>1. OneParent(m, lev)
    BY DEF Tree
  <2> SUFFICES ASSUME NEW x \in Frame, NEW y \in Frame, NEW j \in Index, NEW k \in Index,
                      lev[x] > 1, lev[y] > 1, Inner(x, j), Inner(y, k),
                      m2[x][j] # NONE, m2[x][j] = m2[y][k]
               PROVE  x = y /\ (j = k \/ Alias(x, j, k))
    BY DEF OneParent
  <2>2. m[x][j] # NONE /\ m[x][j] = m[y][k]
    BY <1>1
  <2> QED  BY <2>1, <2>2 DEF OneParent
<1>6. PagesAreTaken(m2, f, lev)
  BY DEF Filled, Tree, PagesAreTaken, Unused
<1>7. OneLeaf(m2, lev)
  <2>1. OneLeaf(m, lev)
    BY DEF Tree
  <2> SUFFICES ASSUME NEW x \in Frame, NEW y \in Frame, NEW j \in Index, NEW k \in Index,
                      lev[x] = 1, lev[y] = 1, m2[x][j] \in Spare, m2[x][j] = m2[y][k]
               PROVE  x = y /\ j = k
    BY DEF OneLeaf
  <2>2. CASE m2[x][j] = n
    <3>1. \A z \in Frame, l \in Index : lev[z] = 1 /\ m2[z][l] = n => z = t /\ l = i
      BY DEF Filled, Unused
    <3> QED  BY <2>2, <3>1
  <2>3. CASE m2[x][j] # n
    <3>1. m2[x][j] = m[x][j] /\ m2[y][k] = m[y][k]
      BY <2>3 DEF Filled
    <3>2. m[x][j] \in Spare /\ m[x][j] = m[y][k]
      BY <3>1
    <3> QED  BY <3>2, <2>1 DEF OneLeaf
  <2> QED  BY <2>2, <2>3
<1> QED  BY <1>3, <1>4, <1>5, <1>6, <1>7 DEF Tree

LEMMA FillGivesPage ==
  ASSUME NEW m \in Memory, NEW f \in SUBSET Spare, NEW lev, Tree(m, f, lev),
         NEW t \in Frame, NEW i \in Index, lev[t] = 1, NEW e,
         NEW m2 \in Memory, Filled(m, m2, t, i, e),
         NEW q \in VirtualPage, q[1] # SELF
  PROVE  /\ PDPR(m2, q) = PDPR(m, q) /\ PD(m2, q) = PD(m, q) /\ PT(m2, q) = PT(m, q)
         /\ PT(m, q) = t /\ q[4] = i => MMU(m2, q) = e
         /\ ~ (PT(m, q) = t /\ q[4] = i) => MMU(m2, q) = MMU(m, q)
<1>1. q[1] \in Index \ {SELF} /\ q[2] \in Index /\ q[3] \in Index /\ q[4] \in Index
  BY Parts
<1>2. NONE \notin Frame /\ p4_table \in Frame /\ lev[p4_table] = 4
  BY Frames DEF Tree, TopIsLevelFour
<1>3. /\ PDPR(m, q) = NONE \/ (PDPR(m, q) \in Frame /\ lev[PDPR(m, q)] = 3)
      /\ PD(m, q) = NONE \/ (PD(m, q) \in Frame /\ lev[PD(m, q)] = 2)
      /\ PT(m, q) = NONE \/ (PT(m, q) \in Frame /\ lev[PT(m, q)] = 1)
  BY <1>1, WalkDescends
<1>4. ASSUME NEW x, x = NONE \/ x \in Frame, NEW j \in Index
      PROVE  IF x = t /\ j = i THEN At(m2, x, j) = e ELSE At(m2, x, j) = At(m, x, j)
  BY <1>4, <1>2 DEF At, Filled
<1>5. PDPR(m2, q) = PDPR(m, q)
  BY <1>4, <1>2, <1>1 DEF PDPR
<1>6. PD(m2, q) = PD(m, q)
  <2>1. PDPR(m, q) # t
    BY <1>3, <1>2
  <2>2. At(m2, PDPR(m, q), q[2]) = At(m, PDPR(m, q), q[2])
    BY <2>1, <1>4, <1>3, <1>1
  <2> QED  BY <2>2, <1>5 DEF PD
<1>7. PT(m2, q) = PT(m, q)
  <2>1. PD(m, q) # t
    BY <1>3, <1>2
  <2>2. At(m2, PD(m, q), q[3]) = At(m, PD(m, q), q[3])
    BY <2>1, <1>4, <1>3, <1>1
  <2> QED  BY <2>2, <1>6 DEF PT
<1>8. PT(m, q) = t /\ q[4] = i => MMU(m2, q) = e
  BY <1>7, <1>4, <1>1, WalkEnds
<1>9. ~ (PT(m, q) = t /\ q[4] = i) => MMU(m2, q) = MMU(m, q)
  BY <1>7, <1>4, <1>3, <1>1, WalkEnds
<1> QED  BY <1>5, <1>6, <1>7, <1>8, <1>9

\* m2 is m but for a frame that is no table.
LEMMA StoreKeepsTree ==
  ASSUME NEW m \in Memory, NEW f \in SUBSET Spare, NEW lev, Tree(m, f, lev),
         NEW n \in Frame, lev[n] = 0,
         NEW m2 \in Memory, \A x \in Frame \ {n} : m2[x] = m[x]
  PROVE  /\ Tree(m2, f, lev)
         /\ \A q \in VirtualPage : q[1] # SELF =>
              /\ PDPR(m2, q) = PDPR(m, q) /\ PD(m2, q) = PD(m, q)
              /\ PT(m2, q) = PT(m, q) /\ MMU(m2, q) = MMU(m, q)
<1>1. \A x \in Frame : lev[x] # 0 => m2[x] = m[x]
  OBVIOUS
<1>2. lev[p4_table] = 4 /\ p4_table \in Frame /\ NONE \notin Frame
  BY Frames DEF Tree, TopIsLevelFour
<1>3. lev[p3_table] = 3
  BY <1>2, Frames, Slots DEF Tree, BootSlots, LevelsDescend, Inner
<1>4. BootSlots(m2)
  BY <1>1, <1>2, <1>3, Frames DEF Tree, BootSlots
<1>5. LevelsDescend(m2, lev)
  BY <1>1 DEF Tree, LevelsDescend
<1>6. OneParent(m2, lev)
  <2>1. OneParent(m, lev)
    BY DEF Tree
  <2> QED  BY <2>1, <1>1 DEF OneParent
<1>7. PagesAreTaken(m2, f, lev)
  BY <1>1 DEF Tree, PagesAreTaken
<1>8. OneLeaf(m2, lev)
  <2>1. OneLeaf(m, lev)
    BY DEF Tree
  <2> QED  BY <2>1, <1>1 DEF OneLeaf
<1>9. Tree(m2, f, lev)
  BY <1>4, <1>5, <1>6, <1>7, <1>8 DEF Tree
<1>10. ASSUME NEW q \in VirtualPage, q[1] # SELF
       PROVE  /\ PDPR(m2, q) = PDPR(m, q) /\ PD(m2, q) = PD(m, q)
              /\ PT(m2, q) = PT(m, q) /\ MMU(m2, q) = MMU(m, q)
  <2>1. q[1] \in Index \ {SELF} /\ q[2] \in Index /\ q[3] \in Index /\ q[4] \in Index
    BY <1>10, Parts
  <2>2. /\ PDPR(m, q) = NONE \/ (PDPR(m, q) \in Frame /\ lev[PDPR(m, q)] = 3)
        /\ PD(m, q) = NONE \/ (PD(m, q) \in Frame /\ lev[PD(m, q)] = 2)
        /\ PT(m, q) = NONE \/ (PT(m, q) \in Frame /\ lev[PT(m, q)] = 1)
    BY <2>1, WalkDescends
  <2>3. ASSUME NEW x, x = NONE \/ (x \in Frame /\ lev[x] # 0), NEW j \in Index
        PROVE  At(m2, x, j) = At(m, x, j)
    BY <2>3, <1>1, <1>2 DEF At
  <2>4. /\ At(m2, p4_table, q[1]) = At(m, p4_table, q[1])
        /\ At(m2, PDPR(m, q), q[2]) = At(m, PDPR(m, q), q[2])
        /\ At(m2, PD(m, q), q[3]) = At(m, PD(m, q), q[3])
        /\ At(m2, PT(m, q), q[4]) = At(m, PT(m, q), q[4])
    BY <2>1, <2>2, <2>3, <1>2
  <2> QED  BY <2>4, SameWalk
<1> QED  BY <1>9, <1>10

----------------------------------------------------------------------------
(***************************************************************************)
(* Names of pages: the boot's second names are the only ones.              *)
(***************************************************************************)
Canon(q) ==
  << IF q[1] = TOP THEN 0 ELSE q[1],
     IF q[1] \in {0, TOP} /\ q[2] = TOP - 1 THEN 0 ELSE q[2],
     q[3], q[4] >>

LEMMA CanonIsPage ==
  ASSUME NEW q \in VirtualPage, q[1] # SELF
  PROVE  /\ Canon(q) \in VirtualPage /\ Canon(q)[1] # SELF
         /\ <<Canon(q)[1], Canon(q)[2], Canon(q)[3]>> \in Walks
         /\ Canon(q)[1] \in Index /\ Canon(q)[2] \in Index /\ Canon(q)[3] = q[3]
         /\ Canon(q)[4] = q[4]
<1>1. q[1] \in Index /\ q[2] \in Index /\ q[3] \in Index /\ q[4] \in Index
  BY Parts
<1>2. /\ Canon(q)[1] = IF q[1] = TOP THEN 0 ELSE q[1]
      /\ Canon(q)[2] = IF q[1] \in {0, TOP} /\ q[2] = TOP - 1 THEN 0 ELSE q[2]
      /\ Canon(q)[3] = q[3] /\ Canon(q)[4] = q[4]
  BY DEF Canon
<1>3. Canon(q) \in VirtualPage /\ Canon(q)[1] # SELF
  BY <1>1, Slots DEF Canon, VirtualPage
<1>4. <<Canon(q)[1], Canon(q)[2], Canon(q)[3]>> \in Walks
  BY <1>1, <1>2, <1>3, Slots DEF Walks
<1> QED  BY <1>1, <1>2, <1>3, <1>4, Slots

LEMMA CanonIsSame ==
  ASSUME NEW m \in Memory, NEW f, NEW lev, Tree(m, f, lev),
         NEW q \in VirtualPage, q[1] # SELF
  PROVE  /\ PDPR(m, Canon(q)) = PDPR(m, q) /\ PD(m, Canon(q)) = PD(m, q)
         /\ PT(m, Canon(q)) = PT(m, q) /\ MMU(m, Canon(q)) = MMU(m, q)
<1> DEFINE c == Canon(q)
<1>1. /\ c[1] = IF q[1] = TOP THEN 0 ELSE q[1]
      /\ c[2] = IF q[1] \in {0, TOP} /\ q[2] = TOP - 1 THEN 0 ELSE q[2]
      /\ c[3] = q[3] /\ c[4] = q[4]
  BY DEF Canon
<1> HIDE DEF c
<1>2. PDPR(m, c) = PDPR(m, q)
  BY <1>1, Frames DEF PDPR, At, Tree, BootSlots
<1>3. q[1] \in {0, TOP} => PDPR(m, q) = p3_table
  BY Frames DEF PDPR, At, Tree, BootSlots
<1>4. PD(m, c) = PD(m, q)
  BY <1>1, <1>2, <1>3, Frames DEF PD, At, Tree, BootSlots
<1>5. PT(m, c) = PT(m, q)
  BY <1>1, <1>4 DEF PT
<1>6. MMU(m, c) = MMU(m, q)
  BY <1>1, <1>5, WalkEnds
<1> QED  BY <1>2, <1>4, <1>5, <1>6 DEF c

LEMMA SameTableSameName ==
  ASSUME NEW m \in Memory, NEW f, NEW lev, Tree(m, f, lev),
         NEW q \in VirtualPage, q[1] # SELF, NEW p \in VirtualPage, p[1] # SELF,
         PT(m, q) # NONE, PT(m, q) = PT(m, p), q[4] = p[4]
  PROVE  Canon(q) = Canon(p)
<1>1. /\ q[1] \in Index \ {SELF} /\ q[2] \in Index /\ q[3] \in Index
      /\ p[1] \in Index \ {SELF} /\ p[2] \in Index /\ p[3] \in Index
  BY Parts
<1>2. /\ NONE \notin Frame /\ p4_table \in Frame /\ p3_table \in Frame
      /\ lev[p4_table] = 4 /\ lev[p3_table] = 3
  <2>1. lev[p4_table] = 4 /\ p4_table \in Frame
    BY Frames DEF Tree, TopIsLevelFour
  <2>2. lev[p3_table] = 3
    BY <2>1, Frames, Slots DEF Tree, BootSlots, LevelsDescend, Inner
  <2> QED  BY <2>1, <2>2, Frames
<1>3. /\ PDPR(m, q) = NONE \/ (PDPR(m, q) \in Frame /\ lev[PDPR(m, q)] = 3)
      /\ PD(m, q) = NONE \/ (PD(m, q) \in Frame /\ lev[PD(m, q)] = 2)
  BY <1>1, WalkDescends
<1>4. /\ PDPR(m, p) = NONE \/ (PDPR(m, p) \in Frame /\ lev[PDPR(m, p)] = 3)
      /\ PD(m, p) = NONE \/ (PD(m, p) \in Frame /\ lev[PD(m, p)] = 2)
  BY <1>1, WalkDescends
<1>5. ASSUME NEW x \in Frame, NEW y \in Frame, NEW j \in Index, NEW k \in Index,
             lev[x] > 1, lev[y] > 1, Inner(x, j), Inner(y, k),
             m[x][j] # NONE, m[x][j] = m[y][k]
      PROVE  x = y /\ (j = k \/ Alias(x, j, k))
  BY <1>5 DEF Tree, OneParent
<1>6. /\ PD(m, q) \in Frame /\ lev[PD(m, q)] = 2 /\ PD(m, p) \in Frame /\ lev[PD(m, p)] = 2
      /\ m[PD(m, q)][q[3]] # NONE /\ m[PD(m, q)][q[3]] = m[PD(m, p)][p[3]]
  BY <1>3, <1>4, <1>2 DEF PT, At
<1>7. PD(m, q) = PD(m, p) /\ q[3] = p[3]
  <2>1. Inner(PD(m, q), q[3]) /\ Inner(PD(m, p), p[3])
    BY <1>6, <1>2 DEF Inner
  <2>2. PD(m, q) = PD(m, p) /\ (q[3] = p[3] \/ Alias(PD(m, q), q[3], p[3]))
    BY <1>5, <1>6, <1>1, <2>1
  <2>3. ~ Alias(PD(m, q), q[3], p[3])
    BY <1>6, <1>2 DEF Alias
  <2> QED  BY <2>2, <2>3
<1>8. /\ PDPR(m, q) \in Frame /\ lev[PDPR(m, q)] = 3
      /\ PDPR(m, p) \in Frame /\ lev[PDPR(m, p)] = 3
      /\ m[PDPR(m, q)][q[2]] # NONE /\ m[PDPR(m, q)][q[2]] = m[PDPR(m, p)][p[2]]
  BY <1>3, <1>4, <1>2, <1>6, <1>7 DEF PD, At
<1>9. /\ PDPR(m, q) = PDPR(m, p)
      /\ \/ q[2] = p[2]
         \/ /\ PDPR(m, q) = p3_table
            /\ q[2] \in {0, TOP - 1} /\ p[2] \in {0, TOP - 1}
  <2>1. Inner(PDPR(m, q), q[2]) /\ Inner(PDPR(m, p), p[2])
    BY <1>8, <1>2 DEF Inner
  <2>2. PDPR(m, q) = PDPR(m, p) /\ (q[2] = p[2] \/ Alias(PDPR(m, q), q[2], p[2]))
    BY <1>5, <1>8, <1>1, <2>1
  <2> QED  BY <2>2, <1>8, <1>2 DEF Alias
<1>10. /\ m[p4_table][q[1]] = PDPR(m, q) /\ m[p4_table][p[1]] = PDPR(m, q)
       /\ m[p4_table][q[1]] # NONE /\ m[p4_table][p[1]] # NONE
  BY <1>2, <1>8, <1>9 DEF PDPR, At
<1>11. Inner(p4_table, q[1]) /\ Inner(p4_table, p[1]) /\ Inner(p4_table, 0)
  BY <1>1, Slots DEF Inner
<1>12. q[1] = p[1] \/ (q[1] \in {0, TOP} /\ p[1] \in {0, TOP})
  <2>1. q[1] = p[1] \/ Alias(p4_table, q[1], p[1])
    BY <1>5, <1>10, <1>11, <1>1, <1>2
  <2> QED  BY <2>1, Frames DEF Alias
<1>13. PDPR(m, q) = p3_table => q[1] \in {0, TOP} /\ p[1] \in {0, TOP}
  <2> SUFFICES ASSUME PDPR(m, q) = p3_table
               PROVE  q[1] \in {0, TOP} /\ p[1] \in {0, TOP}
    OBVIOUS
  <2>1. m[p4_table][0] = m[p4_table][q[1]] /\ m[p4_table][0] = m[p4_table][p[1]]
    BY <1>10 DEF Tree, BootSlots
  <2>2. ASSUME NEW j \in Index, Inner(p4_table, j), m[p4_table][j] # NONE,
               m[p4_table][j] = m[p4_table][0]
        PROVE  j = 0 \/ Alias(p4_table, j, 0)
    <3>1. lev[p4_table] > 1 /\ 0 \in Index
      BY <1>2, Slots
    <3> QED  BY <1>5, <1>2, <1>11, <2>2, <3>1
  <2>3. q[1] = 0 \/ Alias(p4_table, q[1], 0)
    BY <2>1, <2>2, <1>10, <1>11, <1>1
  <2>4. p[1] = 0 \/ Alias(p4_table, p[1], 0)
    BY <2>1, <2>2, <1>10, <1>11, <1>1
  <2> QED  BY <2>3, <2>4, Frames DEF Alias
<1>14. (IF q[1] = TOP THEN 0 ELSE q[1]) = (IF p[1] = TOP THEN 0 ELSE p[1])
  BY <1>12
<1>15. (IF q[1] \in {0, TOP} /\ q[2] = TOP - 1 THEN 0 ELSE q[2])
         = (IF p[1] \in {0, TOP} /\ p[2] = TOP - 1 THEN 0 ELSE p[2])
  BY <1>9, <1>12, <1>13
<1> QED  BY <1>7, <1>14, <1>15 DEF Canon

----------------------------------------------------------------------------
(***************************************************************************)
(* The lowest of a set of frames.                                          *)
(***************************************************************************)
LEMMA LeastNatural ==
  ASSUME NEW T \in SUBSET Nat, T # {}
  PROVE  \E n \in T : \A m \in T : n <= m
<1> DEFINE R == OpToRel(<, Nat)
<1>1. \A n, m \in Nat : m < n => <<m, n>> \in R
  BY DEF OpToRel
<1>2. IsWellFoundedOn(R, Nat)
  BY NatLessThanWellFounded
<1> HIDE DEF R
<1>3. PICK n \in T : \A m \in T : ~ (<<m, n>> \in R)
  BY <1>2, WFMin
<1>4. ASSUME NEW m \in T
      PROVE  n <= m
  <2>1. m \in Nat /\ n \in Nat /\ ~ (m < n)
    BY <1>1, <1>3
  <2> QED  BY <2>1
<1> QED  BY <1>4

LEMMA LowestIsFree ==
  ASSUME NEW f \in SUBSET Spare
  PROVE  /\ f # {} => Lowest(f) \in f
         /\ f = {} => Lowest(f) = 0
         /\ Lowest(f) \in Frame /\ Lowest(f) \in Entry
<1>1. f # {} => Lowest(f) \in f
  <2> SUFFICES ASSUME f # {}
               PROVE  Lowest(f) \in f
    OBVIOUS
  <2>1. f \in SUBSET Nat
    BY Frames
  <2>2. \E n \in f : \A g \in f : n <= g
    BY <2>1, LeastNatural
  <2> QED  BY <2>2 DEF Lowest
<1>2. f = {} => Lowest(f) = 0
  BY DEF Lowest
<1> QED  BY <1>1, <1>2, Frames

----------------------------------------------------------------------------
(***************************************************************************)
(* map_page: the creation of a table, three times, and the entry.          *)
(***************************************************************************)
States == [mem : Memory, free : SUBSET Spare, out : BOOLEAN]

LEMMA AllocatedIs ==
  ASSUME NEW s \in States
  PROVE  /\ Allocated(s) \in States
         /\ Allocated(s).mem = s.mem
         /\ Allocated(s).free = s.free \ {Lowest(s.free)}
         /\ Allocated(s).out = (s.out \/ s.free = {})
BY DEF Allocated, States

\* A window shows a table, if the recursive slot is what it should be.
LEMMA TopWindow ==
  ASSUME NEW m, m[p4_table][SELF] = p4_table
  PROVE  MMU(m, <<SELF, SELF, SELF, SELF>>) = p4_table
<1>1. At(m, p4_table, SELF) = p4_table
  BY Frames DEF At
<1> QED  BY <1>1 DEF MMU

LEMMA PDPRWindow ==
  ASSUME NEW m, m[p4_table][SELF] = p4_table, NEW a
  PROVE  MMU(m, <<SELF, SELF, SELF, a>>) = At(m, p4_table, a)
<1>1. At(m, p4_table, SELF) = p4_table
  BY Frames DEF At
<1> QED  BY <1>1 DEF MMU

LEMMA PDWindow ==
  ASSUME NEW m, m[p4_table][SELF] = p4_table, NEW a, NEW b
  PROVE  MMU(m, <<SELF, SELF, a, b>>) = At(m, At(m, p4_table, a), b)
<1>1. At(m, p4_table, SELF) = p4_table
  BY Frames DEF At
<1> QED  BY <1>1 DEF MMU

LEMMA PTWindow ==
  ASSUME NEW m, m[p4_table][SELF] = p4_table, NEW a, NEW b, NEW c
  PROVE  MMU(m, <<SELF, a, b, c>>) = At(m, At(m, At(m, p4_table, a), b), c)
<1>1. At(m, p4_table, SELF) = p4_table
  BY Frames DEF At
<1> QED  BY <1>1 DEF MMU

LEMMA EnsuredIs ==
  ASSUME NEW s \in States, NEW w, NEW i \in Index, NEW c
  PROVE  /\ Ensured(s, w, i, c) \in States
         /\ Ensured(s, w, i, c).free \subseteq s.free
         /\ ~ Ensured(s, w, i, c).out => ~ s.out
         /\ At(s.mem, MMU(s.mem, w), i) # NONE => Ensured(s, w, i, c) = s
         /\ At(s.mem, MMU(s.mem, w), i) = NONE =>
              /\ Ensured(s, w, i, c).mem =
                   clean_new_table(Put(s.mem, MMU(s.mem, w), i, Lowest(s.free)), c)
              /\ Ensured(s, w, i, c).free = s.free \ {Lowest(s.free)}
              /\ ~ Ensured(s, w, i, c).out => s.free # {}
         /\ Put(s.mem, MMU(s.mem, w), i, Lowest(s.free)) \in Memory
<1> DEFINE t == MMU(s.mem, w)
           n == Lowest(s.free)
           e == Ensured(s, w, i, c)
           linked == Put(s.mem, t, i, n)
<1>1. s.mem \in Memory /\ s.free \in SUBSET Spare /\ s.out \in BOOLEAN
  BY DEF States
<1>2. n \in Entry
  BY <1>1, LowestIsFree
<1>3. linked \in Memory
  <2>1. s.mem[t] \in [Index -> Entry] => [s.mem[t] EXCEPT ![i] = n] \in [Index -> Entry]
    BY <1>2
  <2> QED  BY <2>1, <1>1 DEF Memory, Put
<1>4. clean_new_table(linked, c) \in Memory
  <2>1. [j \in Index |-> NONE] \in [Index -> Entry]
    BY Frames
  <2> QED  BY <2>1, <1>3 DEF Memory, clean_new_table, Empty
<1>5. CASE At(s.mem, t, i) # NONE
  BY <1>5, <1>3 DEF Ensured
<1>6. CASE At(s.mem, t, i) = NONE
  <2> DEFINE new == clean_new_table(linked, c)
  <2>1. e = [Allocated(s) EXCEPT !.mem = new]
    BY <1>6 DEF Ensured
  <2>2. new \in Memory
    BY <1>4
  <2> HIDE DEF new
  <2> DEFINE a == Allocated(s)
  <2>3. /\ a \in States /\ a.free = s.free \ {n} /\ a.out = (s.out \/ s.free = {})
    BY AllocatedIs
  <2>4. e = [a EXCEPT !.mem = new]
    BY <2>1
  <2> HIDE DEF a
  <2>5. e.mem = new /\ e.free = a.free /\ e.out = a.out /\ e \in States
    BY <2>2, <2>3, <2>4 DEF States
  <2>6. e.free = s.free \ {n} /\ e.out = (s.out \/ s.free = {})
    BY <2>5, <2>3
  <2> QED  BY <2>5, <2>6, <1>1, <1>3, <1>6 DEF new
<1> QED  BY <1>5, <1>6

\* What one of the three stages does to the tree.
Grown(s, e, lev, lev2, t, i) ==
  /\ Tree(e.mem, e.free, lev2)
  /\ \A x \in Frame : lev[x] # 0 => lev2[x] = lev[x]
  /\ \A x \in Frame, j \in Index :
       lev[x] # 0 /\ ~ (x = t /\ j = i) => e.mem[x][j] = s.mem[x][j]
  /\ e.mem[t][i] # NONE
  /\ s.mem[t][i] # NONE => e = s
  /\ s.free \ e.free \subseteq {e.mem[t][i]}
  /\ SamePages(s.mem, e.mem)
  /\ \A k \in Spare :
       k \notin s.free /\ Unused(s.mem, lev, k) => Unused(e.mem, lev2, k)

LEMMA EnsuredGrows ==
  ASSUME NEW s \in States, NEW lev, Tree(s.mem, s.free, lev),
         NEW w, NEW i \in Index, NEW c,
         NEW t \in Frame, lev[t] > 1, Inner(t, i), MMU(s.mem, w) = t,
         \A n \in s.free, m2 \in Memory :
           /\ m2[t][i] = n
           /\ \A x \in Frame, j \in Index : (x = t /\ j = i) \/ m2[x][j] = s.mem[x][j]
           => MMU(m2, c) = n,
         NEW e, e = Ensured(s, w, i, c), ~ e.out
  PROVE  \E lev2 : Grown(s, e, lev, lev2, t, i)
<1> DEFINE n == Lowest(s.free)
           linked == Put(s.mem, t, i, n)
<1>1. s.mem \in Memory /\ s.free \in SUBSET Spare
  BY DEF States
<1>2. At(s.mem, t, i) = s.mem[t][i]
  BY DEF At
<1>n. n = Lowest(s.free)
  OBVIOUS
<1> HIDE DEF n
<1>l. linked = [s.mem EXCEPT ![t] = [@ EXCEPT ![i] = n]]
  BY DEF Put
<1> HIDE DEF linked
<1>3. /\ e \in States
      /\ s.mem[t][i] # NONE => e = s
      /\ s.mem[t][i] = NONE =>
           /\ e.mem = clean_new_table(linked, c)
           /\ e.free = s.free \ {n}
           /\ s.free # {}
      /\ linked \in Memory
  <2>1. /\ e \in States
        /\ At(s.mem, MMU(s.mem, w), i) # NONE => e = s
        /\ Put(s.mem, MMU(s.mem, w), i, Lowest(s.free)) \in Memory
    BY EnsuredIs
  <2>3. ~ Ensured(s, w, i, c).out
    OBVIOUS
  <2>2. ASSUME At(s.mem, MMU(s.mem, w), i) = NONE
        PROVE  /\ e.mem = clean_new_table(Put(s.mem, MMU(s.mem, w), i, Lowest(s.free)), c)
               /\ e.free = s.free \ {Lowest(s.free)}
               /\ s.free # {}
    <3>1. e.mem = clean_new_table(Put(s.mem, MMU(s.mem, w), i, Lowest(s.free)), c)
      BY EnsuredIs, <2>2
    <3>2. e.free = s.free \ {Lowest(s.free)}
      BY EnsuredIs, <2>2
    <3>3. s.free # {}
      BY EnsuredIs, <2>2, <2>3
    <3> QED  BY <3>1, <3>2, <3>3
  <2> QED  BY <2>1, <2>2, <1>2, <1>n DEF linked
<1>4. CASE s.mem[t][i] # NONE
  <2>1. Grown(s, e, lev, lev, t, i)
    BY <1>3, <1>4 DEF Grown, SamePages
  <2> QED  BY <2>1
<1>5. CASE s.mem[t][i] = NONE
  <2>1. n \in s.free /\ n \in Frame /\ n \in Spare
    BY <1>1, <1>3, <1>5, <1>n, LowestIsFree, Frames
  <2>2. lev[n] = 0 /\ n # t
    BY <2>1 DEF Tree, TablesAreTaken
  <2>3. /\ linked[t][i] = n
        /\ \A x \in Frame, j \in Index : (x = t /\ j = i) \/ linked[x][j] = s.mem[x][j]
    BY <1>1, <1>l DEF Memory
  <2>4. MMU(linked, c) = n
    BY <2>1, <2>3, <1>3
  <2>5. e.mem = [linked EXCEPT ![n] = Empty] /\ e.mem \in Memory
    BY <2>4, <1>3, <1>5 DEF States, clean_new_table, Empty
  <2>6. Linked(s.mem, e.mem, t, i, n)
    <3>1. DOMAIN linked = Frame
      BY <1>3 DEF Memory
    <3>2. e.mem[n] = Empty /\ \A x \in Frame \ {n} : e.mem[x] = linked[x]
      BY <2>5, <2>1, <3>1
    <3>3. \A j \in Index : e.mem[n][j] = NONE
      BY <3>2 DEF Empty
    <3>4. e.mem[t][i] = n
      BY <3>2, <2>2, <2>3
    <3>5. ASSUME NEW x \in Frame \ {n}, NEW j \in Index
          PROVE  (x = t /\ j = i) \/ e.mem[x][j] = s.mem[x][j]
      BY <3>2, <2>3
    <3> QED  BY <3>3, <3>4, <3>5 DEF Linked
  <2> DEFINE lev2 == [lev EXCEPT ![n] = lev[t] - 1]
  <2>7. Tree(e.mem, e.free, lev2)
    <3>1. Tree(e.mem, s.free \ {n}, lev2)
      BY <1>1, <1>5, <2>1, <2>5, <2>6, LinkKeepsTree
    <3> QED  BY <3>1, <1>3, <1>5
  <2>8. SamePages(s.mem, e.mem)
    BY <1>1, <1>5, <2>1, <2>5, <2>6, LinkKeepsPages
  <2>9. lev \in Levels
    BY DEF Tree
  <2>10. \A k \in Spare :
           k \notin s.free /\ Unused(s.mem, lev, k) => Unused(e.mem, lev2, k)
    BY <1>1, <2>1, <2>2, <2>5, <2>6, <2>9, LinkKeepsUnused
  <2>11. \A x \in Frame : lev[x] # 0 => lev2[x] = lev[x]
    BY <2>2, <2>9 DEF Levels
  <2>12. \A x \in Frame, j \in Index :
           lev[x] # 0 /\ ~ (x = t /\ j = i) => e.mem[x][j] = s.mem[x][j]
    BY <2>2, <2>6 DEF Linked
  <2>13. e.mem[t][i] = n /\ n # NONE
    BY <2>6, <2>1, Frames DEF Linked
  <2>14. s.free \ e.free \subseteq {e.mem[t][i]}
    BY <2>13, <1>3, <1>5
  <2> HIDE DEF lev2
  <2>15. Grown(s, e, lev, lev2, t, i)
    BY <2>7, <2>8, <2>10, <2>11, <2>12, <2>13, <2>14, <1>5 DEF Grown
  <2> QED  BY <2>15
<1> QED  BY <1>4, <1>5

----------------------------------------------------------------------------
\* The three stages, and the last one.
Stage1(s, p) == Ensured(s, <<SELF, SELF, SELF, SELF>>, p[1], <<SELF, SELF, SELF, p[1]>>)
Stage2(s, p) == Ensured(s, <<SELF, SELF, SELF, p[1]>>, p[2], <<SELF, SELF, p[1], p[2]>>)
Stage3(s, p) == Ensured(s, <<SELF, SELF, p[1], p[2]>>, p[3], <<SELF, p[1], p[2], p[3]>>)
Stage4(s, p, entry) ==
  IF At(s.mem, MMU(s.mem, <<SELF, p[1], p[2], p[3]>>), p[4]) # NONE THEN s
  ELSE [s EXCEPT !.mem = Put(@, MMU(s.mem, <<SELF, p[1], p[2], p[3]>>), p[4], entry)]

LEMMA StagesAreAll ==
  ASSUME NEW s, NEW p, NEW entry
  PROVE  map_page(s, p, entry) = Stage4(Stage3(Stage2(Stage1(s, p), p), p), p, entry)
BY DEF map_page, Stage1, Stage2, Stage3, Stage4

LEMMA Stage4Is ==
  ASSUME NEW s \in States, NEW p \in VirtualPage, NEW entry \in Entry
  PROVE  /\ Stage4(s, p, entry) \in States
         /\ Stage4(s, p, entry).free = s.free /\ Stage4(s, p, entry).out = s.out
         /\ At(s.mem, MMU(s.mem, <<SELF, p[1], p[2], p[3]>>), p[4]) # NONE =>
              Stage4(s, p, entry) = s
         /\ At(s.mem, MMU(s.mem, <<SELF, p[1], p[2], p[3]>>), p[4]) = NONE =>
              Stage4(s, p, entry).mem =
                Put(s.mem, MMU(s.mem, <<SELF, p[1], p[2], p[3]>>), p[4], entry)
<1> DEFINE t == MMU(s.mem, <<SELF, p[1], p[2], p[3]>>)
<1>1. p[4] \in Index /\ s.mem \in Memory
  BY Parts DEF States
<1>2. Put(s.mem, t, p[4], entry) \in Memory
  <2>1. s.mem[t] \in [Index -> Entry] => [s.mem[t] EXCEPT ![p[4]] = entry] \in [Index -> Entry]
    BY <1>1
  <2> QED  BY <2>1, <1>1 DEF Memory, Put
<1>3. CASE At(s.mem, t, p[4]) # NONE
  BY <1>3 DEF Stage4
<1>4. CASE At(s.mem, t, p[4]) = NONE
  <2> DEFINE new == Put(s.mem, t, p[4], entry)
  <2>1. Stage4(s, p, entry) = [s EXCEPT !.mem = new]
    BY <1>4 DEF Stage4
  <2>3. new \in Memory
    BY <1>2
  <2> HIDE DEF new
  <2>5. Stage4(s, p, entry) \in States /\ Stage4(s, p, entry).mem = new
        /\ Stage4(s, p, entry).free = s.free /\ Stage4(s, p, entry).out = s.out
    BY <2>1, <2>3 DEF States
  <2> QED  BY <2>5, <1>4 DEF new
<1> QED  BY <1>3, <1>4

LEMMA MapPageType ==
  ASSUME NEW s \in States, NEW p \in VirtualPage, NEW entry \in Entry
  PROVE  /\ map_page(s, p, entry) \in States
         /\ map_page(s, p, entry).free \subseteq s.free
         /\ ~ map_page(s, p, entry).out => ~ s.out
<1>1. p[1] \in Index /\ p[2] \in Index /\ p[3] \in Index
  BY Parts
<1>2. /\ Stage1(s, p) \in States /\ Stage1(s, p).free \subseteq s.free
      /\ ~ Stage1(s, p).out => ~ s.out
  BY <1>1, EnsuredIs DEF Stage1
<1> DEFINE s1 == Stage1(s, p)
<1>3. /\ Stage2(s1, p) \in States /\ Stage2(s1, p).free \subseteq s1.free
      /\ ~ Stage2(s1, p).out => ~ s1.out
  BY <1>1, <1>2, EnsuredIs DEF Stage2
<1> DEFINE s2 == Stage2(s1, p)
<1>4. /\ Stage3(s2, p) \in States /\ Stage3(s2, p).free \subseteq s2.free
      /\ ~ Stage3(s2, p).out => ~ s2.out
  BY <1>1, <1>3, EnsuredIs DEF Stage3
<1> DEFINE s3 == Stage3(s2, p)
<1>5. /\ Stage4(s3, p, entry) \in States
      /\ Stage4(s3, p, entry).free = s3.free /\ Stage4(s3, p, entry).out = s3.out
  BY <1>4, Stage4Is
<1>6. map_page(s, p, entry) = Stage4(s3, p, entry)
  BY StagesAreAll
<1> HIDE DEF s1, s2, s3
<1>7. /\ s1.free \subseteq s.free /\ s2.free \subseteq s1.free /\ s3.free \subseteq s2.free
      /\ (~ s1.out => ~ s.out) /\ (~ s2.out => ~ s1.out) /\ (~ s3.out => ~ s2.out)
  BY <1>2, <1>3, <1>4 DEF s1, s2, s3
<1> QED  BY <1>5, <1>6, <1>7

----------------------------------------------------------------------------
\* The windows of the stages show the table, and then the new one.
LEMMA Stage1Grows ==
  ASSUME NEW s \in States, NEW lev, Tree(s.mem, s.free, lev),
         NEW p \in VirtualPage, p[1] # SELF, ~ Stage1(s, p).out
  PROVE  \E lev2 : Grown(s, Stage1(s, p), lev, lev2, p4_table, p[1])
<1>1. p[1] \in Index /\ p4_table \in Frame /\ lev[p4_table] > 1 /\ Inner(p4_table, p[1])
  BY Parts, Frames DEF Tree, TopIsLevelFour, Inner
<1>2. s.mem[p4_table][SELF] = p4_table
  BY DEF Tree, BootSlots
<1>3. MMU(s.mem, <<SELF, SELF, SELF, SELF>>) = p4_table
  BY <1>2, TopWindow
<1>4. ASSUME NEW n \in s.free, NEW m2 \in Memory,
             m2[p4_table][p[1]] = n,
             \A x \in Frame, j \in Index :
               (x = p4_table /\ j = p[1]) \/ m2[x][j] = s.mem[x][j]
      PROVE  MMU(m2, <<SELF, SELF, SELF, p[1]>>) = n
  <2>1. m2[p4_table][SELF] = p4_table
    BY <1>4, <1>2, <1>1, Slots
  <2>2. MMU(m2, <<SELF, SELF, SELF, p[1]>>) = At(m2, p4_table, p[1])
    BY <2>1, PDPRWindow
  <2> QED  BY <2>2, <1>1, <1>4 DEF At
<1>5. \A n \in s.free, m2 \in Memory :
        /\ m2[p4_table][p[1]] = n
        /\ \A x \in Frame, j \in Index :
             (x = p4_table /\ j = p[1]) \/ m2[x][j] = s.mem[x][j]
        => MMU(m2, <<SELF, SELF, SELF, p[1]>>) = n
  BY <1>4
<1>6. Stage1(s, p) = Ensured(s, <<SELF, SELF, SELF, SELF>>, p[1], <<SELF, SELF, SELF, p[1]>>)
  BY DEF Stage1
<1> QED  BY <1>1, <1>3, <1>5, <1>6, EnsuredGrows

LEMMA Stage2Grows ==
  ASSUME NEW s \in States, NEW lev, Tree(s.mem, s.free, lev),
         NEW p \in VirtualPage, p[1] # SELF, ~ Stage2(s, p).out,
         NEW t, t = s.mem[p4_table][p[1]], t # NONE
  PROVE  \E lev2 : Grown(s, Stage2(s, p), lev, lev2, t, p[2])
<1>1. p[1] \in Index /\ p[2] \in Index /\ p4_table \in Frame /\ lev[p4_table] = 4
  BY Parts, Frames DEF Tree, TopIsLevelFour
<1>2. t \in Frame /\ lev[t] = 3
  BY <1>1 DEF Tree, LevelsDescend, Inner
<1>3. lev[t] > 1 /\ Inner(t, p[2]) /\ t # p4_table
  BY <1>1, <1>2 DEF Inner
<1>4. s.mem[p4_table][SELF] = p4_table
  BY DEF Tree, BootSlots
<1>5. MMU(s.mem, <<SELF, SELF, SELF, p[1]>>) = t
  BY <1>1, <1>4, PDPRWindow DEF At
<1>6. ASSUME NEW n \in s.free, NEW m2 \in Memory,
             m2[t][p[2]] = n,
             \A x \in Frame, j \in Index :
               (x = t /\ j = p[2]) \/ m2[x][j] = s.mem[x][j]
      PROVE  MMU(m2, <<SELF, SELF, p[1], p[2]>>) = n
  <2>1. m2[p4_table][SELF] = p4_table /\ m2[p4_table][p[1]] = t
    BY <1>6, <1>4, <1>3, <1>1, Slots
  <2>2. MMU(m2, <<SELF, SELF, p[1], p[2]>>) = At(m2, At(m2, p4_table, p[1]), p[2])
    BY <2>1, PDWindow
  <2> QED  BY <2>1, <2>2, <1>1, <1>2, <1>6 DEF At
<1> QED  BY <1>1, <1>2, <1>3, <1>5, <1>6, EnsuredGrows DEF Stage2

LEMMA Stage3Grows ==
  ASSUME NEW s \in States, NEW lev, Tree(s.mem, s.free, lev),
         NEW p \in VirtualPage, p[1] # SELF, ~ Stage3(s, p).out,
         NEW t, t = s.mem[p4_table][p[1]], t # NONE,
         NEW u, u = s.mem[t][p[2]], u # NONE
  PROVE  \E lev2 : Grown(s, Stage3(s, p), lev, lev2, u, p[3])
<1>1. /\ p[1] \in Index /\ p[2] \in Index /\ p[3] \in Index
      /\ p4_table \in Frame /\ lev[p4_table] = 4
  BY Parts, Frames DEF Tree, TopIsLevelFour
<1>2. t \in Frame /\ lev[t] = 3
  BY <1>1 DEF Tree, LevelsDescend, Inner
<1>3. t # p4_table /\ u \in Frame /\ lev[u] = 2
  BY <1>1, <1>2 DEF Tree, LevelsDescend, Inner
<1>4. lev[u] > 1 /\ Inner(u, p[3]) /\ u # p4_table /\ u # t
  BY <1>1, <1>2, <1>3 DEF Inner
<1>5. s.mem[p4_table][SELF] = p4_table
  BY DEF Tree, BootSlots
<1>6. MMU(s.mem, <<SELF, SELF, p[1], p[2]>>) = u
  BY <1>1, <1>2, <1>5, PDWindow DEF At
<1>7. ASSUME NEW n \in s.free, NEW m2 \in Memory,
             m2[u][p[3]] = n,
             \A x \in Frame, j \in Index :
               (x = u /\ j = p[3]) \/ m2[x][j] = s.mem[x][j]
      PROVE  MMU(m2, <<SELF, p[1], p[2], p[3]>>) = n
  <2>1. /\ m2[p4_table][SELF] = p4_table /\ m2[p4_table][p[1]] = t
        /\ m2[t][p[2]] = u
    BY <1>7, <1>5, <1>4, <1>1, <1>2, Slots
  <2>2. MMU(m2, <<SELF, p[1], p[2], p[3]>>)
          = At(m2, At(m2, At(m2, p4_table, p[1]), p[2]), p[3])
    BY <2>1, PTWindow
  <2> QED  BY <2>1, <2>2, <1>1, <1>2, <1>3, <1>7 DEF At
<1> QED  BY <1>1, <1>3, <1>4, <1>6, <1>7, EnsuredGrows DEF Stage3

----------------------------------------------------------------------------
(***************************************************************************)
(* map_page: one page gets an entry, if it had none.                       *)
(***************************************************************************)
Mapped(s, t, p, entry, lev) ==
  /\ Tree(t.mem, t.free, lev)
  /\ \A q \in VirtualPage :
       q[1] # SELF /\ Canon(q) # Canon(p) => MMU(t.mem, q) = MMU(s.mem, q)
  /\ MMU(s.mem, p) # NONE => t = s
  /\ MMU(s.mem, p) = NONE => MMU(t.mem, p) = entry
  /\ s.free \ t.free \subseteq {PDPR(t.mem, p), PD(t.mem, p), PT(t.mem, p)}
  /\ PDPR(t.mem, p) # NONE /\ PD(t.mem, p) # NONE /\ PT(t.mem, p) # NONE

\* The state after three stages: the page has a table.
LEMMA ThreeStages ==
  ASSUME NEW s \in States, NEW lev, Tree(s.mem, s.free, lev),
         NEW p \in VirtualPage, p[1] # SELF,
         NEW t, t = Stage3(Stage2(Stage1(s, p), p), p), ~ t.out
  PROVE  /\ t \in States
         /\ \E lev2 :
              /\ Tree(t.mem, t.free, lev2)
              /\ SamePages(s.mem, t.mem)
              /\ MMU(s.mem, p) # NONE => t = s
              /\ s.free \ t.free \subseteq {PDPR(t.mem, p), PD(t.mem, p), PT(t.mem, p)}
              /\ t.free \subseteq s.free
              /\ PDPR(t.mem, p) # NONE /\ PD(t.mem, p) # NONE /\ PT(t.mem, p) # NONE
              /\ \A k \in Spare :
                   k \notin s.free /\ Unused(s.mem, lev, k) => Unused(t.mem, lev2, k)
<1> DEFINE s1 == Stage1(s, p)
           s2 == Stage2(s1, p)
<1>1. /\ p[1] \in Index /\ p[2] \in Index /\ p[3] \in Index /\ p[4] \in Index
      /\ p4_table \in Frame /\ NONE \notin Frame
  BY Parts, Frames
<1>2. s1 \in States /\ s1.free \subseteq s.free /\ (~ s1.out => ~ s.out)
  BY <1>1, EnsuredIs DEF Stage1
<1>3. s2 \in States /\ s2.free \subseteq s1.free /\ (~ s2.out => ~ s1.out)
  BY <1>1, <1>2, EnsuredIs DEF Stage2
<1> HIDE DEF s1
<1>4. t = Stage3(s2, p)
  BY DEF s1
<1>5. s2 = Stage2(s1, p) /\ s1 = Stage1(s, p)
  BY DEF s1
<1> HIDE DEF s2
<1>6. t \in States /\ t.free \subseteq s2.free /\ (~ t.out => ~ s2.out)
  <2>1. /\ Stage3(s2, p) \in States /\ Stage3(s2, p).free \subseteq s2.free
        /\ (~ Stage3(s2, p).out => ~ s2.out)
    BY <1>1, <1>3, EnsuredIs DEF Stage3
  <2> QED  BY <2>1, <1>4
<1>7. ~ s1.out /\ ~ s2.out
  BY <1>3, <1>6
<1>8. PICK lev1 : Grown(s, s1, lev, lev1, p4_table, p[1])
  <2>1. ~ Stage1(s, p).out
    BY <1>7, <1>5
  <2> QED  BY <2>1, <1>5, Stage1Grows
<1> DEFINE a == s1.mem[p4_table][p[1]]
<1>9. /\ Tree(s1.mem, s1.free, lev1) /\ a # NONE
      /\ lev1[p4_table] = 4
  BY <1>8, <1>1 DEF Grown, Tree, TopIsLevelFour
<1>10. a \in Frame /\ lev1[a] = 3 /\ a # p4_table
  BY <1>9, <1>1 DEF Tree, LevelsDescend, Inner
<1>11. PICK lev2 : Grown(s1, s2, lev1, lev2, a, p[2])
  <2>1. ~ Stage2(s1, p).out
    BY <1>7, <1>5
  <2> QED  BY <2>1, <1>2, <1>5, <1>9, Stage2Grows
<1>12. /\ Tree(s2.mem, s2.free, lev2) /\ s2.mem[a][p[2]] # NONE
       /\ s2.mem[p4_table][p[1]] = a
       /\ lev2[a] = 3 /\ lev2[p4_table] = 4
  BY <1>11, <1>9, <1>10, <1>1 DEF Grown
<1> DEFINE b == s2.mem[a][p[2]]
<1>13. b \in Frame /\ lev2[b] = 2 /\ b # a /\ b # p4_table
  BY <1>12, <1>10, <1>1 DEF Tree, LevelsDescend, Inner
<1>14. PICK lev3 : Grown(s2, t, lev2, lev3, b, p[3])
  <2>1. ~ Stage3(s2, p).out
    BY <1>4
  <2>2. a = s2.mem[p4_table][p[1]] /\ a # NONE /\ b = s2.mem[a][p[2]] /\ b # NONE
    BY <1>12, <1>9
  <2> HIDE DEF a, b
  <2> QED  BY <2>1, <2>2, <1>3, <1>4, <1>12, Stage3Grows
<1>15. /\ t.mem[p4_table][p[1]] = a /\ t.mem[a][p[2]] = b /\ t.mem[b][p[3]] # NONE
       /\ Tree(t.mem, t.free, lev3)
  <2>1. \A x \in Frame, j \in Index :
          lev2[x] # 0 /\ ~ (x = b /\ j = p[3]) => t.mem[x][j] = s2.mem[x][j]
    BY <1>14 DEF Grown
  <2>2. t.mem[b][p[3]] # NONE /\ Tree(t.mem, t.free, lev3)
    BY <1>14 DEF Grown
  <2> HIDE DEF a, b
  <2>3. t.mem[p4_table][p[1]] = a
    BY <2>1, <1>1, <1>12, <1>13
  <2>4. t.mem[a][p[2]] = s2.mem[a][p[2]]
    BY <2>1, <1>1, <1>10, <1>12, <1>13
  <2> QED  BY <2>2, <2>3, <2>4 DEF b
<1> DEFINE c == t.mem[b][p[3]]
<1>16. PDPR(t.mem, p) = a /\ PD(t.mem, p) = b /\ PT(t.mem, p) = c
  BY <1>15, <1>10, <1>13, <1>1 DEF PDPR, PD, PT, At
<1>17. /\ s.free \ s1.free \subseteq {a}
       /\ s1.free \ s2.free \subseteq {b}
       /\ s2.free \ t.free \subseteq {c}
  BY <1>8, <1>11, <1>14 DEF Grown
<1>18. SamePages(s.mem, t.mem)
  BY <1>8, <1>11, <1>14 DEF Grown, SamePages
<1>19. ASSUME NEW k \in Spare, k \notin s.free, Unused(s.mem, lev, k)
       PROVE  Unused(t.mem, lev3, k)
  BY <1>19, <1>2, <1>3, <1>8, <1>11, <1>14 DEF Grown
<1>20. ASSUME MMU(s.mem, p) # NONE
       PROVE  t = s
  <2>1. At(s.mem, NONE, p[2]) = NONE /\ At(s.mem, NONE, p[3]) = NONE
        /\ At(s.mem, NONE, p[4]) = NONE
    BY <1>1 DEF At
  <2>2. PT(s.mem, p) # NONE /\ PD(s.mem, p) # NONE /\ PDPR(s.mem, p) # NONE
    BY <1>20, <2>1, WalkEnds DEF PT, PD
  <2>3. s.mem[p4_table][p[1]] # NONE
    BY <2>2, <1>1 DEF PDPR, At
  <2>4. s1 = s
    BY <2>3, <1>8 DEF Grown
  <2>5. a = PDPR(s.mem, p)
    BY <2>4, <1>1 DEF PDPR, At
  <2>6. s1.mem[a][p[2]] # NONE
    BY <2>2, <2>4, <2>5, <1>10 DEF PD, At
  <2>7. s2 = s1
    BY <2>6, <1>11 DEF Grown
  <2>8. b = PD(s.mem, p)
    BY <2>4, <2>5, <2>7, <1>10 DEF PD, At
  <2>9. s2.mem[b][p[3]] # NONE
    BY <2>2, <2>4, <2>7, <2>8, <1>13 DEF PT, At
  <2>10. t = s2
    BY <2>9, <1>14 DEF Grown
  <2> QED  BY <2>4, <2>7, <2>10
<1>21. a # NONE /\ b # NONE /\ c # NONE
  BY <1>9, <1>12, <1>15
<1> HIDE DEF a, b, c
<1>22. /\ s.free \ t.free \subseteq {a, b, c}
       /\ t.free \subseteq s.free
  BY <1>17, <1>2, <1>3, <1>6
<1>23. /\ Tree(t.mem, t.free, lev3)
       /\ SamePages(s.mem, t.mem)
       /\ MMU(s.mem, p) # NONE => t = s
       /\ s.free \ t.free \subseteq {PDPR(t.mem, p), PD(t.mem, p), PT(t.mem, p)}
       /\ t.free \subseteq s.free
       /\ PDPR(t.mem, p) # NONE /\ PD(t.mem, p) # NONE /\ PT(t.mem, p) # NONE
       /\ \A k \in Spare :
            k \notin s.free /\ Unused(s.mem, lev, k) => Unused(t.mem, lev3, k)
  BY <1>15, <1>16, <1>18, <1>19, <1>20, <1>21, <1>22
<1> QED  BY <1>6, <1>23

LEMMA MapPage ==
  ASSUME NEW s \in States, NEW lev, Tree(s.mem, s.free, lev),
         NEW p \in VirtualPage, p[1] # SELF,
         NEW entry \in Spare \cup {NONE},
         entry # NONE => entry \notin s.free /\ Unused(s.mem, lev, entry),
         ~ map_page(s, p, entry).out
  PROVE  \E lev2 : Mapped(s, map_page(s, p, entry), p, entry, lev2)
<1> DEFINE u == Stage3(Stage2(Stage1(s, p), p), p)
           t == map_page(s, p, entry)
<1>1. t = Stage4(u, p, entry)
  BY StagesAreAll
<1>2. u = Stage3(Stage2(Stage1(s, p), p), p)
  OBVIOUS
<1>3. entry \in Entry /\ NONE \notin Frame /\ NONE \notin Spare
  BY Frames
<1>4. p[4] \in Index /\ p[1] \in Index \ {SELF} /\ p[2] \in Index /\ p[3] \in Index
  BY Parts
<1>5. u \in States
  <2>1. p[1] \in Index /\ p[2] \in Index /\ p[3] \in Index
    BY <1>4
  <2>2. Stage1(s, p) \in States
    BY <2>1, EnsuredIs DEF Stage1
  <2>3. Stage2(Stage1(s, p), p) \in States
    BY <2>1, <2>2, EnsuredIs DEF Stage2
  <2> QED  BY <2>1, <2>3, EnsuredIs DEF Stage3
<1> HIDE DEF u
<1> DEFINE pt == MMU(u.mem, <<SELF, p[1], p[2], p[3]>>)
<1>6. /\ t \in States /\ t.free = u.free /\ t.out = u.out
      /\ At(u.mem, pt, p[4]) # NONE => t = u
      /\ At(u.mem, pt, p[4]) = NONE => t.mem = Put(u.mem, pt, p[4], entry)
  BY <1>1, <1>3, <1>5, Stage4Is
<1>7. ~ t.out
  OBVIOUS
<1> HIDE DEF t
<1>8. ~ u.out
  BY <1>6, <1>7
<1>9. PICK lev2 :
        /\ Tree(u.mem, u.free, lev2)
        /\ SamePages(s.mem, u.mem)
        /\ MMU(s.mem, p) # NONE => u = s
        /\ s.free \ u.free \subseteq {PDPR(u.mem, p), PD(u.mem, p), PT(u.mem, p)}
        /\ u.free \subseteq s.free
        /\ PDPR(u.mem, p) # NONE /\ PD(u.mem, p) # NONE /\ PT(u.mem, p) # NONE
        /\ \A k \in Spare :
             k \notin s.free /\ Unused(s.mem, lev, k) => Unused(u.mem, lev2, k)
  BY <1>2, <1>8, ThreeStages
<1>10. pt = PT(u.mem, p)
  <2>1. u.mem[p4_table][SELF] = p4_table
    BY <1>9 DEF Tree, BootSlots
  <2> QED  BY <2>1, PTWindow DEF PT, PD, PDPR
<1>11. At(u.mem, pt, p[4]) = MMU(u.mem, p)
  BY <1>10, WalkEnds
<1>12. MMU(u.mem, p) = MMU(s.mem, p)
  BY <1>9 DEF SamePages
<1>13. u.mem \in Memory /\ u.free \in SUBSET Spare
  BY <1>5 DEF States
<1>14. pt \in Frame /\ lev2[pt] = 1
  BY <1>4, <1>9, <1>10, <1>13, WalkDescends
<1> HIDE DEF pt
<1>15. CASE MMU(s.mem, p) # NONE
  <2>1. t = u /\ u = s
    BY <1>15, <1>6, <1>9, <1>11, <1>12
  <2>2. Mapped(s, t, p, entry, lev2)
    BY <2>1, <1>9, <1>15 DEF Mapped
  <2> QED  BY <2>2 DEF t
<1>16. CASE MMU(s.mem, p) = NONE
  <2>1. t.mem = [u.mem EXCEPT ![pt] = [@ EXCEPT ![p[4]] = entry]] /\ t.mem \in Memory
    BY <1>16, <1>6, <1>11, <1>12 DEF Put, States
  <2>2. Filled(u.mem, t.mem, pt, p[4], entry)
    BY <2>1, <1>4, <1>13, <1>14 DEF Filled, Memory
  <2>3. Tree(t.mem, t.free, lev2)
    <3>1. CASE entry = NONE
      <4>1. u.mem[pt][p[4]] = NONE
        BY <1>11, <1>12, <1>14, <1>16 DEF At
      <4>2. ASSUME NEW x \in Frame, NEW j \in Index
            PROVE  t.mem[x][j] = u.mem[x][j]
        BY <2>2, <3>1, <4>1 DEF Filled
      <4>3. t.mem = u.mem
        BY <4>2, <2>1, <1>13 DEF Memory
      <4> QED  BY <4>3, <1>6, <1>9
    <3>2. CASE entry # NONE
      <4>1. entry \in Spare /\ entry \notin u.free /\ Unused(u.mem, lev2, entry)
        BY <3>2, <1>9
      <4>2. Tree(t.mem, u.free, lev2)
        BY <4>1, <2>1, <2>2, <1>4, <1>9, <1>13, <1>14, FillKeepsTree
      <4> QED  BY <4>2, <1>6
    <3> QED  BY <3>1, <3>2
  <2>4. ASSUME NEW q \in VirtualPage, q[1] # SELF
        PROVE  /\ PDPR(t.mem, q) = PDPR(u.mem, q) /\ PD(t.mem, q) = PD(u.mem, q)
               /\ PT(t.mem, q) = PT(u.mem, q)
               /\ PT(u.mem, q) = pt /\ q[4] = p[4] => MMU(t.mem, q) = entry
               /\ ~ (PT(u.mem, q) = pt /\ q[4] = p[4]) => MMU(t.mem, q) = MMU(u.mem, q)
    BY <2>1, <2>2, <2>4, <1>4, <1>9, <1>13, <1>14, FillGivesPage
  <2>5. MMU(t.mem, p) = entry
    BY <2>4, <1>10
  <2>6. ASSUME NEW q \in VirtualPage, q[1] # SELF, Canon(q) # Canon(p)
        PROVE  MMU(t.mem, q) = MMU(s.mem, q)
    <3>1. ~ (PT(u.mem, q) = pt /\ q[4] = p[4])
      BY <2>6, <1>3, <1>9, <1>10, <1>13, <1>14, SameTableSameName
    <3>2. MMU(t.mem, q) = MMU(u.mem, q)
      BY <2>4, <2>6, <3>1
    <3> QED  BY <3>2, <2>6, <1>9 DEF SamePages
  <2>7. PDPR(t.mem, p) = PDPR(u.mem, p) /\ PD(t.mem, p) = PD(u.mem, p)
        /\ PT(t.mem, p) = PT(u.mem, p)
    BY <2>4
  <2>8. Mapped(s, t, p, entry, lev2)
    BY <2>3, <2>5, <2>6, <2>7, <1>6, <1>9, <1>16 DEF Mapped
  <2> QED  BY <2>8 DEF t
<1> QED  BY <1>15, <1>16

----------------------------------------------------------------------------
(***************************************************************************)
(* The tables of boot.asm are a tree.                                      *)
(***************************************************************************)
bootPTs == {pt_tables, pt_tables + 1, fbb_pt_tables}

LEMMA BootFrames ==
  /\ bootPTs \subseteq Frame
  /\ bootPTs \cap Spare = {} /\ bootPTs \cap {p4_table, p3_table, p2_table} = {}
  /\ pt_tables .. pt_tables + PD_LOOP_LIMIT - 1 = {pt_tables, pt_tables + 1}
  /\ pt_tables # fbb_pt_tables /\ pt_tables + 1 # fbb_pt_tables
  /\ pt_tables # pt_tables + 1
  /\ {i \in Index : i < PD_LOOP_LIMIT} = {0, 1}
  /\ FB_SLOT \in Index /\ FB_SLOT # 0 /\ FB_SLOT # 1 /\ 1 \in Index
  /\ pt_tables + 0 = pt_tables
<1>1. bootPTs \subseteq Frame
  BY PagingAssumption, SMT
     DEF bootPTs, p4_table, p3_table, p2_table, pt_tables, fbb_pt_tables, Frame,
         IdentityMapped, PD_LOOP_LIMIT
<1>2. bootPTs \cap Spare = {} /\ bootPTs \cap {p4_table, p3_table, p2_table} = {}
  BY PagingAssumption, SMT
     DEF bootPTs, p4_table, p3_table, p2_table, pt_tables, fbb_pt_tables, Frame,
         IdentityMapped, PD_LOOP_LIMIT
<1>3. pt_tables .. pt_tables + PD_LOOP_LIMIT - 1 = {pt_tables, pt_tables + 1}
  BY PagingAssumption, SMT DEF pt_tables, PD_LOOP_LIMIT
<1>4. {i \in Index : i < PD_LOOP_LIMIT} = {0, 1}
  BY PagingAssumption, SMT DEF Index, PD_LOOP_LIMIT
<1>5. /\ pt_tables # fbb_pt_tables /\ pt_tables + 1 # fbb_pt_tables
      /\ pt_tables # pt_tables + 1 /\ pt_tables + 0 = pt_tables
  BY PagingAssumption, SMT DEF pt_tables, fbb_pt_tables
<1>6. FB_SLOT \in Index /\ FB_SLOT # 0 /\ FB_SLOT # 1 /\ 1 \in Index
  BY PagingAssumption, SMT DEF Index, PD_LOOP_LIMIT, TOP
<1> QED  BY <1>1, <1>2, <1>3, <1>4, <1>5, <1>6

\* What boot.asm leaves in the slots.
LEMMA BootTables ==
  ASSUME NEW c \in Contents, NEW m, m = [f \in Frame |-> BootTable(f, c)]
  PROVE  /\ m \in Memory
         /\ \A i \in Index :
              m[p4_table][i] = IF i \in {0, TOP} THEN p3_table
                               ELSE IF i = SELF THEN p4_table ELSE NONE
         /\ \A i \in Index :
              m[p3_table][i] = IF i \in {0, TOP - 1} THEN p2_table ELSE NONE
         /\ \A i \in Index :
              m[p2_table][i] = IF i = 0 THEN pt_tables
                               ELSE IF i = 1 THEN pt_tables + 1
                               ELSE IF i = FB_SLOT THEN fbb_pt_tables ELSE NONE
         /\ \A t \in bootPTs, i \in Index : m[t][i] \notin Spare
<1>a. /\ m[p4_table] = BootTable(p4_table, c) /\ m[p3_table] = BootTable(p3_table, c)
      /\ m[p2_table] = BootTable(p2_table, c)
  BY Frames
<1>b. \A t \in {p4_table, p3_table, p2_table} :
        /\ t \notin pt_tables .. pt_tables + PD_LOOP_LIMIT - 1
        /\ t # fbb_pt_tables
  BY BootFrames DEF bootPTs
<1>1. m[p4_table] = [Empty EXCEPT ![0] = p3_table, ![TOP] = p3_table, ![SELF] = p4_table]
  BY <1>a, <1>b, Frames, Zenon DEF BootTable
<1>2. m[p3_table] = [Empty EXCEPT ![0] = p2_table, ![TOP - 1] = p2_table]
  BY <1>a, <1>b, Frames, Zenon DEF BootTable
<1>3. m[p2_table] = [i \in Index |->
                       IF i < PD_LOOP_LIMIT THEN pt_tables + i
                       ELSE IF i = FB_SLOT THEN fbb_pt_tables ELSE NONE]
  BY <1>a, <1>b, Frames, Zenon DEF BootTable
<1>4. ASSUME NEW t \in {pt_tables, pt_tables + 1}
      PROVE  m[t] = [i \in Index |-> (t - pt_tables) * W + i]
  BY <1>4, Frames, BootFrames DEF BootTable, bootPTs
<1>5. m[fbb_pt_tables] = [i \in Index |-> FbFrame + i]
  BY Frames, BootFrames DEF BootTable, bootPTs
<1>6. \A i \in Index :
        m[p4_table][i] = IF i \in {0, TOP} THEN p3_table
                         ELSE IF i = SELF THEN p4_table ELSE NONE
  BY <1>1, Slots DEF Empty
<1>7. \A i \in Index : m[p3_table][i] = IF i \in {0, TOP - 1} THEN p2_table ELSE NONE
  BY <1>2, Slots DEF Empty
<1>8. \A i \in Index :
        m[p2_table][i] = IF i = 0 THEN pt_tables
                         ELSE IF i = 1 THEN pt_tables + 1
                         ELSE IF i = FB_SLOT THEN fbb_pt_tables ELSE NONE
  <2> SUFFICES ASSUME NEW i \in Index
               PROVE  m[p2_table][i] = IF i = 0 THEN pt_tables
                                       ELSE IF i = 1 THEN pt_tables + 1
                                       ELSE IF i = FB_SLOT THEN fbb_pt_tables ELSE NONE
    OBVIOUS
  <2>1. i < PD_LOOP_LIMIT <=> i \in {0, 1}
    BY BootFrames
  <2> QED  BY <2>1, <1>3, BootFrames
<1>9. ASSUME NEW t \in {pt_tables, pt_tables + 1}, NEW i \in Index
      PROVE  m[t][i] \in IdentityMapped
  <2>1. t - pt_tables \in {0, 1}
    BY <1>9, PagingAssumption DEF pt_tables
  <2>2. m[t][i] = (t - pt_tables) * W + i
    BY <1>4, <1>9
  <2>3. 0 * W + i \in 0 .. 2 * W - 1 /\ 1 * W + i \in 0 .. 2 * W - 1
    BY PagingAssumption DEF Index
  <2> QED  BY <2>1, <2>2, <2>3 DEF IdentityMapped, PD_LOOP_LIMIT
<1>10. ASSUME NEW i \in Index
       PROVE  m[fbb_pt_tables][i] \in FbFrame .. FbFrame + W - 1
  BY <1>5, PagingAssumption DEF Index
<1>11. \A t \in bootPTs, i \in Index : m[t][i] \notin Spare
  <2>1. Spare \cap IdentityMapped = {}
        /\ Spare \cap (FbFrame .. FbFrame + W - 1) = {}
    BY PagingAssumption DEF Frame
  <2> QED  BY <2>1, <1>9, <1>10 DEF bootPTs
<1>12. ASSUME NEW t \in Frame
       PROVE  m[t] \in [Index -> Entry]
  <2>1. CASE t = p4_table
    BY <2>1, <1>1, Frames DEF Empty
  <2>2. CASE t = p3_table
    BY <2>2, <1>2, Frames DEF Empty
  <2>3. CASE t = p2_table
    <3>1. \A i \in Index : m[p2_table][i] \in Entry
      BY <1>8, Frames, BootFrames DEF bootPTs
    <3> QED  BY <3>1, <2>3, <1>3
  <2>4. CASE t \in {pt_tables, pt_tables + 1}
    <3>1. \A i \in Index : m[t][i] \in Entry
      BY <2>4, <1>9 DEF Entry, Frame
    <3>2. m[t] = [i \in Index |-> (t - pt_tables) * W + i]
      BY <2>4, <1>4
    <3> QED  BY <3>1, <3>2
  <2>5. CASE t = fbb_pt_tables
    <3>1. \A i \in Index : m[t][i] \in Entry
      BY <2>5, <1>10 DEF Entry
    <3> QED  BY <3>1, <2>5, <1>5
  <2>6. CASE t \notin {p4_table, p3_table, p2_table} \cup bootPTs
    <3>1. BootTable(t, c) = c
      BY <2>6, BootFrames DEF BootTable, bootPTs
    <3>2. c \in [Index -> Entry]
      BY PagingAssumption
    <3> QED  BY <3>1, <3>2
  <2> QED  BY <2>1, <2>2, <2>3, <2>4, <2>5, <2>6 DEF bootPTs
<1>13. m \in Memory
  BY <1>12 DEF Memory
<1> QED  BY <1>6, <1>7, <1>8, <1>11, <1>13

BootLevel(t) ==
  IF t = p4_table THEN 4 ELSE IF t = p3_table THEN 3 ELSE IF t = p2_table THEN 2
  ELSE IF t \in bootPTs THEN 1 ELSE 0

LEMMA BootTree ==
  ASSUME NEW c \in Contents, NEW m, m = [f \in Frame |-> BootTable(f, c)]
  PROVE  Tree(m, Spare, [t \in Frame |-> BootLevel(t)])
<1> DEFINE lev == [t \in Frame |-> BootLevel(t)]
<1>1. /\ \A i \in Index :
           m[p4_table][i] = IF i \in {0, TOP} THEN p3_table
                            ELSE IF i = SELF THEN p4_table ELSE NONE
      /\ \A i \in Index :
           m[p3_table][i] = IF i \in {0, TOP - 1} THEN p2_table ELSE NONE
      /\ \A i \in Index :
           m[p2_table][i] = IF i = 0 THEN pt_tables
                            ELSE IF i = 1 THEN pt_tables + 1
                            ELSE IF i = FB_SLOT THEN fbb_pt_tables ELSE NONE
      /\ \A t \in bootPTs, i \in Index : m[t][i] \notin Spare
  BY BootTables
<1>2. \A t \in Frame :
        /\ lev[t] \in 0 .. 4
        /\ lev[t] = 4 <=> t = p4_table
        /\ lev[t] = 3 <=> t = p3_table
        /\ lev[t] = 2 <=> t = p2_table
        /\ lev[t] = 1 <=> t \in bootPTs
  BY Frames, BootFrames DEF BootLevel
<1>3. lev \in Levels
  BY <1>2 DEF Levels
<1> HIDE DEF lev
<1>4. TopIsLevelFour(lev)
  BY <1>2 DEF TopIsLevelFour
<1>5. BootSlots(m)
  BY <1>1, Slots DEF BootSlots
<1>6. TablesAreTaken(Spare, lev)
  BY <1>2, Frames, BootFrames DEF TablesAreTaken
<1>7. ASSUME NEW t \in Frame, lev[t] > 1
      PROVE  t \in {p4_table, p3_table, p2_table}
  BY <1>2, <1>7
<1>8. ASSUME NEW t \in Frame, NEW i \in Index, lev[t] > 1, Inner(t, i), m[t][i] # NONE
      PROVE  \/ t = p4_table /\ i \in {0, TOP} /\ m[t][i] = p3_table
             \/ t = p3_table /\ i \in {0, TOP - 1} /\ m[t][i] = p2_table
             \/ t = p2_table /\ i = 0 /\ m[t][i] = pt_tables
             \/ t = p2_table /\ i = 1 /\ m[t][i] = pt_tables + 1
             \/ t = p2_table /\ i = FB_SLOT /\ m[t][i] = fbb_pt_tables
  <2>1. CASE t = p4_table
    BY <2>1, <1>1, <1>8 DEF Inner
  <2>2. CASE t = p3_table
    BY <2>2, <1>1, <1>8
  <2>3. CASE t = p2_table
    BY <2>3, <1>1, <1>8
  <2> QED  BY <2>1, <2>2, <2>3, <1>7, <1>8
<1>9. LevelsDescend(m, lev)
  <2> SUFFICES ASSUME NEW t \in Frame, NEW i \in Index, lev[t] > 1, Inner(t, i), m[t][i] # NONE
               PROVE  m[t][i] \in Frame /\ lev[m[t][i]] = lev[t] - 1
    BY DEF LevelsDescend
  <2>1. /\ lev[p4_table] = 4 /\ lev[p3_table] = 3 /\ lev[p2_table] = 2
        /\ lev[pt_tables] = 1 /\ lev[pt_tables + 1] = 1 /\ lev[fbb_pt_tables] = 1
    BY <1>2, Frames, BootFrames DEF bootPTs
  <2> QED  BY <2>1, <1>8, Frames, BootFrames DEF bootPTs
<1>10. PagesAreTaken(m, Spare, lev)
  BY <1>1, <1>2 DEF PagesAreTaken
<1>11. OneLeaf(m, lev)
  BY <1>1, <1>2 DEF OneLeaf
<1>12. OneParent(m, lev)
  <2> SUFFICES ASSUME NEW t \in Frame, NEW u \in Frame, NEW i \in Index, NEW j \in Index,
                      lev[t] > 1, lev[u] > 1, Inner(t, i), Inner(u, j),
                      m[t][i] # NONE, m[t][i] = m[u][j]
               PROVE  t = u /\ (i = j \/ Alias(t, i, j))
    BY DEF OneParent
  <2>1. /\ pt_tables \notin {p3_table, p2_table} /\ pt_tables + 1 \notin {p3_table, p2_table}
        /\ fbb_pt_tables \notin {p3_table, p2_table}
        /\ p4_table # p3_table /\ p4_table # p2_table /\ p3_table # p2_table
        /\ pt_tables # fbb_pt_tables /\ pt_tables + 1 # fbb_pt_tables
        /\ pt_tables # pt_tables + 1
    BY Frames, BootFrames DEF bootPTs
  <2>2. \/ t = p4_table /\ i \in {0, TOP} /\ m[t][i] = p3_table
        \/ t = p3_table /\ i \in {0, TOP - 1} /\ m[t][i] = p2_table
        \/ t = p2_table /\ i = 0 /\ m[t][i] = pt_tables
        \/ t = p2_table /\ i = 1 /\ m[t][i] = pt_tables + 1
        \/ t = p2_table /\ i = FB_SLOT /\ m[t][i] = fbb_pt_tables
    BY <1>8
  <2>3. \/ u = p4_table /\ j \in {0, TOP} /\ m[u][j] = p3_table
        \/ u = p3_table /\ j \in {0, TOP - 1} /\ m[u][j] = p2_table
        \/ u = p2_table /\ j = 0 /\ m[u][j] = pt_tables
        \/ u = p2_table /\ j = 1 /\ m[u][j] = pt_tables + 1
        \/ u = p2_table /\ j = FB_SLOT /\ m[u][j] = fbb_pt_tables
    BY <1>8
  <2> QED  BY <2>1, <2>2, <2>3 DEF Alias
<1> QED  BY <1>3, <1>4, <1>5, <1>6, <1>9, <1>10, <1>11, <1>12 DEF Tree, lev

----------------------------------------------------------------------------
(***************************************************************************)
(* Paging: what is mapped.                                                 *)
(***************************************************************************)
LEMMA CanonOfCanon ==
  ASSUME NEW q \in VirtualPage, <<q[1], q[2], q[3]>> \in Walks
  PROVE  Canon(q) = q /\ q[1] # SELF
<1>1. /\ q[1] \in Index \ {SELF, TOP} /\ q[2] \in Index /\ q[3] \in Index
      /\ q[1] = 0 => q[2] # TOP - 1
  BY DEF Walks
<1>2. q = <<q[1], q[2], q[3], q[4]>>
  BY DEF VirtualPage
<1> QED  BY <1>1, <1>2 DEF Canon

\* A walk is the beginning of a page.
LEMMA WalkOfPage ==
  ASSUME NEW m, NEW q, NEW w, w = <<q[1], q[2], q[3]>>
  PROVE  PDPR(m, w) = PDPR(m, q) /\ PD(m, w) = PD(m, q) /\ PT(m, w) = PT(m, q)
<1>1. w[1] = q[1] /\ w[2] = q[2] /\ w[3] = q[3]
  OBVIOUS
<1> QED  BY <1>1 DEF PDPR, PD, PT

LEMMA InMapping ==
  ASSUME NEW m \in Memory, NEW f, NEW lev, Tree(m, f, lev),
         NEW q \in VirtualPage, <<q[1], q[2], q[3]>> \in Walks, MMU(m, q) # NONE
  PROVE  <<q, MMU(m, q)>> \in Mapping(m)
<1> DEFINE w == <<q[1], q[2], q[3]>>
<1>1. PT(m, w) = PT(m, q)
  BY WalkOfPage
<1>2. q[4] \in Index /\ q = <<q[1], q[2], q[3], q[4]>>
  BY DEF VirtualPage
<1>3. PT(m, q) # NONE /\ PT(m, q) \in Frame
  BY <1>2, Frames, WalkEnds DEF At
<1>4. MMU(m, q) = m[PT(m, w)][q[4]]
  BY <1>1, <1>3, WalkEnds DEF At
<1>5. q = <<w[1], w[2], w[3], q[4]>>
  BY <1>2
<1> HIDE DEF w
<1>6. w \in Walks
  BY DEF w
<1> QED  BY <1>1, <1>2, <1>3, <1>4, <1>5, <1>6 DEF Mapping

LEMMA FromMapping ==
  ASSUME NEW m \in Memory, NEW f, NEW lev, Tree(m, f, lev), NEW e \in Mapping(m)
  PROVE  \E q \in VirtualPage :
           /\ <<q[1], q[2], q[3]>> \in Walks /\ q[1] # SELF /\ Canon(q) = q
           /\ MMU(m, q) # NONE /\ e = <<q, MMU(m, q)>>
           /\ e[1] = q /\ e[2] = MMU(m, q)
<1>1. PICK w \in Walks, i \in Index :
        /\ PT(m, w) # NONE /\ m[PT(m, w)][i] # NONE
        /\ e = << <<w[1], w[2], w[3], i>>, m[PT(m, w)][i] >>
  BY DEF Mapping
<1>2. w[1] \in Index /\ w[1] # SELF /\ w[2] \in Index /\ w[3] \in Index
      /\ w = <<w[1], w[2], w[3]>>
  BY DEF Walks
<1> DEFINE q == <<w[1], w[2], w[3], i>>
<1>3. q \in VirtualPage /\ q[1] = w[1] /\ q[2] = w[2] /\ q[3] = w[3] /\ q[4] = i
  BY <1>2 DEF VirtualPage
<1> HIDE DEF q
<1>4. w = <<q[1], q[2], q[3]>>
  BY <1>2, <1>3
<1>5. PT(m, q) = PT(m, w)
  BY <1>4, WalkOfPage
<1>6. PT(m, q) \in Frame
  BY <1>1, <1>2, <1>3, <1>5, WalkDescends
<1>7. MMU(m, q) = m[PT(m, w)][i]
  BY <1>3, <1>5, <1>6, WalkEnds DEF At
<1>8. <<q[1], q[2], q[3]>> \in Walks
  BY <1>4
<1>9. Canon(q) = q
  BY <1>3, <1>8, CanonOfCanon
<1>10. e = <<q, MMU(m, q)>>
  BY <1>1, <1>7 DEF q
<1>11. /\ <<q[1], q[2], q[3]>> \in Walks /\ q[1] # SELF /\ Canon(q) = q
       /\ MMU(m, q) # NONE /\ e = <<q, MMU(m, q)>>
       /\ e[1] = q /\ e[2] = MMU(m, q)
  BY <1>1, <1>2, <1>3, <1>7, <1>8, <1>9, <1>10
<1> QED  BY <1>3, <1>11

LEMMA PageIsInPages ==
  ASSUME NEW m \in Memory, NEW f, NEW lev, Tree(m, f, lev),
         NEW p \in VirtualPage, p[1] # SELF, MMU(m, p) # NONE
  PROVE  MMU(m, p) \in InPages(m)
<1>1. /\ Canon(p) \in VirtualPage /\ MMU(m, Canon(p)) = MMU(m, p)
      /\ <<Canon(p)[1], Canon(p)[2], Canon(p)[3]>> \in Walks
  BY CanonIsPage, CanonIsSame
<1>2. <<Canon(p), MMU(m, p)>> \in Mapping(m)
  BY <1>1, InMapping
<1>3. <<Canon(p), MMU(m, p)>>[2] = MMU(m, p)
  OBVIOUS
<1> QED  BY <1>2, <1>3 DEF InPages

LEMMA TablesAreTables ==
  ASSUME NEW m \in Memory, NEW f, NEW lev, Tree(m, f, lev),
         NEW p \in VirtualPage, p[1] # SELF
  PROVE  {PDPR(m, p), PD(m, p), PT(m, p)} \ {NONE} \subseteq Tables(m)
<1> DEFINE c == Canon(p)
           w == <<c[1], c[2], c[3]>>
<1>1. w \in Walks
  BY CanonIsPage
<1>2. PDPR(m, w) = PDPR(m, c) /\ PD(m, w) = PD(m, c) /\ PT(m, w) = PT(m, c)
  BY WalkOfPage
<1>3. PDPR(m, c) = PDPR(m, p) /\ PD(m, c) = PD(m, p) /\ PT(m, c) = PT(m, p)
  BY CanonIsSame
<1> HIDE DEF c, w
<1>4. /\ PDPR(m, p) \in {PDPR(m, v) : v \in Walks}
      /\ PD(m, p) \in {PD(m, v) : v \in Walks}
      /\ PT(m, p) \in {PT(m, v) : v \in Walks}
  BY <1>1, <1>2, <1>3
<1> QED  BY <1>4 DEF Tables

\* A table is no page.
LEMMA TreeIsPrivate ==
  ASSUME NEW m \in Memory, NEW f, NEW lev, Tree(m, f, lev)
  PROVE  Tables(m) \cap Spare \cap InPages(m) = {}
<1> SUFFICES ASSUME NEW n \in Tables(m), n \in Spare, n \in InPages(m)
             PROVE  FALSE
  OBVIOUS
<1>1. lev[n] # 0
  <2>1. PICK w \in Walks : n \in {PDPR(m, w), PD(m, w), PT(m, w)} /\ n # NONE
    BY DEF Tables
  <2>2. w[1] \in Index \ {SELF} /\ w[2] \in Index /\ w[3] \in Index
    BY DEF Walks
  <2> QED  BY <2>1, <2>2, WalkDescends
<1>2. PICK e \in Mapping(m) : n = e[2]
  BY DEF InPages
<1>3. PICK q \in VirtualPage : q[1] # SELF /\ n = MMU(m, q)
  BY <1>2, FromMapping
<1>4. q[1] \in Index \ {SELF} /\ q[2] \in Index /\ q[3] \in Index /\ q[4] \in Index
  BY <1>3, Parts
<1>5. PT(m, q) \in Frame /\ lev[PT(m, q)] = 1
  BY <1>3, <1>4, Frames, WalkEnds, WalkDescends DEF At
<1>6. n = m[PT(m, q)][q[4]]
  BY <1>3, <1>5, WalkEnds DEF At
<1>7. lev[n] = 0
  BY <1>4, <1>5, <1>6 DEF Tree, PagesAreTaken
<1> QED  BY <1>1, <1>7

\* What a call of map_page does to the pages that are mapped.
LEMMA MappingGrows ==
  ASSUME NEW s \in States, NEW lev, Tree(s.mem, s.free, lev),
         NEW p \in VirtualPage, p[1] # SELF, NEW entry,
         NEW t \in States, NEW lev2, Mapped(s, t, p, entry, lev2)
  PROVE  IF MMU(s.mem, p) = NONE /\ entry # NONE
         THEN /\ Mapping(t.mem) = Mapping(s.mem) \cup {<<Canon(p), entry>>}
              /\ \A d \in Mapping(s.mem) : d[1] # Canon(p)
         ELSE Mapping(t.mem) = Mapping(s.mem)
<1>1. s.mem \in Memory /\ t.mem \in Memory /\ Tree(t.mem, t.free, lev2)
  BY DEF States, Mapped
<1>2. CASE MMU(s.mem, p) # NONE
  BY <1>2 DEF Mapped
<1>3. CASE MMU(s.mem, p) = NONE
  <2> DEFINE c == Canon(p)
  <2>1. /\ c \in VirtualPage /\ c[1] # SELF /\ <<c[1], c[2], c[3]>> \in Walks
    BY CanonIsPage
  <2>2. MMU(s.mem, c) = NONE /\ MMU(t.mem, c) = entry
    BY <1>1, <1>3, CanonIsSame DEF Mapped
  <2>3. Canon(c) = c
    BY <2>1, CanonOfCanon
  <2> HIDE DEF c
  <2>4. ASSUME NEW q \in VirtualPage, q[1] # SELF, Canon(q) = q, q # c
        PROVE  MMU(t.mem, q) = MMU(s.mem, q)
    BY <2>4 DEF Mapped, c
  <2>5. ASSUME NEW d \in Mapping(s.mem)
        PROVE  d \in Mapping(t.mem) /\ d[1] # c
    <3>1. PICK q \in VirtualPage :
            /\ <<q[1], q[2], q[3]>> \in Walks /\ q[1] # SELF /\ Canon(q) = q
            /\ MMU(s.mem, q) # NONE /\ d = <<q, MMU(s.mem, q)>> /\ d[1] = q
      BY <1>1, FromMapping
    <3>2. q # c
      BY <3>1, <2>2
    <3>3. MMU(t.mem, q) = MMU(s.mem, q)
      BY <3>1, <3>2, <2>4
    <3>4. <<q, MMU(t.mem, q)>> \in Mapping(t.mem)
      BY <3>1, <3>3, <1>1, InMapping
    <3> QED  BY <3>1, <3>2, <3>3, <3>4
  <2>6. ASSUME NEW d \in Mapping(t.mem)
        PROVE  d \in Mapping(s.mem) \/ (entry # NONE /\ d = <<c, entry>>)
    <3>1. PICK q \in VirtualPage :
            /\ <<q[1], q[2], q[3]>> \in Walks /\ q[1] # SELF /\ Canon(q) = q
            /\ MMU(t.mem, q) # NONE /\ d = <<q, MMU(t.mem, q)>>
      BY <1>1, FromMapping
    <3>2. CASE q = c
      BY <3>1, <3>2, <2>2
    <3>3. CASE q # c
      <4>1. MMU(t.mem, q) = MMU(s.mem, q)
        BY <3>1, <3>3, <2>4
      <4>2. <<q, MMU(s.mem, q)>> \in Mapping(s.mem)
        BY <3>1, <4>1, <1>1, InMapping
      <4> QED  BY <3>1, <4>1, <4>2
    <3> QED  BY <3>2, <3>3
  <2>7. entry # NONE => <<c, entry>> \in Mapping(t.mem)
    BY <2>1, <2>2, <1>1, InMapping
  <2>8. CASE entry # NONE
    <3>1. Mapping(t.mem) = Mapping(s.mem) \cup {<<c, entry>>}
      BY <2>5, <2>6, <2>7, <2>8
    <3> QED  BY <3>1, <2>5, <2>8, <1>3 DEF c
  <2>9. CASE entry = NONE
    <3>1. Mapping(t.mem) = Mapping(s.mem)
      BY <2>5, <2>6, <2>9
    <3> QED  BY <3>1, <2>9
  <2> QED  BY <2>8, <2>9
<1> QED  BY <1>2, <1>3

----------------------------------------------------------------------------
(***************************************************************************)
(* Paging: the invariant, and the abstract address space.                  *)
(***************************************************************************)
HasTree(m, f) == \E lev : Tree(m, f, lev)

IInv == TypeOK /\ (~ out => HasTree(mem, free))

LEMMA NowIs ==
  ASSUME TypeOK
  PROVE  Now \in States /\ Now.mem = mem /\ Now.free = free /\ Now.out = out
BY DEF TypeOK, Now, States, Memory

LEMMA PagesAreOutside ==
  \A p \in Pages : p \in VirtualPage /\ p[1] # SELF
BY PagingAssumption

\* The frame is taken first, and is not there to be a table.
LEMMA FreshPage ==
  ASSUME NEW s \in States, NEW lev, Tree(s.mem, s.free, lev),
         NEW p \in VirtualPage, p[1] # SELF,
         ~ map_page(Allocated(s), p, Lowest(s.free)).out
  PROVE  /\ Lowest(s.free) \in s.free /\ Lowest(s.free) \in Spare
         /\ Lowest(s.free) # NONE
         /\ \E lev2 : Mapped(Allocated(s), map_page(Allocated(s), p, Lowest(s.free)),
                             p, Lowest(s.free), lev2)
<1> DEFINE a == Allocated(s)
           n == Lowest(s.free)
<1>1. s.mem \in Memory /\ s.free \in SUBSET Spare
  BY DEF States
<1>2. a \in States /\ a.mem = s.mem /\ a.free = s.free \ {n}
      /\ a.out = (s.out \/ s.free = {})
  BY AllocatedIs
<1>3. n \in Entry
  BY <1>1, LowestIsFree
<1> HIDE DEF a
<1>4. ~ map_page(a, p, n).out
  BY DEF a
<1>5. ~ a.out
  BY <1>2, <1>3, <1>4, MapPageType
<1>6. n \in s.free /\ n \in Spare /\ n # NONE
  BY <1>1, <1>2, <1>5, LowestIsFree, Frames
<1>7. Unused(s.mem, lev, n)
  BY <1>1, <1>6, FreeIsUnused
<1>8. Tree(a.mem, a.free, lev) /\ Unused(a.mem, lev, n)
  BY <1>1, <1>2, <1>7, TakeKeepsTree
<1> HIDE DEF n
<1>9. n \in Spare \cup {NONE} /\ n \notin a.free
  BY <1>2, <1>6
<1>10. \E lev2 : Mapped(a, map_page(a, p, n), p, n, lev2)
  BY <1>2, <1>4, <1>8, <1>9, MapPage
<1> QED  BY <1>6, <1>10 DEF a, n

LEMMA FreshType ==
  ASSUME NEW s \in States, NEW p \in VirtualPage
  PROVE  /\ map_page(Allocated(s), p, Lowest(s.free)) \in States
         /\ map_page(Allocated(s), p, Lowest(s.free)).free \subseteq s.free
         /\ ~ map_page(Allocated(s), p, Lowest(s.free)).out => ~ s.out
<1> DEFINE a == Allocated(s)
<1>1. s.free \in SUBSET Spare
  BY DEF States
<1>2. a \in States /\ a.free = s.free \ {Lowest(s.free)}
      /\ a.out = (s.out \/ s.free = {})
  BY AllocatedIs
<1>3. Lowest(s.free) \in Entry
  BY <1>1, LowestIsFree
<1> HIDE DEF a
<1>4. /\ map_page(a, p, Lowest(s.free)) \in States
      /\ map_page(a, p, Lowest(s.free)).free \subseteq a.free
      /\ ~ map_page(a, p, Lowest(s.free)).out => ~ a.out
  BY <1>2, <1>3, MapPageType
<1>5. ~ a.out => ~ s.out
  BY <1>2
<1> QED  BY <1>2, <1>4, <1>5 DEF a

\* The test of map_if_not_mapped is about the page and nothing else.
LEMMA IsMapped ==
  ASSUME TypeOK, HasTree(mem, free), NEW p \in VirtualPage, p[1] # SELF
  PROVE  is_virtual_memory_mapped(p) <=> MMU(mem, p) # NONE
<1>1. PICK lev : Tree(mem, free, lev)
  BY DEF HasTree
<1>2. mem[p4_table][SELF] = p4_table
  BY <1>1 DEF Tree, BootSlots
<1> DEFINE R == SELF
<1>3. /\ MMU(mem, <<R, R, R, R>>) = p4_table
      /\ MMU(mem, <<R, R, R, p[1]>>) = PDPR(mem, p)
  BY <1>2, TopWindow, PDPRWindow DEF PDPR
<1>4. MMU(mem, <<R, R, p[1], p[2]>>) = PD(mem, p)
  BY <1>2, PDWindow DEF PD, PDPR
<1>5. MMU(mem, <<R, p[1], p[2], p[3]>>) = PT(mem, p)
  BY <1>2, PTWindow DEF PT, PD, PDPR
<1>6. is_virtual_memory_mapped(p) <=>
        PDPR(mem, p) # NONE /\ PD(mem, p) # NONE /\ PT(mem, p) # NONE
          /\ MMU(mem, p) # NONE
  BY <1>3, <1>4, <1>5, WalkEnds DEF is_virtual_memory_mapped, PDPR, PD, PT
<1>7. MMU(mem, p) # NONE => PT(mem, p) # NONE
  BY WalkEnds, Frames DEF At
<1>8. PT(mem, p) # NONE => PD(mem, p) # NONE
  BY Frames DEF PT, At
<1>9. PD(mem, p) # NONE => PDPR(mem, p) # NONE
  BY Frames DEF PD, At
<1> QED  BY <1>6, <1>7, <1>8, <1>9

----------------------------------------------------------------------------
\* A step of the abstract address space, or one after which it promises nothing.
SpaceMoves(m, f, m2, f2) ==
  /\ \/ Mapping(m2) = Mapping(m)
     \/ \E e \in Mapping(m2) \ Mapping(m) :
          /\ Mapping(m2) = Mapping(m) \cup {e}
          /\ \A d \in Mapping(m) : d[1] # e[1]
          /\ e[2] \in f \ f2
  /\ f2 \subseteq f

FramesGoSomewhere(m2, f, f2) == f \ f2 \subseteq Tables(m2) \cup InPages(m2)

LEMMA SameMapping ==
  ASSUME NEW m \in Memory, NEW f, NEW lev, Tree(m, f, lev),
         NEW m2 \in Memory, NEW f2, NEW lev2, Tree(m2, f2, lev2),
         SamePages(m, m2)
  PROVE  Mapping(m2) = Mapping(m)
<1>1. ASSUME NEW d \in Mapping(m)
      PROVE  d \in Mapping(m2)
  <2>1. PICK q \in VirtualPage :
          /\ <<q[1], q[2], q[3]>> \in Walks /\ q[1] # SELF
          /\ MMU(m, q) # NONE /\ d = <<q, MMU(m, q)>>
    BY FromMapping
  <2>2. MMU(m2, q) = MMU(m, q)
    BY <2>1 DEF SamePages
  <2>3. <<q, MMU(m2, q)>> \in Mapping(m2)
    BY <2>1, <2>2, InMapping
  <2> QED  BY <2>1, <2>2, <2>3
<1>2. ASSUME NEW d \in Mapping(m2)
      PROVE  d \in Mapping(m)
  <2>1. PICK q \in VirtualPage :
          /\ <<q[1], q[2], q[3]>> \in Walks /\ q[1] # SELF
          /\ MMU(m2, q) # NONE /\ d = <<q, MMU(m2, q)>>
    BY FromMapping
  <2>2. MMU(m2, q) = MMU(m, q)
    BY <2>1 DEF SamePages
  <2>3. <<q, MMU(m, q)>> \in Mapping(m)
    BY <2>1, <2>2, InMapping
  <2> QED  BY <2>1, <2>2, <2>3
<1> QED  BY <1>1, <1>2

LEMMA FreshStep ==
  ASSUME IInv, ~ out, NEW p \in Pages,
         Becomes(map_page(Allocated(Now), p, Lowest(free))), owned' = owned \cup {p}
  PROVE  /\ IInv'
         /\ out' \/ SpaceMoves(mem, free, mem', free')
         /\ out' \/ MMU(mem, p) # NONE \/ FramesGoSomewhere(mem', free, free')
<1> DEFINE n == Lowest(free)
           a == Allocated(Now)
           t == map_page(a, p, n)
<1>1. Now \in States /\ Now.mem = mem /\ Now.free = free /\ Now.out = out
  BY NowIs DEF IInv
<1>2. p \in VirtualPage /\ p[1] # SELF
  BY PagesAreOutside
<1>3. a \in States /\ a.mem = mem /\ a.free = free \ {n}
  BY <1>1, AllocatedIs
<1>4. t \in States /\ t.free \subseteq free
  BY <1>1, <1>2, FreshType
<1>5. mem' = t.mem /\ free' = t.free /\ out' = t.out
  BY DEF Becomes
<1>6. TypeOK'
  BY <1>4, <1>5 DEF IInv, TypeOK, States, Memory
<1>7. CASE out'
  BY <1>6, <1>7 DEF IInv
<1>8. CASE ~ out'
  <2>1. PICK lev : Tree(mem, free, lev)
    BY DEF IInv, HasTree
  <2>2. ~ map_page(Allocated(Now), p, Lowest(Now.free)).out
    BY <1>1, <1>5, <1>8
  <2>3. n \in free /\ n \in Spare /\ n # NONE
    BY <1>1, <1>2, <2>1, <2>2, FreshPage
  <2>4. PICK lev2 : Mapped(a, t, p, n, lev2)
    BY <1>1, <1>2, <2>1, <2>2, FreshPage
  <2> HIDE DEF a, t, n
  <2>5. Tree(mem', free', lev2)
    BY <2>4, <1>5 DEF Mapped
  <2>6. Tree(a.mem, a.free, lev)
    BY <1>1, <1>3, <2>1, TakeKeepsTree DEF States
  <2>7. IF MMU(mem, p) = NONE
        THEN /\ Mapping(mem') = Mapping(mem) \cup {<<Canon(p), n>>}
             /\ \A d \in Mapping(mem) : d[1] # Canon(p)
        ELSE Mapping(mem') = Mapping(mem)
    <3>1. a \in States /\ t \in States
      BY <1>3, <1>4 DEF t
    <3>2. IF MMU(a.mem, p) = NONE /\ n # NONE
          THEN /\ Mapping(t.mem) = Mapping(a.mem) \cup {<<Canon(p), n>>}
               /\ \A d \in Mapping(a.mem) : d[1] # Canon(p)
          ELSE Mapping(t.mem) = Mapping(a.mem)
      BY <1>2, <2>4, <2>6, <3>1, MappingGrows
    <3> QED  BY <3>2, <1>3, <1>5, <2>3
  <2>8. free' \subseteq a.free
    <3>1. n \in Entry
      BY <2>3, Frames
    <3> QED  BY <1>2, <1>3, <1>5, <3>1, MapPageType DEF t
  <2>9. free' \subseteq free /\ n \notin free'
    BY <2>8, <1>3
  <2>10. SpaceMoves(mem, free, mem', free')
    <3>1. CASE MMU(mem, p) = NONE
      <4> DEFINE e == <<Canon(p), n>>
      <4>1. e[1] = Canon(p) /\ e[2] = n
        OBVIOUS
      <4> HIDE DEF e
      <4>2. Mapping(mem') = Mapping(mem) \cup {e} /\ \A d \in Mapping(mem) : d[1] # e[1]
        BY <3>1, <2>7, <4>1 DEF e
      <4>3. e \in Mapping(mem') \ Mapping(mem)
        BY <4>2
      <4> QED  BY <4>1, <4>2, <4>3, <2>3, <2>9 DEF SpaceMoves
    <3>2. CASE MMU(mem, p) # NONE
      BY <3>2, <2>7, <2>9 DEF SpaceMoves
    <3> QED  BY <3>1, <3>2
  <2>11. MMU(mem, p) # NONE \/ FramesGoSomewhere(mem', free, free')
    <3> SUFFICES ASSUME MMU(mem, p) = NONE
                 PROVE  FramesGoSomewhere(mem', free, free')
      OBVIOUS
    <3>1. MMU(mem', p) = n
      BY <1>3, <1>5, <2>4 DEF Mapped
    <3>2. mem' \in Memory
      BY <1>4, <1>5 DEF States
    <3>3. n \in InPages(mem')
      BY <1>2, <2>3, <2>5, <3>1, <3>2, PageIsInPages
    <3>4. {PDPR(mem', p), PD(mem', p), PT(mem', p)} \subseteq Tables(mem')
      BY <1>2, <1>5, <2>4, <2>5, <3>2, TablesAreTables DEF Mapped
    <3>5. a.free \ free' \subseteq {PDPR(mem', p), PD(mem', p), PT(mem', p)}
      BY <1>5, <2>4 DEF Mapped
    <3>6. free \ free' \subseteq (a.free \ free') \cup {n}
      BY <1>3
    <3> QED  BY <3>3, <3>4, <3>5, <3>6 DEF FramesGoSomewhere
  <2> QED  BY <1>6, <2>5, <2>10, <2>11 DEF IInv, HasTree
<1> QED  BY <1>7, <1>8

LEMMA UnmapStep ==
  ASSUME IInv, ~ out, NEW p \in Pages, unmap(p)
  PROVE  /\ IInv'
         /\ out' \/ SpaceMoves(mem, free, mem', free')
         /\ out' \/ FramesGoSomewhere(mem', free, free')
<1> DEFINE t == map_page(Now, p, NONE)
<1>1. Now \in States /\ Now.mem = mem /\ Now.free = free /\ Now.out = out
  BY NowIs DEF IInv
<1>2. p \in VirtualPage /\ p[1] # SELF /\ NONE \in Entry
  BY PagesAreOutside, Frames
<1>3. t \in States /\ t.free \subseteq free
  BY <1>1, <1>2, MapPageType
<1>4. mem' = t.mem /\ free' = t.free /\ out' = t.out /\ owned' = owned
  BY DEF Becomes, unmap
<1>5. TypeOK'
  BY <1>3, <1>4 DEF IInv, TypeOK, States, Memory
<1>6. CASE out'
  BY <1>5, <1>6 DEF IInv
<1>7. CASE ~ out'
  <2>1. PICK lev : Tree(mem, free, lev)
    BY DEF IInv, HasTree
  <2>2. ~ map_page(Now, p, NONE).out
    BY <1>4, <1>7
  <2>3. NONE \in Spare \cup {NONE}
    OBVIOUS
  <2>4. PICK lev2 : Mapped(Now, t, p, NONE, lev2)
    BY <1>1, <1>2, <2>1, <2>2, <2>3, MapPage
  <2> HIDE DEF t
  <2>5. Tree(mem', free', lev2)
    BY <2>4, <1>4 DEF Mapped
  <2>6. Mapping(mem') = Mapping(mem)
    BY <1>1, <1>2, <1>3, <1>4, <2>1, <2>4, MappingGrows
  <2>7. SpaceMoves(mem, free, mem', free')
    BY <2>6, <1>3, <1>4 DEF SpaceMoves
  <2>8. mem' \in Memory
    BY <1>3, <1>4 DEF States
  <2>9. {PDPR(mem', p), PD(mem', p), PT(mem', p)} \subseteq Tables(mem')
    BY <1>2, <1>4, <2>4, <2>5, <2>8, TablesAreTables DEF Mapped
  <2>10. FramesGoSomewhere(mem', free, free')
    BY <2>9, <2>4, <1>1, <1>4 DEF Mapped, FramesGoSomewhere
  <2> QED  BY <1>5, <2>5, <2>7, <2>10 DEF IInv, HasTree
<1> QED  BY <1>6, <1>7

LEMMA StoreStep ==
  ASSUME IInv, ~ out, NEW p \in Pages, store(p)
  PROVE  /\ IInv' /\ free' = free
         /\ SpaceMoves(mem, free, mem', free')
<1> DEFINE n == MMU(mem, p)
<1>1. PICK lev : Tree(mem, free, lev)
  BY DEF IInv, HasTree
<1>2. p \in VirtualPage /\ p[1] # SELF
  BY PagesAreOutside
<1>3. p[1] \in Index \ {SELF} /\ p[2] \in Index /\ p[3] \in Index /\ p[4] \in Index
  BY <1>2, Parts
<1>4. n \in Spare /\ n \in Frame /\ mem \in Memory
  BY Frames DEF store, IInv, TypeOK, Memory
<1>5. PT(mem, p) \in Frame /\ lev[PT(mem, p)] = 1 /\ n = mem[PT(mem, p)][p[4]]
  BY <1>1, <1>3, <1>4, Frames, WalkEnds, WalkDescends DEF At
<1>6. lev[n] = 0
  BY <1>1, <1>3, <1>4, <1>5 DEF Tree, PagesAreTaken
<1> HIDE DEF n
<1>7. PICK c \in Contents : mem' = [mem EXCEPT ![n] = c]
  BY DEF store, n
<1>8. c \in [Index -> Entry]
  BY PagingAssumption
<1>9. mem' \in Memory /\ \A x \in Frame \ {n} : mem'[x] = mem[x]
  BY <1>4, <1>7, <1>8 DEF Memory
<1>10. free' = free /\ out' = out /\ owned' = owned
  BY DEF store
<1>11. free \in SUBSET Spare
  BY DEF IInv, TypeOK
<1>12. Tree(mem', free, lev) /\ SamePages(mem, mem')
  <2>1. /\ Tree(mem', free, lev)
        /\ \A q \in VirtualPage : q[1] # SELF =>
             /\ PDPR(mem', q) = PDPR(mem, q) /\ PD(mem', q) = PD(mem, q)
             /\ PT(mem', q) = PT(mem, q) /\ MMU(mem', q) = MMU(mem, q)
    BY <1>1, <1>4, <1>6, <1>9, <1>11, StoreKeepsTree
  <2> QED  BY <2>1 DEF SamePages
<1>13. Mapping(mem') = Mapping(mem)
  BY <1>1, <1>4, <1>9, <1>12, SameMapping
<1>14. TypeOK'
  BY <1>9, <1>10 DEF IInv, TypeOK, Memory
<1> QED  BY <1>10, <1>12, <1>13, <1>14 DEF IInv, HasTree, SpaceMoves

----------------------------------------------------------------------------
LEMMA PagingInit ==
  ASSUME Init
  PROVE  IInv
<1>1. PICK c \in Contents : mem = [f \in Frame |-> BootTable(f, c)]
  BY DEF Init
<1>2. mem \in Memory
  BY <1>1, BootTables
<1>3. Tree(mem, Spare, [t \in Frame |-> BootLevel(t)])
  BY <1>1, BootTree
<1>4. free = Spare /\ out = FALSE /\ owned = {}
  BY DEF Init
<1> QED  BY <1>2, <1>3, <1>4 DEF IInv, TypeOK, HasTree, Memory

\* All that a step does.
LEMMA PagingStep ==
  ASSUME IInv, [Next]_vars
  PROVE  /\ IInv'
         /\ out \/ out' \/ SpaceMoves(mem, free, mem', free')
         /\ \/ out' \/ FramesGoSomewhere(mem', free, free')
            \/ \E p \in Pages : map_fresh(p) /\ MMU(mem, p) # NONE
<1>1. CASE UNCHANGED vars
  <2>1. mem' = mem /\ free' = free /\ out' = out /\ owned' = owned
    BY <1>1 DEF vars
  <2>2. IInv'
    BY <2>1 DEF IInv, TypeOK, HasTree
  <2>3. SpaceMoves(mem, free, mem', free') /\ FramesGoSomewhere(mem', free, free')
    BY <2>1 DEF SpaceMoves, FramesGoSomewhere
  <2> QED  BY <2>2, <2>3
<1>2. CASE Next
  <2>1. ~ out
    BY <1>2 DEF Next
  <2>2. PICK p \in Pages :
          \/ map_fresh(p) \/ map_if_not_mapped(p) \/ already_mapped(p)
          \/ unmap(p)     \/ store(p)
    BY <1>2 DEF Next
  <2>3. CASE map_fresh(p)
    <3>1. Becomes(map_page(Allocated(Now), p, Lowest(free))) /\ owned' = owned \cup {p}
      BY <2>3 DEF map_fresh
    <3> QED  BY <2>1, <2>3, <3>1, FreshStep
  <2>4. CASE map_if_not_mapped(p)
    <3>1. Becomes(map_page(Allocated(Now), p, Lowest(free))) /\ owned' = owned \cup {p}
          /\ ~ is_virtual_memory_mapped(p)
      BY <2>4 DEF map_if_not_mapped
    <3>2. p \in VirtualPage /\ p[1] # SELF
      BY PagesAreOutside
    <3>3. MMU(mem, p) = NONE
      BY <2>1, <3>1, <3>2, IsMapped DEF IInv
    <3> QED  BY <2>1, <3>1, <3>3, FreshStep
  <2>5. CASE already_mapped(p)
    <3>1. mem' = mem /\ free' = free /\ out' = out /\ owned' = owned \cup {p}
      BY <2>5 DEF already_mapped
    <3>2. IInv'
      BY <3>1 DEF IInv, TypeOK, HasTree
    <3>3. SpaceMoves(mem, free, mem', free') /\ FramesGoSomewhere(mem', free, free')
      BY <3>1 DEF SpaceMoves, FramesGoSomewhere
    <3> QED  BY <3>2, <3>3
  <2>6. CASE unmap(p)
    BY <2>1, <2>6, UnmapStep
  <2>7. CASE store(p)
    <3>1. IInv' /\ free' = free /\ SpaceMoves(mem, free, mem', free')
      BY <2>1, <2>7, StoreStep
    <3> QED  BY <3>1 DEF FramesGoSomewhere
  <2> QED  BY <2>2, <2>3, <2>4, <2>5, <2>6, <2>7
<1> QED  BY <1>1, <1>2

THEOREM TablesFormATree == Spec => []IInv
<1>1. Init => IInv
  BY PagingInit
<1>2. IInv /\ [Next]_vars => IInv'
  BY PagingStep
<1> QED  BY <1>1, <1>2, PTL DEF Spec

\* No page of a client is a page table, whatever is mapped, unmapped or
\* written in which order: map_page of paging.c, on every size of the tables.
THEOREM TablesStayPrivate == Spec => []TablesArePrivate
<1>1. IInv => TablesArePrivate
  <2> SUFFICES ASSUME IInv, ~ out
               PROVE  Tables(mem) \cap Spare \cap InPages(mem) = {}
    BY DEF TablesArePrivate
  <2>1. PICK lev : Tree(mem, free, lev)
    BY DEF IInv, HasTree
  <2>2. mem \in Memory
    BY DEF IInv, TypeOK, Memory
  <2> QED  BY <2>1, <2>2, TreeIsPrivate
<1> QED  BY <1>1, TablesFormATree, PTL

\* Of the frames that leave the bitmap none is lost, but for the one that
\* vmm_allocate_area takes for a page that has a frame.
THEOREM NoFrameIsLost == Spec => FramesAreUsed
<1>1. IInv /\ [Next]_vars =>
        [~out' =>
           \/ free \ free' \subseteq Tables(mem') \cup InPages(mem')
           \/ \E p \in Pages : map_fresh(p) /\ MMU(mem, p) # NONE]_vars
  BY PagingStep DEF FramesGoSomewhere
<1> QED  BY <1>1, TablesFormATree, PTL DEF Spec, FramesAreUsed

\* map_page maps the page it is asked for and no other: the page tables
\* implement the abstract address space.
THEOREM PagingImplementsAddressSpace == Spec => ImplementsAddressSpace
<1>1. Init => Space!Init
  <2> SUFFICES ASSUME Init
               PROVE  (~ out) = TRUE /\ \A e \in Mapping(mem) : e[2] \notin free
    BY DEF Space!Init
  <2>1. IInv /\ out = FALSE
    BY PagingInit DEF Init
  <2>2. PICK lev : Tree(mem, free, lev)
    BY <2>1 DEF IInv, HasTree
  <2>3. mem \in Memory
    BY <2>1 DEF IInv, TypeOK, Memory
  <2>4. ASSUME NEW e \in Mapping(mem), e[2] \in free
        PROVE  FALSE
    <3>1. PICK q \in VirtualPage : q[1] # SELF /\ MMU(mem, q) # NONE /\ e[2] = MMU(mem, q)
      BY <2>2, <2>3, FromMapping
    <3>2. q[1] \in Index \ {SELF} /\ q[2] \in Index /\ q[3] \in Index /\ q[4] \in Index
      BY <3>1, Parts
    <3>3. PT(mem, q) \in Frame /\ lev[PT(mem, q)] = 1
      BY <2>2, <2>3, <3>1, <3>2, Frames, WalkEnds, WalkDescends DEF At
    <3>4. e[2] = mem[PT(mem, q)][q[4]] /\ e[2] \in Spare
      BY <2>1, <2>4, <3>1, <3>3, WalkEnds DEF At, IInv, TypeOK
    <3> QED  BY <2>2, <2>4, <3>2, <3>3, <3>4 DEF Tree, PagesAreTaken
  <2> QED  BY <2>1, <2>4
<1>2. IInv /\ IInv' /\ [Next]_vars =>
        [(~ out) = TRUE => Space!Next \/ Space!Exhaust]_<<Mapping(mem), free, ~ out>>
  <2> SUFFICES ASSUME IInv, IInv', [Next]_vars, (~ out) = TRUE
               PROVE  Space!Next \/ Space!Exhaust
    OBVIOUS
  <2>1. ~ out
    OBVIOUS
  <2>2. CASE out'
    <3>1. (~ out') = FALSE
      BY <2>2
    <3> QED  BY <3>1 DEF Space!Exhaust
  <2>3. CASE ~ out'
    <3>1. SpaceMoves(mem, free, mem', free')
      BY <2>1, <2>3, PagingStep
    <3>2. (~ out') = TRUE
      BY <2>3
    <3>3. Space!Map \/ Space!Keep
      BY <3>1 DEF SpaceMoves, Space!Map, Space!Keep
    <3> QED  BY <3>1, <3>2, <3>3 DEF SpaceMoves, Space!Next
  <2> QED  BY <2>2, <2>3
<1>3. IInv /\ IInv' /\ [Next]_vars =>
        [(~ out) = TRUE => Space!Next \/ Space!Exhaust]_(Space!spaceVars)
  BY <1>2 DEF Space!spaceVars
<1> QED  BY <1>1, <1>3, TablesFormATree, PTL DEF Spec, ImplementsAddressSpace, Space!Spec

----------------------------------------------------------------------------
(***************************************************************************)
(* Vmm: pages of the area, and the loop over the pages of a region.        *)
(***************************************************************************)
LEMMA WidthFacts ==
  /\ W \in Nat /\ W >= 4 /\ W * W \in Nat /\ W < W * W
  /\ MaxPages \in 1 .. W * W
  /\ TOP - 1 # 1 /\ TOP # 1 /\ SELF # 1 /\ 1 \in Index
<1>1. W \in Nat /\ W >= 4
  BY VmmAssumption, PagingAssumption DEF PD_LOOP_LIMIT
<1>2. \A w \in Nat : w >= 4 => w * w \in Nat /\ w < w * w
  OBVIOUS
<1>3. TOP - 1 >= 2 /\ 1 \in Index
  BY <1>1 DEF TOP, Index
<1> QED  BY <1>1, <1>2, <1>3, VmmAssumption, PagingAssumption DEF TOP

LEMMA DivMod ==
  ASSUME NEW n \in Nat, NEW d \in Nat \ {0}
  PROVE  /\ n \div d \in Nat /\ n % d \in 0 .. d - 1
         /\ n = (n \div d) * d + (n % d)
         /\ (n \div d) * d <= n /\ n < (n \div d) * d + d
OBVIOUS

LEMMA MulMono ==
  ASSUME NEW a \in Nat, NEW b \in Nat, NEW c \in Nat, a <= b
  PROVE  a * c <= b * c /\ a * c \in Nat /\ b * c \in Nat
OBVIOUS

\* Pages below W * W are those of one gigabyte.
AreaPages == 0 .. W * W - 1

LEMMA PageAtIs ==
  ASSUME NEW n \in AreaPages
  PROVE  /\ PageAt(n) = <<0, 1, n \div W, n % W>>
         /\ n \div W \in Index /\ n % W \in Index
         /\ n = (n \div W) * W + (n % W)
         /\ PageAt(n) \in VirtualPage
         /\ PageAt(n)[1] = 0 /\ PageAt(n)[2] = 1
         /\ PageAt(n)[3] = n \div W /\ PageAt(n)[4] = n % W
         /\ Canon(PageAt(n)) = PageAt(n)
<1>1. W \in Nat \ {0} /\ W * W \in Nat \ {0} /\ n \in Nat /\ n < W * W
  BY WidthFacts DEF AreaPages
<1>2. n \div (W * W) = 0
  <2>1. \A k, d \in Nat : k < d => k \div d = 0
    OBVIOUS
  <2> QED  BY <1>1, <2>1
<1> DEFINE a == n \div W
           b == n % W
<1>3. a \in Nat /\ b \in 0 .. W - 1 /\ n = a * W + b /\ a * W <= n
  BY <1>1, DivMod
<1> HIDE DEF a, b
<1>4. a < W
  <2> SUFFICES ASSUME W <= a
               PROVE  FALSE
    BY <1>1, <1>3
  <2>1. W * W <= a * W
    BY <1>1, <1>3, MulMono
  <2>2. a * W \in Nat
    BY <1>1, <1>3
  <2> QED  BY <1>1, <1>3, <2>1, <2>2
<1>5. a % W = a
  <2>1. \A k, d \in Nat : k < d => k % d = k
    OBVIOUS
  <2> QED  BY <1>1, <1>3, <1>4, <2>1
<1>6. a \in Index /\ b \in Index
  BY <1>1, <1>3, <1>4 DEF Index
<1>7. PageAt(n) = <<0, 1, a, b>>
  <2>1. PageAt(n) = <<0, 1 + n \div (W * W), a % W, b>>
    BY DEF PageAt, a, b
  <2>2. 1 + 0 = 1
    OBVIOUS
  <2> QED  BY <2>1, <2>2, <1>2, <1>5
<1>8. PageAt(n) \in VirtualPage
  BY <1>6, <1>7, Slots, WidthFacts DEF VirtualPage
<1>9. PageAt(n)[1] = 0 /\ PageAt(n)[2] = 1 /\ PageAt(n)[3] = a /\ PageAt(n)[4] = b
  BY <1>7
<1>10. Canon(PageAt(n)) = PageAt(n)
  BY <1>7, <1>9, Slots, WidthFacts DEF Canon
<1> QED  BY <1>3, <1>6, <1>7, <1>8, <1>9, <1>10 DEF a, b

LEMMA PageAtIsOne ==
  ASSUME NEW n \in AreaPages, NEW k \in AreaPages, PageAt(n) = PageAt(k)
  PROVE  n = k
<1>1. n \div W = k \div W /\ n % W = k % W
  BY PageAtIs
<1> QED  BY <1>1, PageAtIs

LEMMA SetInduction ==
  ASSUME NEW S, 0 \in S, \A n \in Nat : n \in S => n + 1 \in S
  PROVE  \A n \in Nat : n \in S
<1> DEFINE T == {n \in Nat : n \notin S}
<1> SUFFICES ASSUME T # {}
             PROVE  FALSE
  OBVIOUS
<1>1. PICK n \in T : \A m \in T : n <= m
  BY LeastNatural
<1>2. n # 0 /\ n \in Nat
  BY <1>1
<1>3. n - 1 \in Nat /\ n - 1 \notin T
  BY <1>1, <1>2
<1> QED  BY <1>1, <1>2, <1>3

\* A turn of the loop of vmm_allocate_area.
Turn(t, n) == map_page(Allocated(t), PageAt(n), Lowest(t.free))

LEMMA TurnType ==
  ASSUME NEW t \in States, NEW n \in AreaPages
  PROVE  Turn(t, n) \in States /\ (~ Turn(t, n).out => ~ t.out)
BY PageAtIs, FreshType DEF Turn

\* What holds of the state before the loop, and is kept by its turns, holds
\* of the state behind it.
LEMMA AreaInduction ==
  ASSUME NEW s, NEW first \in Nat, NEW n \in Nat, NEW T,
         s \in T[0],
         \A k \in 0 .. n - 1 : \A t \in T[k] : Turn(t, first + k) \in T[k + 1]
  PROVE  Area(s, first, n) \in T[n]
<1> DEFINE Is(g, k) == /\ g = [j \in 0 .. k |-> g[j]]
                       /\ g[0] = s
                       /\ \A j \in 1 .. k : g[j] = Turn(g[j - 1], first + j - 1)
           S == {k \in Nat : \E g : Is(g, k)}
<1>1. 0 \in S
  <2>1. Is([j \in 0 .. 0 |-> s], 0)
    OBVIOUS
  <2> QED  BY <2>1
<1>2. ASSUME NEW k \in Nat, k \in S
      PROVE  k + 1 \in S
  <2>1. PICK g : Is(g, k)
    BY <1>2
  <2> DEFINE h == [j \in 0 .. k + 1 |-> IF j = k + 1 THEN Turn(g[k], first + k) ELSE g[j]]
  <2>2. h = [j \in 0 .. k + 1 |-> h[j]] /\ h[0] = s
    BY <2>1
  <2>3. ASSUME NEW j \in 1 .. k + 1
        PROVE  h[j] = Turn(h[j - 1], first + j - 1)
    <3>1. CASE j = k + 1
      <4>1. h[j] = Turn(g[k], first + k)
        BY <3>1
      <4>2. h[j - 1] = g[k]
        BY <3>1
      <4>3. first + j - 1 = first + k
        BY <3>1
      <4> QED  BY <4>1, <4>2, <4>3
    <3>2. CASE j # k + 1
      <4>1. j \in 1 .. k /\ j - 1 \in 0 .. k
        BY <3>2
      <4>2. h[j] = g[j] /\ h[j - 1] = g[j - 1]
        BY <4>1
      <4> QED  BY <2>1, <4>1, <4>2
    <3> QED  BY <3>1, <3>2
  <2> HIDE DEF h
  <2>4. Is(h, k + 1)
    BY <2>2, <2>3
  <2> HIDE DEF Is
  <2> QED  BY <2>4
<1>3. n \in S
  <2> HIDE DEF S
  <2> QED  BY <1>1, <1>2, SetInduction
<1>4. PICK g : Is(g, n)
  BY <1>3
<1> DEFINE F(f) == [k \in 0 .. n |-> IF k = 0 THEN s ELSE Turn(f[k - 1], first + k - 1)]
           area == CHOOSE f : f = F(f)
<1>5. g = F(g)
  <2>1. ASSUME NEW k \in 0 .. n
        PROVE  g[k] = IF k = 0 THEN s ELSE Turn(g[k - 1], first + k - 1)
    <3>1. k = 0 \/ k \in 1 .. n
      OBVIOUS
    <3> QED  BY <1>4, <3>1
  <2> QED  BY <1>4, <2>1
<1>6. area = F(area)
  <2> HIDE DEF F
  <2> QED  BY <1>5
<1>7. Area(s, first, n) = area[n]
  BY DEF Area, Turn
<1> HIDE DEF area
<1>8. /\ area[0] = s
      /\ \A k \in 1 .. n : area[k] = Turn(area[k - 1], first + k - 1)
  <2>1. \A k \in 0 .. n : area[k] = IF k = 0 THEN s ELSE Turn(area[k - 1], first + k - 1)
    BY <1>6
  <2>2. 0 \in 0 .. n /\ \A k \in 1 .. n : k \in 0 .. n /\ k # 0
    OBVIOUS
  <2> QED  BY <2>1, <2>2
<1> DEFINE U == {k \in Nat : k <= n => area[k] \in T[k]}
<1>9. 0 \in U
  BY <1>8
<1>10. ASSUME NEW k \in Nat, k \in U
       PROVE  k + 1 \in U
  <2> SUFFICES ASSUME k + 1 <= n
               PROVE  area[k + 1] \in T[k + 1]
    OBVIOUS
  <2>1. k + 1 \in 1 .. n /\ k + 1 - 1 = k /\ k \in 0 .. n - 1 /\ first + (k + 1) - 1 = first + k
    OBVIOUS
  <2>2. area[k + 1] = Turn(area[k], first + k)
    BY <1>8, <2>1
  <2>3. area[k] \in T[k]
    BY <1>10, <2>1
  <2> QED  BY <2>1, <2>2, <2>3
<1>11. n \in U
  <2> HIDE DEF U
  <2> QED  BY <1>9, <1>10, SetInduction
<1> QED  BY <1>7, <1>11

LEMMA AreaType ==
  ASSUME NEW s \in States, NEW first \in Nat, NEW n \in Nat, first + n <= MaxPages
  PROVE  Area(s, first, n) \in States
<1> DEFINE T == [k \in Nat |-> States]
<1>1. ASSUME NEW k \in 0 .. n - 1, NEW t \in T[k]
      PROVE  Turn(t, first + k) \in T[k + 1]
  <2>1. first + k \in AreaPages
    BY WidthFacts DEF AreaPages
  <2> QED  BY <2>1, TurnType
<1>2. s \in T[0] /\ T[n] = States
  OBVIOUS
<1> HIDE DEF T
<1> QED  BY <1>1, <1>2, AreaInduction

----------------------------------------------------------------------------
(***************************************************************************)
(* Vmm: the list of regions.                                               *)
(***************************************************************************)
\* The headers there are, whether they can be reached or not.
Shape(h) ==
  /\ h = [r \in DOMAIN h |-> h[r]]
  /\ DOMAIN h \subseteq 0 .. MaxPages - 1
  /\ \A r \in DOMAIN h :
       /\ h[r] = [next |-> h[r].next, size |-> h[r].size]
       /\ h[r].next \in DOMAIN h \cup {NULL, WILD}
       /\ h[r].size \in 1 .. MaxPages
       /\ r + h[r].size <= MaxPages

\* The region behind which the next one will be.
IsLast(h, l) ==
  /\ l \in DOMAIN h /\ h[l].next = NULL
  /\ \A r \in DOMAIN h : h[r].next = NULL => r = l
  /\ \A r \in DOMAIN h : r + h[r].size <= l + h[l].size

\* Each region but the root is behind one that points to it.
Listed(h) ==
  /\ vm_root \in DOMAIN h
  /\ \A r \in DOMAIN h :
       h[r].next = NULL \/ (h[r].next \in DOMAIN h /\ h[r].next = r + h[r].size)
  /\ \A r \in DOMAIN h : r # vm_root => \E q \in DOMAIN h : h[q].next = r
  /\ \E l : IsLast(h, l)

\* A block is in its region.
BlocksLie(h, bs) ==
  \A b \in bs : \E r \in DOMAIN h :
    /\ b.addr = r * PAGE_SIZE + HEADER
    /\ b.addr + b.len <= (r + h[r].size) * PAGE_SIZE

BootMemory(m, f, o) ==
  /\ \E c \in Contents : m = [t \in Frame |-> BootTable(t, c)]
  /\ f = Spare /\ o = FALSE

ListInv ==
  /\ status \in {"boot", "up", "halted", "lost"}
  /\ Shape(header)
  /\ blocks \subseteq [addr : Nat, len : Sizes]
  /\ BlocksLie(header, blocks)
  /\ status = "boot" => BootMemory(mem, free, out) /\ DOMAIN header = {}
  /\ status = "up" => \/ DOMAIN header = {vm_root} /\ header[vm_root].next = WILD
                      \/ Listed(header)

VInv == TypeOK /\ ListInv

LEMMA Pointers == NULL # WILD /\ NULL \notin Nat /\ WILD \notin Nat /\ vm_root \in Nat
BY DEF NULL, WILD, vm_root

LEMMA ChainIsAll ==
  ASSUME Shape(header), Listed(header)
  PROVE  Chain = DOMAIN header
<1> DEFINE Closed(S) == /\ vm_root \in S
                        /\ \A r \in S :
                             header[r].next \in DOMAIN header => header[r].next \in S
<1>1. Chain = {r \in DOMAIN header : \A S \in SUBSET DOMAIN header : Closed(S) => r \in S}
  BY DEF Chain
<1>2. ASSUME NEW S \in SUBSET DOMAIN header, Closed(S)
      PROVE  DOMAIN header \subseteq S
  <2> DEFINE T == DOMAIN header \ S
  <2> SUFFICES ASSUME T # {}
               PROVE  FALSE
    OBVIOUS
  <2>1. T \in SUBSET Nat
    BY DEF Shape
  <2>2. PICK t \in T : \A u \in T : t <= u
    BY <2>1, LeastNatural
  <2>3. t \in DOMAIN header /\ t \notin S /\ t # vm_root /\ t \in Nat
    BY <1>2, <2>1
  <2>4. PICK q \in DOMAIN header : header[q].next = t
    BY <2>3 DEF Listed
  <2>5. t = q + header[q].size
    BY <2>3, <2>4, Pointers DEF Listed
  <2>6. q \in Nat /\ header[q].size \in Nat /\ header[q].size >= 1
    BY <2>4, WidthFacts DEF Shape
  <2>7. q < t
    BY <2>5, <2>6
  <2>8. q \in S
    BY <2>2, <2>3, <2>4, <2>6, <2>7
  <2> QED  BY <1>2, <2>3, <2>4, <2>8
<1> QED  BY <1>1, <1>2

LEMMA LastIs ==
  ASSUME Shape(header), Listed(header)
  PROVE  /\ IsLast(header, Last)
         /\ Last \in Nat /\ header[Last].size \in Nat
<1>1. PICK l : IsLast(header, l)
  BY DEF Listed
<1>2. Chain = DOMAIN header
  BY ChainIsAll
<1>3. Last = l
  BY <1>1, <1>2 DEF IsLast, Last
<1>4. l \in Nat /\ header[l].size \in Nat
  BY <1>1, WidthFacts DEF Shape, IsLast
<1> QED  BY <1>1, <1>3, <1>4

LEMMA PagesForIs ==
  ASSUME NEW bytes \in Nat \ {0}
  PROVE  /\ PagesFor(bytes) \in Nat /\ PagesFor(bytes) >= 1
         /\ bytes <= PagesFor(bytes) * PAGE_SIZE
<1> DEFINE a == bytes + PAGE_SIZE - 1
           q == a \div PAGE_SIZE
<1>1. PAGE_SIZE \in Nat \ {0} /\ a \in Nat
  BY VmmAssumption
<1>2. q \in Nat /\ q * PAGE_SIZE <= a /\ a < q * PAGE_SIZE + PAGE_SIZE
  BY <1>1, DivMod
<1>3. PagesFor(bytes) = q
  BY DEF PagesFor
<1> HIDE DEF q
<1>4. q * PAGE_SIZE \in Nat
  BY <1>1, <1>2
<1>5. bytes <= q * PAGE_SIZE
  BY <1>1, <1>2, <1>4
<1>6. q # 0
  <2>1. q = 0 => q * PAGE_SIZE = 0
    BY <1>1
  <2> QED  BY <1>5, <2>1
<1> QED  BY <1>2, <1>3, <1>5, <1>6

LEMMA BehindIs ==
  ASSUME NEW h, NEW l \in DOMAIN h, NEW new, new \notin DOMAIN h, NEW n
  PROVE  /\ DOMAIN Behind(h, l, new, n) = DOMAIN h \cup {new}
         /\ Behind(h, l, new, n) = [r \in DOMAIN h \cup {new} |-> Behind(h, l, new, n)[r]]
         /\ Behind(h, l, new, n)[new] = [next |-> NULL, size |-> n]
         /\ Behind(h, l, new, n)[l] = [next |-> new, size |-> h[l].size]
         /\ \A r \in DOMAIN h : r # l => Behind(h, l, new, n)[r] = h[r]
BY DEF Behind

\* The region goes where no region is, and the list is one again.
LEMMA BehindIsListed ==
  ASSUME NEW h, Shape(h), Listed(h), NEW l, IsLast(h, l), NEW n \in Nat, n >= 1,
         l + h[l].size + n <= MaxPages
  PROVE  /\ l + h[l].size \in Nat /\ l + h[l].size \notin DOMAIN h
         /\ Shape(Behind(h, l, l + h[l].size, n))
         /\ Listed(Behind(h, l, l + h[l].size, n))
         /\ Behind(h, l, l + h[l].size, n)[l + h[l].size].size = n
         /\ \A r \in DOMAIN h : Behind(h, l, l + h[l].size, n)[r].size = h[r].size
<1> DEFINE new == l + h[l].size
           b == Behind(h, l, new, n)
<1>1. MaxPages \in Nat /\ l \in DOMAIN h /\ h[l].next = NULL
  BY WidthFacts DEF IsLast
<1>2. \A r \in DOMAIN h : /\ r \in Nat /\ h[r].size \in Nat /\ h[r].size >= 1
                          /\ r + h[r].size <= MaxPages
  BY <1>1 DEF Shape
<1>3. new \in Nat /\ new + n <= MaxPages /\ new # vm_root
  BY <1>1, <1>2 DEF vm_root
<1>4. \A r \in DOMAIN h : r < new /\ r + h[r].size <= new
  BY <1>2, <1>3 DEF IsLast
<1> HIDE DEF new
<1>5. new \notin DOMAIN h
  BY <1>2, <1>3, <1>4
<1>6. /\ DOMAIN b = DOMAIN h \cup {new}
      /\ b = [r \in DOMAIN h \cup {new} |-> b[r]]
      /\ b[new] = [next |-> NULL, size |-> n]
      /\ b[l] = [next |-> new, size |-> h[l].size]
      /\ \A r \in DOMAIN h : r # l => b[r] = h[r]
  BY <1>1, <1>5, BehindIs
<1> HIDE DEF b
<1>7. b[new].next = NULL /\ b[new].size = n /\ b[l].next = new /\ b[l].size = h[l].size
  BY <1>6
<1>8. \A r \in DOMAIN h : b[r].size = h[r].size
  BY <1>6, <1>7
<1>9. Shape(b)
  <2>1. ASSUME NEW r \in DOMAIN b
        PROVE  /\ b[r] = [next |-> b[r].next, size |-> b[r].size]
               /\ b[r].next \in DOMAIN b \cup {NULL, WILD}
               /\ b[r].size \in 1 .. MaxPages
               /\ r + b[r].size <= MaxPages /\ r \in 0 .. MaxPages - 1
    <3>1. CASE r = new
      <4>1. r + b[r].size <= MaxPages /\ b[r].size \in 1 .. MaxPages /\ r \in 0 .. MaxPages - 1
        BY <3>1, <1>1, <1>3, <1>7
      <4> QED  BY <3>1, <1>6, <1>7, <4>1
    <3>2. CASE r = l
      <4>1. b[r].size = h[l].size /\ b[r].next = new
        BY <3>2, <1>7
      <4> QED  BY <3>2, <4>1, <1>1, <1>6 DEF Shape
    <3>3. CASE r # new /\ r # l
      <4>1. b[r] = h[r] /\ r \in DOMAIN h
        BY <3>3, <2>1, <1>6
      <4> QED  BY <4>1, <1>6 DEF Shape
    <3> QED  BY <3>1, <3>2, <3>3
  <2> QED  BY <2>1, <1>6 DEF Shape
<1>10. Listed(b)
  <2>1. vm_root \in DOMAIN b
    BY <1>6 DEF Listed
  <2>2. ASSUME NEW r \in DOMAIN b
        PROVE  b[r].next = NULL \/ (b[r].next \in DOMAIN b /\ b[r].next = r + b[r].size)
    <3>1. CASE r = l
      BY <3>1, <1>6, <1>7 DEF new
    <3>2. CASE r # l
      BY <3>2, <1>6, <1>7 DEF Listed
    <3> QED  BY <3>1, <3>2
  <2>3. ASSUME NEW r \in DOMAIN b, r # vm_root
        PROVE  \E q \in DOMAIN b : b[q].next = r
    <3>1. CASE r = new
      BY <3>1, <1>1, <1>6, <1>7
    <3>2. CASE r # new
      <4>1. r \in DOMAIN h
        BY <3>2, <1>6
      <4>2. PICK q \in DOMAIN h : h[q].next = r
        BY <4>1, <2>3 DEF Listed
      <4>3. q # l
        BY <4>1, <4>2, <1>1, <1>2, Pointers
      <4>4. q \in DOMAIN b /\ b[q].next = r
        BY <4>2, <4>3, <1>6
      <4> QED  BY <4>4
    <3> QED  BY <3>1, <3>2
  <2>4. IsLast(b, new)
    <3>1. ASSUME NEW r \in DOMAIN b, b[r].next = NULL
          PROVE  r = new
      <4> SUFFICES ASSUME r # new
                   PROVE  FALSE
        OBVIOUS
      <4>1. r \in DOMAIN h /\ new # NULL
        BY <3>1, <1>3, <1>6, Pointers
      <4>2. r # l
        BY <3>1, <4>1, <1>7
      <4>3. h[r].next = NULL
        BY <3>1, <4>1, <4>2, <1>6
      <4> QED  BY <4>1, <4>2, <4>3 DEF IsLast
    <3>2. ASSUME NEW r \in DOMAIN b
          PROVE  r + b[r].size <= new + b[new].size
      <4>1. CASE r = new
        BY <4>1, <1>3, <1>7
      <4>2. CASE r # new
        <5>1. r \in DOMAIN h
          BY <4>2, <3>2, <1>6
        <5>2. r + h[r].size <= new /\ b[r].size = h[r].size /\ r \in Nat /\ h[r].size \in Nat
          BY <5>1, <1>2, <1>4, <1>8
        <5> QED  BY <5>2, <1>3, <1>7
      <4> QED  BY <4>1, <4>2
    <3> QED  BY <3>1, <3>2, <1>6, <1>7 DEF IsLast
  <2> QED  BY <2>1, <2>2, <2>3, <2>4 DEF Listed
<1> QED  BY <1>3, <1>5, <1>7, <1>8, <1>9, <1>10 DEF new, b

----------------------------------------------------------------------------
LEMMA BootStatus ==
  ASSUME VmmInit
  PROVE  VInv
<1>1. IInv
  BY PagingInit DEF VmmInit
<1>2. BootMemory(mem, free, out)
  BY DEF VmmInit, Init, BootMemory
<1>3. header = << >> /\ blocks = {} /\ status = "boot"
  BY DEF VmmInit
<1>4. DOMAIN header = {} /\ header = [r \in {} |-> header[r]]
  BY <1>3
<1>5. Shape(header)
  BY <1>4 DEF Shape
<1>6. BlocksLie(header, blocks)
  BY <1>3 DEF BlocksLie
<1> QED  BY <1>1, <1>2, <1>3, <1>4, <1>5, <1>6 DEF VInv, IInv, ListInv

\* The pages of the regions: the tables and the bitmap after them.
LEMMA AreaKeepsType ==
  ASSUME TypeOK, NEW first \in Nat, NEW n \in Nat, first + n <= MaxPages,
         Becomes(Area(Now, first, n)), owned' = owned
  PROVE  TypeOK'
<1> DEFINE s == Area(Now, first, n)
<1>1. s \in States
  BY NowIs, AreaType
<1>2. mem' = s.mem /\ free' = s.free /\ out' = s.out
  BY DEF Becomes
<1> HIDE DEF s
<1> QED  BY <1>1, <1>2 DEF TypeOK, States, Memory

LEMMA RootStep ==
  ASSUME VInv, init_vmm
  PROVE  VInv'
<1>1. /\ status = "boot" /\ status' = "up" /\ owned' = owned /\ blocks' = blocks
      /\ Becomes(Area(Now, vm_root, 1))
      /\ \E n \in {NULL, WILD} : header' = [r \in {vm_root} |-> [next |-> n, size |-> 1]]
  BY DEF init_vmm
<1>2. PICK n \in {NULL, WILD} : header' = [r \in {vm_root} |-> [next |-> n, size |-> 1]]
  BY <1>1
<1> DEFINE h == header'
<1> HIDE DEF h
<1>4. h = [r \in {vm_root} |-> [next |-> n, size |-> 1]]
  BY <1>2 DEF h
<1>5. /\ DOMAIN h = {vm_root} /\ h[vm_root] = [next |-> n, size |-> 1]
      /\ h[vm_root].next = n /\ h[vm_root].size = 1
  BY <1>4
<1>6. vm_root + 1 <= MaxPages /\ 1 \in 1 .. MaxPages /\ vm_root \in 0 .. MaxPages - 1
      /\ vm_root \in Nat /\ 1 \in Nat
  BY WidthFacts DEF vm_root
<1>7. Shape(h)
  BY <1>4, <1>5, <1>6 DEF Shape
<1>8. n = NULL => Listed(h)
  <2> SUFFICES ASSUME n = NULL
               PROVE  Listed(h)
    OBVIOUS
  <2>1. IsLast(h, vm_root)
    BY <1>5, <1>6 DEF IsLast
  <2> QED  BY <1>5, <2>1 DEF Listed
<1>9. TypeOK'
  BY <1>1, <1>6, AreaKeepsType DEF VInv
<1>10. BlocksLie(h, blocks')
  BY <1>1 DEF VInv, ListInv, BlocksLie
<1>11. blocks' \subseteq [addr : Nat, len : Sizes]
  BY <1>1 DEF VInv, ListInv
<1>12. ListInv'
  BY <1>1, <1>5, <1>7, <1>8, <1>10, <1>11 DEF ListInv, h
<1> QED  BY <1>9, <1>12 DEF VInv

\* What vmm_allocate does, with the numbers it finds.
LEMMA AllocateIs ==
  ASSUME VInv, NEW size \in Sizes, vmm_allocate(size),
         NEW l, l = Last, NEW new, new = l + header[l].size,
         NEW n, n = PagesFor(size + HEADER)
  PROVE  /\ Shape(header) /\ Listed(header) /\ IsLast(header, l)
         /\ n \in Nat /\ n >= 1 /\ new + n <= MaxPages /\ size + HEADER <= n * PAGE_SIZE
         /\ size \in Nat /\ ~ out
         /\ Becomes(Area(Now, new, n)) /\ owned' = owned /\ status' = status /\ status = "up"
         /\ header' = Behind(header, l, new, n)
         /\ blocks' = blocks \cup {[addr |-> new * PAGE_SIZE + HEADER, len |-> size]}
<1>1. status = "up" /\ header[vm_root].next # WILD /\ ~ out
  BY DEF vmm_allocate
<1>2. Shape(header) /\ Listed(header)
  BY <1>1 DEF VInv, ListInv
<1>3. IsLast(header, l)
  BY <1>2, LastIs
<1>4. size \in Nat /\ size + HEADER \in Nat \ {0}
  BY VmmAssumption
<1>5. n \in Nat /\ n >= 1 /\ size + HEADER <= n * PAGE_SIZE
  BY <1>4, PagesForIs
<1> QED  BY <1>1, <1>2, <1>3, <1>4, <1>5 DEF vmm_allocate

LEMMA AllocateStep ==
  ASSUME VInv, NEW size \in Sizes, vmm_allocate(size)
  PROVE  VInv'
<1>1. PICK l, new, n : l = Last /\ new = l + header[l].size /\ n = PagesFor(size + HEADER)
  OBVIOUS
<1>2. /\ Shape(header) /\ Listed(header) /\ IsLast(header, l)
      /\ n \in Nat /\ n >= 1 /\ new + n <= MaxPages /\ size + HEADER <= n * PAGE_SIZE
      /\ size \in Nat
      /\ Becomes(Area(Now, new, n)) /\ owned' = owned /\ status' = status /\ status = "up"
      /\ header' = Behind(header, l, new, n)
      /\ blocks' = blocks \cup {[addr |-> new * PAGE_SIZE + HEADER, len |-> size]}
  BY <1>1, AllocateIs
<1>3. /\ new \in Nat /\ new \notin DOMAIN header
      /\ Shape(header') /\ Listed(header')
      /\ header'[new].size = n
      /\ \A r \in DOMAIN header : header'[r].size = header[r].size
  BY <1>1, <1>2, BehindIsListed
<1>4. DOMAIN header' = DOMAIN header \cup {new}
  <2>1. l \in DOMAIN header
    BY <1>2 DEF IsLast
  <2>2. DOMAIN Behind(header, l, new, n) = DOMAIN header \cup {new}
    BY DEF Behind
  <2> QED  BY <2>2, <1>2
<1>5. TypeOK'
  BY <1>2, <1>3, AreaKeepsType DEF VInv
<1>6. /\ PAGE_SIZE \in Nat /\ HEADER \in Nat /\ new * PAGE_SIZE \in Nat
      /\ (new + n) * PAGE_SIZE = new * PAGE_SIZE + n * PAGE_SIZE /\ n * PAGE_SIZE \in Nat
  BY <1>2, <1>3, VmmAssumption
<1>7. BlocksLie(header', blocks')
  <2> SUFFICES ASSUME NEW b \in blocks'
               PROVE  \E r \in DOMAIN header' :
                        /\ b.addr = r * PAGE_SIZE + HEADER
                        /\ b.addr + b.len <= (r + header'[r].size) * PAGE_SIZE
    BY DEF BlocksLie
  <2>1. CASE b \in blocks
    <3>1. PICK r \in DOMAIN header :
            /\ b.addr = r * PAGE_SIZE + HEADER
            /\ b.addr + b.len <= (r + header[r].size) * PAGE_SIZE
      BY <2>1 DEF VInv, ListInv, BlocksLie
    <3> QED  BY <3>1, <1>3, <1>4
  <2>2. CASE b = [addr |-> new * PAGE_SIZE + HEADER, len |-> size]
    <3>1. b.addr = new * PAGE_SIZE + HEADER /\ b.len = size
      BY <2>2
    <3>2. b.addr + b.len <= (new + n) * PAGE_SIZE
      BY <3>1, <1>2, <1>6
    <3> QED  BY <3>1, <3>2, <1>3, <1>4
  <2> QED  BY <2>1, <2>2, <1>2
<1>8. blocks' \subseteq [addr : Nat, len : Sizes]
  <2>1. blocks \subseteq [addr : Nat, len : Sizes]
    BY DEF VInv, ListInv
  <2>2. new * PAGE_SIZE + HEADER \in Nat
    BY <1>6
  <2> QED  BY <2>1, <2>2, <1>2
<1>9. ListInv'
  BY <1>2, <1>3, <1>7, <1>8 DEF ListInv
<1> QED  BY <1>5, <1>9 DEF VInv

LEMMA FreeStep ==
  ASSUME VInv, NEW addr, vmm_free(addr)
  PROVE  /\ VInv'
         /\ DOMAIN header' = DOMAIN header
         /\ \A r \in DOMAIN header : header'[r].size = header[r].size
         /\ blocks' \subseteq blocks /\ UNCHANGED vars
<1>1. /\ status = "up" /\ status' = "halted" /\ mem' = mem /\ free' = free
      /\ out' = out /\ owned' = owned /\ blocks' \subseteq blocks
  BY DEF vmm_free, vars
<1>2. PICK r \in Chain :
        header' = [p \in DOMAIN header |->
                     IF p \in Chain /\ header[p].next = r
                       THEN [header[p] EXCEPT !.next = header[r].next]
                       ELSE header[p]]
  BY DEF vmm_free
<1>3. r \in DOMAIN header
  BY <1>2 DEF Chain
<1> DEFINE h == header'
<1> HIDE DEF h
<1>4. DOMAIN h = DOMAIN header /\ h = [p \in DOMAIN header |-> h[p]]
  BY <1>2 DEF h
<1>5. Shape(header)
  BY DEF VInv, ListInv
<1>6. ASSUME NEW p \in DOMAIN header
      PROVE  \E x \in DOMAIN header \cup {NULL, WILD} :
               h[p] = [next |-> x, size |-> header[p].size]
  <2>1. CASE p \in Chain /\ header[p].next = r
    <3> DEFINE x == header[r].next
               y == header[p].size
               z == header[p].next
    <3>1. h[p] = [header[p] EXCEPT !.next = x]
      BY <2>1, <1>2 DEF h
    <3>2. header[p] = [next |-> z, size |-> y] /\ x \in DOMAIN header \cup {NULL, WILD}
      BY <1>3, <1>5 DEF Shape
    <3> HIDE DEF x, y, z
    <3>3. h[p] = [next |-> x, size |-> y]
      BY <3>1, <3>2
    <3> QED  BY <3>2, <3>3 DEF y
  <2>2. CASE ~ (p \in Chain /\ header[p].next = r)
    <3>1. h[p] = header[p]
      BY <2>2, <1>2 DEF h
    <3> QED  BY <3>1, <1>5 DEF Shape
  <2> QED  BY <2>1, <2>2
<1>7. \A p \in DOMAIN header :
        /\ h[p].size = header[p].size
        /\ h[p] = [next |-> h[p].next, size |-> h[p].size]
        /\ h[p].next \in DOMAIN header \cup {NULL, WILD}
  <2> TAKE p \in DOMAIN header
  <2>1. PICK x \in DOMAIN header \cup {NULL, WILD} :
          h[p] = [next |-> x, size |-> header[p].size]
    BY <1>6
  <2>2. h[p].next = x /\ h[p].size = header[p].size
    BY <2>1
  <2> QED  BY <2>1, <2>2
<1>8. Shape(h)
  BY <1>4, <1>5, <1>7 DEF Shape
<1>9. BlocksLie(h, blocks')
  BY <1>1, <1>4, <1>7 DEF VInv, ListInv, BlocksLie
<1>10. ListInv'
  <2>1. blocks' \subseteq [addr : Nat, len : Sizes]
    BY <1>1 DEF VInv, ListInv
  <2> QED  BY <1>1, <1>8, <1>9, <2>1 DEF ListInv, h
<1>11. TypeOK'
  BY <1>1 DEF VInv, TypeOK
<1> QED  BY <1>1, <1>4, <1>7, <1>10, <1>11 DEF VInv, h, vars

LEMMA NothingStep ==
  ASSUME VInv, vmm_allocate_wild \/ UNCHANGED vmmVars
  PROVE  VInv'
<1>1. /\ mem' = mem /\ free' = free /\ out' = out /\ owned' = owned
      /\ header' = header /\ blocks' = blocks
      /\ status' = status \/ status' = "lost"
  BY DEF vmm_allocate_wild, vmmVars, vars
<1>2. TypeOK'
  BY <1>1 DEF VInv, TypeOK
<1>3. ListInv'
  BY <1>1 DEF VInv, ListInv
<1> QED  BY <1>2, <1>3 DEF VInv

LEMMA VmmStep ==
  ASSUME VInv, [VmmNext]_vmmVars
  PROVE  VInv'
<1>1. CASE init_vmm
  BY <1>1, RootStep
<1>2. ASSUME NEW size \in Sizes, vmm_allocate(size)
      PROVE  VInv'
  BY <1>2, AllocateStep
<1>3. ASSUME NEW addr \in Addresses, vmm_free(addr)
      PROVE  VInv'
  BY <1>3, FreeStep
<1>4. ASSUME NEW addr \in Addresses, vmm_free_unknown(addr)
      PROVE  VInv'
  BY <1>4, NothingStep DEF vmm_free_unknown
<1>5. CASE vmm_allocate_wild \/ UNCHANGED vmmVars
  BY <1>5, NothingStep
<1> QED  BY <1>1, <1>2, <1>3, <1>4, <1>5 DEF VmmNext

THEOREM ListIsKept == VmmSpec => []VInv
<1>1. VmmInit => VInv
  BY BootStatus
<1>2. VInv /\ [VmmNext]_vmmVars => VInv'
  BY VmmStep
<1> QED  BY <1>1, <1>2, PTL DEF VmmSpec

\* vmm_allocate puts each region behind the last one: there is no gap between
\* two regions of the list.
THEOREM NoGaps == VmmSpec => []RegionsAreContiguous
<1>1. VInv => RegionsAreContiguous
  <2> SUFFICES ASSUME VInv, status = "up", NEW r \in Chain
               PROVE  header[r].next \in {NULL, WILD, r + header[r].size}
    BY DEF RegionsAreContiguous
  <2>1. r \in DOMAIN header
    BY DEF Chain
  <2> QED  BY <2>1 DEF VInv, ListInv, Listed
<1> QED  BY <1>1, ListIsKept, PTL

\* The state of the manager has its types.
THEOREM VmmTypes == VmmSpec => []VmmTypeOK
<1>1. VInv => VmmTypeOK
  BY DEF VInv, ListInv, Shape, VmmTypeOK
<1> QED  BY <1>1, ListIsKept, PTL

----------------------------------------------------------------------------
(***************************************************************************)
(* Vmm: the directory of the area is a frame d of the bitmap, which is     *)
(* not mapped to its own address, whether there is memory left or not.     *)
(***************************************************************************)
\* What a slot of the directory may hold: a request the bitmap has no frame
\* for gets 0.
Targets(d) == {NONE, 0} \cup (Spare \ {d})

\* The slots of the boot's directory through which no frame of the bitmap
\* is reached.
HighSlots == {i \in Index : i > 1 /\ i # FB_SLOT}

Rooted(m, f, d) ==
  /\ d \in Spare \ f
  /\ m[p4_table][SELF] = p4_table /\ m[p4_table][0] = p3_table
  /\ m[p3_table][0] = p2_table /\ m[p3_table][1] = d
  /\ \A i \in HighSlots : m[p2_table][i] = NONE
  /\ \A i \in Index : m[d][i] \in Targets(d)

LEMMA FrameOfDirectory ==
  ASSUME NEW d \in Spare
  PROVE  /\ d \in Frame /\ d # p4_table /\ d # p3_table /\ d # p2_table /\ d # NONE
         /\ \A x \in Targets(d) : x # p4_table /\ x # p3_table /\ x # p2_table /\ x # d
         /\ 0 \in Targets(d) /\ NONE \in Targets(d)
         /\ p4_table # NONE /\ p3_table # NONE /\ p2_table # NONE
<1>1. p4_table # 0 /\ p3_table # 0 /\ p2_table # 0
  BY PagingAssumption DEF p4_table, p3_table, p2_table
<1> QED  BY <1>1, Frames DEF Targets

LEMMA LowestIsTarget ==
  ASSUME NEW f \in SUBSET Spare, NEW d \in Spare, d \notin f
  PROVE  Lowest(f) \in Targets(d)
BY LowestIsFree DEF Targets

LEMMA RootedStage3 ==
  ASSUME NEW s \in States, NEW d, Rooted(s.mem, s.free, d),
         NEW p \in VirtualPage, p[1] = 0, p[2] = 1
  PROVE  Rooted(Stage3(s, p).mem, Stage3(s, p).free, d) /\ Stage3(s, p) \in States
<1> DEFINE e == Stage3(s, p)
           win == <<SELF, SELF, p[1], p[2]>>
           c == <<SELF, p[1], p[2], p[3]>>
           i == p[3]
           n == Lowest(s.free)
<1>1. i \in Index /\ d \in Spare /\ d \notin s.free /\ s.mem \in Memory /\ s.free \in SUBSET Spare
      /\ 0 \in Index /\ 1 \in Index
  BY Parts, Slots, WidthFacts DEF Rooted, States
<1>2. /\ d \in Frame /\ d # p4_table /\ d # p3_table /\ d # p2_table
      /\ p4_table \in Frame /\ p3_table \in Frame /\ p2_table \in Frame
      /\ n \in Targets(d)
  BY <1>1, FrameOfDirectory, LowestIsTarget, Frames
<1>3. MMU(s.mem, win) = d
  <2>1. MMU(s.mem, win) = At(s.mem, At(s.mem, p4_table, 0), 1)
    BY PDWindow DEF Rooted
  <2> QED  BY <2>1, <1>2 DEF At, Rooted
<1>4. e = Ensured(s, win, i, c)
  BY DEF Stage3
<1> HIDE DEF e, win, i
<1>5. CASE At(s.mem, d, i) # NONE
  <2>1. e = s
    BY <1>1, <1>3, <1>4, <1>5, EnsuredIs
  <2> QED  BY <2>1 DEF e
<1>6. CASE At(s.mem, d, i) = NONE
  <2> DEFINE linked == Put(s.mem, d, i, n)
  <2>1. /\ e.mem = clean_new_table(linked, c) /\ e.free = s.free \ {n} /\ e \in States
        /\ linked \in Memory
    BY <1>1, <1>3, <1>4, <1>6, EnsuredIs
  <2>2. /\ linked[p4_table] = s.mem[p4_table] /\ linked[p3_table] = s.mem[p3_table]
        /\ linked[p2_table] = s.mem[p2_table] /\ linked[d] = [s.mem[d] EXCEPT ![i] = n]
        /\ linked[d][i] = n
        /\ \A j \in Index : linked[d][j] = IF j = i THEN n ELSE s.mem[d][j]
    BY <1>1, <1>2 DEF Put, Memory
  <2> HIDE DEF linked
  <2>3. MMU(linked, c) = n
    <3>1. /\ linked[p4_table][SELF] = p4_table /\ linked[p4_table][0] = p3_table
          /\ linked[p3_table][1] = d
      BY <2>2 DEF Rooted
    <3>2. MMU(linked, c) = At(linked, At(linked, At(linked, p4_table, 0), 1), i)
      BY <3>1, PTWindow DEF i
    <3>3. At(linked, p4_table, 0) = p3_table
      BY <3>1, <1>2 DEF At
    <3>4. At(linked, p3_table, 1) = d
      BY <3>1, <1>2 DEF At
    <3>5. At(linked, d, i) = n
      BY <2>2, <1>2 DEF At
    <3> QED  BY <3>2, <3>3, <3>4, <3>5
  <2>4. e.mem = [linked EXCEPT ![n] = Empty]
    BY <2>1, <2>3 DEF clean_new_table
  <2>5. n # p4_table /\ n # p3_table /\ n # p2_table /\ n # d
    BY <1>1, <1>2, FrameOfDirectory
  <2>6. /\ e.mem[p4_table] = s.mem[p4_table] /\ e.mem[p3_table] = s.mem[p3_table]
        /\ e.mem[p2_table] = s.mem[p2_table]
        /\ \A j \in Index : e.mem[d][j] = IF j = i THEN n ELSE s.mem[d][j]
    BY <2>1, <2>2, <2>4, <2>5, <1>2 DEF Memory
  <2>7. Rooted(e.mem, e.free, d)
    BY <2>1, <2>6, <1>1, <1>2 DEF Rooted
  <2> QED  BY <2>1, <2>7 DEF e
<1> QED  BY <1>5, <1>6

LEMMA RootedStage4 ==
  ASSUME NEW s \in States, NEW d, Rooted(s.mem, s.free, d),
         NEW p \in VirtualPage, p[1] = 0, p[2] = 1, NEW entry \in Entry
  PROVE  Rooted(Stage4(s, p, entry).mem, Stage4(s, p, entry).free, d)
<1> DEFINE e == Stage4(s, p, entry)
           t == MMU(s.mem, <<SELF, p[1], p[2], p[3]>>)
<1>1. p[3] \in Index /\ d \in Spare /\ s.mem \in Memory
  BY Parts DEF Rooted, States
<1>2. /\ d \in Frame /\ p4_table \in Frame /\ p3_table \in Frame /\ p2_table \in Frame
  BY <1>1, Frames
<1>3. t \in Targets(d)
  <2>1. t = At(s.mem, At(s.mem, At(s.mem, p4_table, 0), 1), p[3])
    BY PTWindow DEF Rooted
  <2>2. At(s.mem, p4_table, 0) = p3_table /\ At(s.mem, p3_table, 1) = d
    BY <1>2 DEF At, Rooted
  <2> QED  BY <2>1, <2>2, <1>1, <1>2 DEF At, Rooted
<1>4. t # p4_table /\ t # p3_table /\ t # p2_table /\ t # d
  BY <1>1, <1>3, FrameOfDirectory
<1>5. e.free = s.free /\ (e = s \/ e.mem = Put(s.mem, t, p[4], entry))
  BY Stage4Is
<1> HIDE DEF e, t
<1>6. /\ e.mem[p4_table] = s.mem[p4_table] /\ e.mem[p3_table] = s.mem[p3_table]
      /\ e.mem[p2_table] = s.mem[p2_table] /\ e.mem[d] = s.mem[d]
  BY <1>1, <1>2, <1>4, <1>5 DEF Put, Memory
<1> QED  BY <1>5, <1>6 DEF Rooted, e

\* A page of the area is mapped without a new directory.
LEMMA RootedTurn ==
  ASSUME NEW s \in States, NEW d, Rooted(s.mem, s.free, d), NEW n \in AreaPages
  PROVE  Rooted(Turn(s, n).mem, Turn(s, n).free, d)
<1> DEFINE a == Allocated(s)
           p == PageAt(n)
           k == Lowest(s.free)
<1>1. p \in VirtualPage /\ p[1] = 0 /\ p[2] = 1
  BY PageAtIs
<1>2. a \in States /\ a.mem = s.mem /\ a.free = s.free \ {k}
  BY AllocatedIs
<1>3. Turn(s, n) = map_page(a, p, k) /\ k \in Entry
  <2>1. s.free \in SUBSET Spare
    BY DEF States
  <2> QED  BY <2>1, LowestIsFree DEF Turn
<1> HIDE DEF a, p, k
<1>4. Rooted(a.mem, a.free, d)
  BY <1>2 DEF Rooted
<1>5. d \in Spare /\ 0 \in Index /\ 1 \in Index
  BY <1>4, Slots, WidthFacts DEF Rooted
<1>6. Stage1(a, p) = a
  <2>1. MMU(a.mem, <<SELF, SELF, SELF, SELF>>) = p4_table
    BY <1>4, TopWindow DEF Rooted
  <2>2. At(a.mem, p4_table, 0) # NONE
    BY <1>4, <1>5, Frames DEF At, Rooted
  <2> QED  BY <2>1, <2>2, <1>1, <1>2, <1>5, EnsuredIs DEF Stage1
<1>7. Stage2(a, p) = a
  <2>1. MMU(a.mem, <<SELF, SELF, SELF, p[1]>>) = p3_table
    <3>1. MMU(a.mem, <<SELF, SELF, SELF, p[1]>>) = At(a.mem, p4_table, 0)
      BY <1>1, <1>4, PDPRWindow DEF Rooted
    <3> QED  BY <3>1, <1>4, Frames DEF At, Rooted
  <2>2. At(a.mem, p3_table, 1) # NONE
    BY <1>4, <1>5, Frames DEF At, Rooted
  <2> QED  BY <2>1, <2>2, <1>1, <1>2, <1>5, EnsuredIs DEF Stage2
<1>8. Rooted(Stage3(a, p).mem, Stage3(a, p).free, d) /\ Stage3(a, p) \in States
  BY <1>1, <1>2, <1>4, RootedStage3
<1>9. Turn(s, n) = Stage4(Stage3(a, p), p, k)
  BY <1>3, <1>6, <1>7, StagesAreAll
<1> QED  BY <1>1, <1>3, <1>8, <1>9, RootedStage4

\* The first page of the area gets the directory.
LEMMA RootedFirst ==
  ASSUME NEW s \in States, BootMemory(s.mem, s.free, s.out), NEW n \in AreaPages
  PROVE  \E d : Rooted(Turn(s, n).mem, Turn(s, n).free, d)
<1> DEFINE a == Allocated(s)
           p == PageAt(n)
           k == Lowest(s.free)
<1>1. p \in VirtualPage /\ p[1] = 0 /\ p[2] = 1
  BY PageAtIs
<1>2. a \in States /\ a.mem = s.mem /\ a.free = s.free \ {k} /\ s.free = Spare
  BY AllocatedIs DEF BootMemory
<1>3. Turn(s, n) = map_page(a, p, k) /\ k \in Entry
  <2>1. s.free \in SUBSET Spare
    BY DEF States
  <2> QED  BY <2>1, LowestIsFree DEF Turn
<1> HIDE DEF a, p, k
<1>4. /\ \A i \in Index :
           a.mem[p4_table][i] = IF i \in {0, TOP} THEN p3_table
                                ELSE IF i = SELF THEN p4_table ELSE NONE
      /\ \A i \in Index :
           a.mem[p3_table][i] = IF i \in {0, TOP - 1} THEN p2_table ELSE NONE
      /\ \A i \in Index :
           a.mem[p2_table][i] = IF i = 0 THEN pt_tables
                                ELSE IF i = 1 THEN pt_tables + 1
                                ELSE IF i = FB_SLOT THEN fbb_pt_tables ELSE NONE
  <2>1. PICK c \in Contents : s.mem = [t \in Frame |-> BootTable(t, c)]
    BY DEF BootMemory
  <2> QED  BY <2>1, <1>2, BootTables
<1>5. /\ a.mem[p4_table][SELF] = p4_table /\ a.mem[p4_table][0] = p3_table
      /\ a.mem[p3_table][0] = p2_table /\ a.mem[p3_table][1] = NONE
      /\ \A i \in HighSlots : a.mem[p2_table][i] = NONE
  <2>1. a.mem[p4_table][SELF] = p4_table /\ a.mem[p4_table][0] = p3_table
    BY <1>4, Slots
  <2>2. a.mem[p3_table][0] = p2_table /\ a.mem[p3_table][1] = NONE
    <3>1. 1 \in Index /\ 1 \notin {0, TOP - 1}
      BY WidthFacts
    <3> QED  BY <3>1, <1>4, Slots
  <2>3. \A i \in HighSlots : a.mem[p2_table][i] = NONE
    <3>1. \A i \in HighSlots : i \in Index /\ i # 0 /\ i # 1 /\ i # FB_SLOT
      BY DEF HighSlots, Index
    <3> QED  BY <3>1, <1>4
  <2> QED  BY <2>1, <2>2, <2>3
<1>6. /\ 0 \in Index /\ 1 \in Index /\ p4_table \in Frame /\ p3_table \in Frame
      /\ p2_table \in Frame /\ p3_table # NONE /\ p4_table # p3_table
  BY Slots, WidthFacts, Frames
<1>7. Stage1(a, p) = a
  <2>1. MMU(a.mem, <<SELF, SELF, SELF, SELF>>) = p4_table
    BY <1>5, TopWindow
  <2>2. At(a.mem, p4_table, 0) # NONE
    BY <1>5, <1>6 DEF At
  <2> QED  BY <2>1, <2>2, <1>1, <1>2, <1>6, EnsuredIs DEF Stage1
<1> DEFINE d == Lowest(a.free)
           e == Stage2(a, p)
<1>8. d \in a.free /\ d \in Spare
  <2>1. a.free # {}
    BY <1>2, VmmAssumption
  <2>2. a.free \in SUBSET Spare
    BY <1>2
  <2> QED  BY <2>1, <2>2, LowestIsFree
<1>9. /\ d \in Frame /\ d # p4_table /\ d # p3_table /\ d # p2_table
  BY <1>8, FrameOfDirectory
<1>10. Rooted(e.mem, e.free, d) /\ e \in States
  <2> DEFINE win == <<SELF, SELF, SELF, p[1]>>
             c == <<SELF, SELF, p[1], p[2]>>
             linked == Put(a.mem, p3_table, 1, d)
  <2>1. MMU(a.mem, win) = p3_table
    <3>1. MMU(a.mem, win) = At(a.mem, p4_table, 0)
      BY <1>1, <1>5, PDPRWindow
    <3> QED  BY <3>1, <1>5, <1>6 DEF At
  <2>2. At(a.mem, p3_table, 1) = NONE
    BY <1>5, <1>6 DEF At
  <2>3. e = Ensured(a, win, 1, c)
    BY <1>1 DEF Stage2
  <2>4. /\ e.mem = clean_new_table(linked, c) /\ e.free = a.free \ {d} /\ e \in States
        /\ linked \in Memory
    <3> DEFINE i == 1
    <3>1. i \in Index /\ a \in States /\ e = Ensured(a, win, i, c)
          /\ At(a.mem, MMU(a.mem, win), i) = NONE
      BY <2>1, <2>2, <2>3, <1>2, <1>6
    <3> HIDE DEF win, c, e, i
    <3>2. /\ e \in States /\ e.free = a.free \ {d}
          /\ e.mem = clean_new_table(Put(a.mem, MMU(a.mem, win), i, d), c)
          /\ Put(a.mem, MMU(a.mem, win), i, d) \in Memory
      BY <3>1, EnsuredIs
    <3> QED  BY <3>2, <2>1 DEF i
  <2> HIDE DEF win, d, e
  <2>5. /\ linked[p4_table] = a.mem[p4_table] /\ linked[p2_table] = a.mem[p2_table]
        /\ \A j \in Index : linked[p3_table][j] = IF j = 1 THEN d ELSE a.mem[p3_table][j]
    <3>1. a.mem \in Memory
      BY <1>2 DEF States
    <3> QED  BY <3>1, <1>6, Frames DEF Put, Memory
  <2> HIDE DEF linked
  <2>6. MMU(linked, c) = d
    <3>1. /\ linked[p4_table][SELF] = p4_table /\ linked[p4_table][0] = p3_table
          /\ linked[p3_table][1] = d
      BY <2>5, <1>5, <1>6
    <3>2. MMU(linked, c) = At(linked, At(linked, p4_table, 0), 1)
      BY <1>1, <3>1, PDWindow
    <3>3. At(linked, p4_table, 0) = p3_table /\ At(linked, p3_table, 1) = d
      BY <3>1, <1>6 DEF At
    <3> QED  BY <3>2, <3>3
  <2>7. e.mem = [linked EXCEPT ![d] = Empty]
    BY <2>4, <2>6 DEF clean_new_table
  <2>8. /\ e.mem[p4_table] = a.mem[p4_table] /\ e.mem[p2_table] = a.mem[p2_table]
        /\ e.mem[p3_table] = linked[p3_table] /\ e.mem[d] = Empty
    BY <2>4, <2>5, <2>7, <1>6, <1>9 DEF Memory
  <2>9. e.mem[p3_table][0] = p2_table /\ e.mem[p3_table][1] = d
    BY <2>5, <2>8, <1>5, <1>6
  <2>10. \A i \in Index : e.mem[d][i] \in Targets(d)
    BY <2>8, <1>8, FrameOfDirectory DEF Empty
  <2> QED  BY <2>4, <2>8, <2>9, <2>10, <1>5, <1>8 DEF Rooted
<1> HIDE DEF d, e
<1>11. Rooted(Stage3(e, p).mem, Stage3(e, p).free, d) /\ Stage3(e, p) \in States
  BY <1>1, <1>10, RootedStage3
<1>12. Turn(s, n) = Stage4(Stage3(e, p), p, k)
  BY <1>3, <1>7, StagesAreAll DEF e
<1>13. Rooted(Turn(s, n).mem, Turn(s, n).free, d)
  BY <1>1, <1>3, <1>11, <1>12, RootedStage4
<1> QED  BY <1>13

\* The loop over the pages of a region.
LEMMA RootedArea ==
  ASSUME NEW s \in States, NEW d, Rooted(s.mem, s.free, d),
         NEW first \in Nat, NEW n \in Nat, first + n <= MaxPages
  PROVE  Rooted(Area(s, first, n).mem, Area(s, first, n).free, d)
<1> DEFINE T == [k \in Nat |-> {t \in States : Rooted(t.mem, t.free, d)}]
<1>1. ASSUME NEW k \in 0 .. n - 1, NEW t \in T[k]
      PROVE  Turn(t, first + k) \in T[k + 1]
  <2>1. first + k \in AreaPages
    BY WidthFacts DEF AreaPages
  <2>2. k \in Nat /\ k + 1 \in Nat
    OBVIOUS
  <2>3. t \in States /\ Rooted(t.mem, t.free, d)
    BY <1>1, <2>2
  <2> DEFINE u == Turn(t, first + k)
  <2>4. u \in States /\ Rooted(u.mem, u.free, d)
    BY <2>1, <2>3, TurnType, RootedTurn
  <2> HIDE DEF u
  <2>5. u \in T[k + 1]
    BY <2>2, <2>4
  <2> QED  BY <2>5 DEF u
<1>2. s \in T[0] /\ T[n] = {t \in States : Rooted(t.mem, t.free, d)}
  OBVIOUS
<1> HIDE DEF T
<1>3. Area(s, first, n) \in T[n]
  BY <1>1, <1>2, AreaInduction
<1> QED  BY <1>2, <1>3

LEMMA RootedFaults ==
  ASSUME NEW d, Rooted(mem, free, d), NEW n \in AreaPages
  PROVE  Faults(PageAt(n))
<1>1. /\ PageAt(n)[1] = 0 /\ PageAt(n)[2] = 1
      /\ d \in Spare /\ p4_table \in Frame /\ p3_table \in Frame /\ p2_table \in Frame
  BY PageAtIs, Frames DEF Rooted
<1>2. PD(mem, PageAt(n)) = d
  BY <1>1 DEF PD, PDPR, At, Rooted
<1>3. d # NONE /\ d \in AreaPages
  BY <1>1, Frames, VmmAssumption DEF AreaPages
<1> DEFINE a == d \div W
           b == d % W
<1>4. a \in Index /\ b \in Index /\ d = a * W + b
  BY <1>3, PageAtIs
<1>5. a > 1 /\ a # FB_SLOT
  <2>1. W \in Nat /\ a \in Nat /\ b \in 0 .. W - 1
    BY <1>4, WidthFacts DEF Index
  <2> HIDE DEF a, b
  <2>2. a # FB_SLOT
    <3>1. FB_SLOT \in Nat /\ FB_SLOT * W \in Nat
      BY <2>1, PagingAssumption DEF PD_LOOP_LIMIT, TOP
    <3>2. a = FB_SLOT => d \in FB_SLOT * W .. FB_SLOT * W + TOP
      BY <1>4, <2>1, <3>1 DEF TOP
    <3> QED  BY <3>2, <1>1, VmmAssumption
  <2>3. a > 1
    <3> SUFFICES ASSUME a \in {0, 1}
                 PROVE  FALSE
      BY <2>1
    <3>1. d \in 0 .. 2 * W - 1
      BY <1>4, <2>1
    <3> QED  BY <3>1, <1>1, PagingAssumption DEF IdentityMapped, PD_LOOP_LIMIT
  <2> QED  BY <2>2, <2>3
<1>6. d \div (W * W * W) = 0 /\ (d \div (W * W)) % W = 0 /\ (d \div W) % W = a
  <2>1. \A i, j \in Nat : i < j => i \div j = 0 /\ i % j = i
    OBVIOUS
  <2>2. W \in Nat /\ W >= 4 /\ W * W \in Nat /\ d \in Nat /\ d < W * W
    BY <1>3, WidthFacts DEF AreaPages
  <2>3. \A x \in Nat, w \in Nat : w >= 4 => x <= x * w /\ x * w \in Nat
    OBVIOUS
  <2>4. W * W <= W * W * W /\ W * W * W \in Nat
    BY <2>2, <2>3
  <2>5. d \div (W * W * W) = 0 /\ d \div (W * W) = 0
    BY <2>1, <2>2, <2>4
  <2>6. 0 % W = 0 /\ 0 \in Nat
    BY <2>1, <2>2
  <2>7. a \in Nat /\ a < W
    BY <1>4, <2>2 DEF Index
  <2> QED  BY <2>1, <2>2, <2>5, <2>6, <2>7
<1>7. MMU(mem, <<0, 0, a, b>>) = NONE
  <2>1. At(mem, At(mem, p4_table, 0), 0) = p2_table
    BY <1>1 DEF At, Rooted
  <2>2. a \in HighSlots
    BY <1>4, <1>5 DEF HighSlots
  <2>3. At(mem, p2_table, a) = NONE
    BY <2>2, <1>1 DEF At, Rooted
  <2>4. At(mem, NONE, b) = NONE
    BY Frames DEF At
  <2> HIDE DEF a, b
  <2> QED  BY <2>1, <2>3, <2>4 DEF MMU
<1>8. ~ Readable(d)
  BY <1>6, <1>7 DEF Readable
<1> QED  BY <1>2, <1>3, <1>8 DEF Faults

\* Once there is a region there is the directory.
RootInv == DOMAIN header # {} => \E d : Rooted(mem, free, d)

LEMMA RootInvStep ==
  ASSUME VInv, RootInv, [VmmNext]_vmmVars
  PROVE  RootInv'
<1>1. CASE init_vmm
  <2>1. status = "boot" /\ Becomes(Area(Now, vm_root, 1))
    BY <1>1 DEF init_vmm
  <2>2. Now \in States /\ BootMemory(Now.mem, Now.free, Now.out)
    BY <2>1, NowIs DEF VInv, ListInv
  <2> DEFINE T == [k \in Nat |-> IF k = 0 THEN {Now} ELSE {Turn(Now, 0)}]
             t == Area(Now, vm_root, 1)
  <2>3. \A k \in 0 .. 1 - 1 : \A u \in T[k] : Turn(u, vm_root + k) \in T[k + 1]
    <3>1. ASSUME NEW k \in 0 .. 1 - 1, NEW u \in T[k]
          PROVE  Turn(u, vm_root + k) \in T[k + 1]
      <4>1. k = 0 /\ vm_root + k = 0
        BY DEF vm_root
      <4> QED  BY <4>1
    <3> QED  BY <3>1
  <2>4. Now \in T[0] /\ T[1] = {Turn(Now, 0)}
    OBVIOUS
  <2> HIDE DEF T
  <2>5. t \in T[1]
    BY <2>3, <2>4, AreaInduction DEF vm_root
  <2>6. t = Turn(Now, 0)
    BY <2>4, <2>5
  <2>7. 0 \in AreaPages
    BY WidthFacts DEF AreaPages
  <2>8. \E d : Rooted(t.mem, t.free, d)
    BY <2>2, <2>6, <2>7, RootedFirst
  <2> QED  BY <2>1, <2>8 DEF RootInv, Becomes
<1>2. ASSUME NEW size \in Sizes, vmm_allocate(size)
      PROVE  RootInv'
  <2>1. PICK l, new, n : l = Last /\ new = l + header[l].size /\ n = PagesFor(size + HEADER)
    OBVIOUS
  <2>2. /\ Shape(header) /\ Listed(header) /\ IsLast(header, l)
        /\ n \in Nat /\ n >= 1 /\ new + n <= MaxPages
        /\ Becomes(Area(Now, new, n))
    BY <1>2, <2>1, AllocateIs
  <2>3. new \in Nat
    BY <2>1, <2>2, BehindIsListed
  <2>4. PICK d : Rooted(mem, free, d)
    BY <2>2 DEF RootInv, IsLast
  <2>5. Now \in States /\ Now.mem = mem /\ Now.free = free
    BY NowIs DEF VInv
  <2>6. Rooted(Area(Now, new, n).mem, Area(Now, new, n).free, d)
    BY <2>2, <2>3, <2>4, <2>5, RootedArea
  <2> QED  BY <2>2, <2>6 DEF RootInv, Becomes
<1>3. ASSUME NEW addr, vmm_free(addr)
      PROVE  RootInv'
  BY <1>3, FreeStep DEF RootInv, vars
<1>4. CASE vmm_allocate_wild \/ UNCHANGED vmmVars \/ \E addr : vmm_free_unknown(addr)
  BY <1>4 DEF RootInv, vmm_allocate_wild, vmm_free_unknown, vmmVars, vars
<1> QED  BY <1>1, <1>2, <1>3, <1>4 DEF VmmNext

\* vmm_free of any region is a page fault, after any number of allocations
\* and even when there is no memory left.
THEOREM EveryFreeFaults == VmmSpec => []FreeFaults
<1>1. VmmInit => VInv /\ RootInv
  <2> SUFFICES ASSUME VmmInit
               PROVE  VInv /\ RootInv
    OBVIOUS
  <2>1. VInv /\ DOMAIN header = {}
    BY BootStatus DEF VmmInit
  <2> QED  BY <2>1 DEF RootInv
<1>2. (VInv /\ RootInv) /\ [VmmNext]_vmmVars => (VInv /\ RootInv)'
  BY VmmStep, RootInvStep
<1>3. VInv /\ RootInv => FreeFaults
  <2> SUFFICES ASSUME VInv, RootInv, NEW r \in DOMAIN header
               PROVE  Faults(PageAt(r))
    BY DEF FreeFaults
  <2>1. r \in AreaPages
    BY WidthFacts DEF VInv, ListInv, Shape, AreaPages
  <2> QED  BY <2>1, RootedFaults DEF RootInv
<1> QED  BY <1>1, <1>2, <1>3, PTL DEF VmmSpec

----------------------------------------------------------------------------
(***************************************************************************)
(* Vmm: the pages of the regions have frames.                              *)
(***************************************************************************)
\* The pages of all regions.
Covered(h) == UNION {r .. r + h[r].size - 1 : r \in DOMAIN h}

\* The pages of the area that are mapped are those in S, each to a frame of
\* its own.
Held(m, f, S) ==
  /\ S \subseteq AreaPages
  /\ \A n \in S : MMU(m, PageAt(n)) \in Spare \ f
  /\ \A n, k \in S : MMU(m, PageAt(n)) = MMU(m, PageAt(k)) => n = k
  /\ \A n \in AreaPages \ S : MMU(m, PageAt(n)) = NONE

LEMMA HeldTurn ==
  ASSUME NEW s \in States, HasTree(s.mem, s.free), NEW S, Held(s.mem, s.free, S),
         NEW n \in AreaPages \ S, ~ Turn(s, n).out
  PROVE  /\ HasTree(Turn(s, n).mem, Turn(s, n).free)
         /\ Held(Turn(s, n).mem, Turn(s, n).free, S \cup {n})
<1> DEFINE a == Allocated(s)
           p == PageAt(n)
           k == Lowest(s.free)
           t == Turn(s, n)
<1>1. n \in AreaPages /\ p \in VirtualPage /\ p[1] # SELF /\ Canon(p) = p
  BY PageAtIs, Slots
<1>2. PICK lev : Tree(s.mem, s.free, lev)
  BY DEF HasTree
<1>3. t = map_page(a, p, k)
  BY DEF Turn
<1>4. /\ k \in s.free /\ k \in Spare /\ k # NONE
      /\ \E lev2 : Mapped(a, t, p, k, lev2)
  <2>1. ~ map_page(a, p, k).out
    BY <1>3
  <2> HIDE DEF p
  <2> QED  BY <1>1, <1>2, <1>3, <2>1, FreshPage
<1>5. a \in States /\ a.mem = s.mem /\ a.free = s.free \ {k} /\ s.free \in SUBSET Spare
  <2>1. s.free \in SUBSET Spare
    BY DEF States
  <2> QED  BY <2>1, AllocatedIs
<1>6. t.free \subseteq s.free \ {k}
  <2>1. k \in Entry
    BY <1>5, LowestIsFree
  <2> HIDE DEF a, p, k, t
  <2> QED  BY <1>1, <1>3, <1>5, <2>1, MapPageType
<1> HIDE DEF a, p, k, t
<1>7. PICK lev2 : Mapped(a, t, p, k, lev2)
  BY <1>4
<1>8. HasTree(t.mem, t.free)
  BY <1>7 DEF Mapped, HasTree
<1>9. MMU(s.mem, p) = NONE
  BY <1>1 DEF Held, p
<1>10. MMU(t.mem, p) = k
  BY <1>5, <1>7, <1>9 DEF Mapped
<1>11. ASSUME NEW q \in AreaPages, q # n
       PROVE  MMU(t.mem, PageAt(q)) = MMU(s.mem, PageAt(q))
  <2>1. PageAt(q) \in VirtualPage /\ PageAt(q)[1] # SELF /\ Canon(PageAt(q)) = PageAt(q)
    BY PageAtIs, Slots
  <2>2. PageAt(q) # p
    BY <1>1, <1>11, PageAtIsOne DEF p
  <2>3. Canon(PageAt(q)) # Canon(p)
    BY <1>1, <2>1, <2>2
  <2> QED  BY <1>5, <1>7, <2>1, <2>3 DEF Mapped
<1>12. MMU(t.mem, PageAt(n)) = k
  BY <1>10 DEF p
<1>13. ASSUME NEW q \in S
       PROVE  /\ q \in AreaPages /\ q # n
              /\ MMU(t.mem, PageAt(q)) = MMU(s.mem, PageAt(q))
              /\ MMU(t.mem, PageAt(q)) \in Spare \ s.free
  BY <1>11 DEF Held
<1>14. S \cup {n} \subseteq AreaPages
  BY <1>1 DEF Held
<1>15. \A q \in S \cup {n} : MMU(t.mem, PageAt(q)) \in Spare \ t.free
  BY <1>4, <1>6, <1>12, <1>13
<1>16. \A q, r \in S \cup {n} : MMU(t.mem, PageAt(q)) = MMU(t.mem, PageAt(r)) => q = r
  <2> TAKE q, r \in S \cup {n}
  <2> HAVE MMU(t.mem, PageAt(q)) = MMU(t.mem, PageAt(r))
  <2>1. CASE q \in S /\ r \in S
    BY <2>1, <1>13 DEF Held
  <2>2. CASE q = n \/ r = n
    BY <2>2, <1>4, <1>12, <1>13
  <2> QED  BY <2>1, <2>2
<1>17. \A q \in AreaPages \ (S \cup {n}) : MMU(t.mem, PageAt(q)) = NONE
  BY <1>11 DEF Held
<1>18. Held(t.mem, t.free, S \cup {n})
  BY <1>14, <1>15, <1>16, <1>17 DEF Held
<1> QED  BY <1>8, <1>18 DEF t

\* All frames are found, or the bitmap has run out.
Backed(t, S) == ~ t.out => HasTree(t.mem, t.free) /\ Held(t.mem, t.free, S)

LEMMA BackedArea ==
  ASSUME NEW s \in States, NEW S, Backed(s, S),
         NEW first \in Nat, NEW n \in Nat, first + n <= MaxPages,
         S \cap (first .. first + n - 1) = {}
  PROVE  Backed(Area(s, first, n), S \cup (first .. first + n - 1))
<1> DEFINE P(k) == S \cup (first .. first + k - 1)
           T == [k \in Nat |-> {t \in States : Backed(t, P(k))}]
<1>1. ASSUME NEW k \in 0 .. n - 1, NEW t \in T[k]
      PROVE  Turn(t, first + k) \in T[k + 1]
  <2> DEFINE u == Turn(t, first + k)
             q == first + k
  <2>1. k \in Nat /\ k + 1 \in Nat /\ q \in first .. first + n - 1 /\ q \in AreaPages
    BY WidthFacts DEF AreaPages
  <2>2. t \in States /\ Backed(t, P(k))
    BY <1>1, <2>1
  <2>3. q \notin P(k) /\ P(k + 1) = P(k) \cup {q}
    BY <2>1
  <2>4. u \in States /\ (~ u.out => ~ t.out)
    BY <2>1, <2>2, TurnType
  <2>5. Backed(u, P(k + 1))
    <3> SUFFICES ASSUME ~ u.out
                 PROVE  HasTree(u.mem, u.free) /\ Held(u.mem, u.free, P(k + 1))
      BY DEF Backed
    <3>1. ~ t.out
      BY <2>4
    <3>2. HasTree(t.mem, t.free) /\ Held(t.mem, t.free, P(k))
      BY <2>2, <3>1 DEF Backed
    <3>3. ~ Turn(t, q).out /\ q \in AreaPages \ P(k)
      BY <2>1, <2>3
    <3> HIDE DEF q, P
    <3>4. HasTree(Turn(t, q).mem, Turn(t, q).free)
          /\ Held(Turn(t, q).mem, Turn(t, q).free, P(k) \cup {q})
      BY <2>2, <3>2, <3>3, HeldTurn
    <3>5. P(k + 1) = P(k) \cup {q} /\ u = Turn(t, q)
      BY <2>3 DEF q
    <3> QED  BY <3>4, <3>5
  <2> HIDE DEF u, P
  <2>6. u \in T[k + 1]
    BY <2>1, <2>4, <2>5
  <2> QED  BY <2>6 DEF u
<1>2. P(0) = S
  OBVIOUS
<1>3. s \in T[0] /\ T[n] = {t \in States : Backed(t, P(n))}
  <2> HIDE DEF P
  <2> QED  BY <1>2
<1> HIDE DEF T, P
<1>4. Area(s, first, n) \in T[n]
  BY <1>1, <1>3, AreaInduction
<1>5. Backed(Area(s, first, n), P(n))
  BY <1>3, <1>4
<1> QED  BY <1>5 DEF P

LEMMA BootHoldsNone ==
  ASSUME BootMemory(mem, free, out)
  PROVE  HasTree(mem, free) /\ Held(mem, free, {})
<1>1. PICK c \in Contents : mem = [t \in Frame |-> BootTable(t, c)]
  BY DEF BootMemory
<1>2. HasTree(mem, free)
  <2>1. Tree(mem, Spare, [t \in Frame |-> BootLevel(t)])
    BY <1>1, BootTree
  <2> QED  BY <2>1 DEF BootMemory, HasTree
<1>3. mem[p4_table][0] = p3_table /\ mem[p3_table][1] = NONE
  <2>1. /\ \A i \in Index :
             mem[p4_table][i] = IF i \in {0, TOP} THEN p3_table
                                ELSE IF i = SELF THEN p4_table ELSE NONE
        /\ \A i \in Index :
             mem[p3_table][i] = IF i \in {0, TOP - 1} THEN p2_table ELSE NONE
    BY <1>1, BootTables
  <2>2. 1 \in Index /\ 1 \notin {0, TOP - 1}
    BY WidthFacts
  <2> QED  BY <2>1, <2>2, Slots
<1>4. ASSUME NEW n \in AreaPages
      PROVE  MMU(mem, PageAt(n)) = NONE
  <2>1. PageAt(n)[1] = 0 /\ PageAt(n)[2] = 1
    BY PageAtIs
  <2>2. At(mem, p4_table, PageAt(n)[1]) = p3_table
    BY <1>3, <2>1, Frames DEF At
  <2>3. At(mem, p3_table, PageAt(n)[2]) = NONE
    BY <1>3, <2>1, Frames DEF At
  <2>4. \A i : At(mem, NONE, i) = NONE
    BY Frames DEF At
  <2> QED  BY <2>2, <2>3, <2>4 DEF MMU
<1> QED  BY <1>2, <1>4 DEF Held

\* All pages of all regions have frames, until the bitmap has run out.
BackedInv == ~ out => HasTree(mem, free) /\ Held(mem, free, Covered(header))

LEMMA BackedStep ==
  ASSUME VInv, BackedInv, [VmmNext]_vmmVars
  PROVE  BackedInv'
<1>1. Now \in States /\ Now.mem = mem /\ Now.free = free /\ Now.out = out
  BY NowIs DEF VInv
<1>2. ASSUME NEW S, NEW S2, Backed(Now, S), NEW first \in Nat, NEW n \in Nat,
             first + n <= MaxPages, S \cap (first .. first + n - 1) = {},
             S2 = S \cup (first .. first + n - 1),
             Becomes(Area(Now, first, n)), Covered(header') = S2
      PROVE  BackedInv'
  <2> DEFINE t == Area(Now, first, n)
  <2>1. Backed(t, S2)
    BY <1>1, <1>2, BackedArea
  <2>2. mem' = t.mem /\ free' = t.free /\ out' = t.out
    BY <1>2 DEF Becomes
  <2> HIDE DEF t
  <2> QED  BY <2>1, <2>2, <1>2 DEF BackedInv, Backed
<1>3. CASE init_vmm
  <2>1. /\ status = "boot" /\ Becomes(Area(Now, vm_root, 1))
        /\ \E n \in {NULL, WILD} : header' = [r \in {vm_root} |-> [next |-> n, size |-> 1]]
    BY <1>3 DEF init_vmm
  <2>2. Backed(Now, {})
    BY <1>1, <2>1, BootHoldsNone DEF Backed, VInv, ListInv
  <2>3. DOMAIN header' = {vm_root} /\ header'[vm_root].size = 1
    BY <2>1
  <2>4. Covered(header') = vm_root .. vm_root + 1 - 1
    BY <2>3 DEF Covered
  <2>5. vm_root \in Nat /\ vm_root + 1 <= MaxPages
    BY WidthFacts DEF vm_root
  <2> DEFINE first == vm_root
             n == 1
             S2 == first .. first + n - 1
  <2>6. /\ first \in Nat /\ n \in Nat /\ first + n <= MaxPages
        /\ Becomes(Area(Now, first, n)) /\ Covered(header') = S2
    BY <2>1, <2>4, <2>5
  <2>7. {} \cap (first .. first + n - 1) = {} /\ S2 = {} \cup (first .. first + n - 1)
    OBVIOUS
  <2> HIDE DEF first, n, S2, Covered
  <2> QED  BY <1>2, <2>2, <2>6, <2>7
<1>4. ASSUME NEW size \in Sizes, vmm_allocate(size)
      PROVE  BackedInv'
  <2>1. PICK l, new, n : l = Last /\ new = l + header[l].size /\ n = PagesFor(size + HEADER)
    OBVIOUS
  <2>2. /\ Shape(header) /\ Listed(header) /\ IsLast(header, l)
        /\ n \in Nat /\ n >= 1 /\ new + n <= MaxPages /\ ~ out
        /\ Becomes(Area(Now, new, n))
        /\ header' = Behind(header, l, new, n)
    BY <1>4, <2>1, AllocateIs
  <2>3. /\ new \in Nat /\ new \notin DOMAIN header
        /\ header'[new].size = n
        /\ \A r \in DOMAIN header : header'[r].size = header[r].size
    BY <2>1, <2>2, BehindIsListed
  <2>4. DOMAIN header' = DOMAIN header \cup {new}
    <3>1. DOMAIN Behind(header, l, new, n) = DOMAIN header \cup {new}
      BY DEF Behind
    <3> QED  BY <3>1, <2>2
  <2>5. Covered(header') = Covered(header) \cup (new .. new + n - 1)
    <3>1. \A r \in DOMAIN header : r .. r + header'[r].size - 1 = r .. r + header[r].size - 1
      BY <2>3
    <3>2. {r .. r + header'[r].size - 1 : r \in DOMAIN header'}
            = {r .. r + header[r].size - 1 : r \in DOMAIN header} \cup {new .. new + n - 1}
      BY <3>1, <2>3, <2>4
    <3> QED  BY <3>2 DEF Covered
  <2>6. Covered(header) \cap (new .. new + n - 1) = {}
    <3>1. ASSUME NEW r \in DOMAIN header, NEW x \in r .. r + header[r].size - 1
          PROVE  x \notin new .. new + n - 1
      <4>1. r \in Nat /\ header[r].size \in Nat /\ r + header[r].size <= new
        BY <2>1, <2>2, WidthFacts DEF Shape, IsLast
      <4> QED  BY <4>1, <3>1, <2>2, <2>3
    <3> QED  BY <3>1 DEF Covered
  <2>7. Backed(Now, Covered(header))
    BY <1>1, <2>2 DEF Backed, BackedInv
  <2> HIDE DEF Covered
  <2> QED  BY <1>2, <2>2, <2>3, <2>5, <2>6, <2>7
<1>5. ASSUME NEW addr, vmm_free(addr)
      PROVE  BackedInv'
  <2>1. /\ DOMAIN header' = DOMAIN header
        /\ \A r \in DOMAIN header : header'[r].size = header[r].size
        /\ mem' = mem /\ free' = free /\ out' = out
    BY <1>5, FreeStep DEF vars
  <2>2. Covered(header') = Covered(header)
    BY <2>1 DEF Covered
  <2> QED  BY <2>1, <2>2 DEF BackedInv
<1>6. CASE vmm_allocate_wild \/ UNCHANGED vmmVars \/ \E addr : vmm_free_unknown(addr)
  <2>1. mem' = mem /\ free' = free /\ out' = out /\ header' = header
    BY <1>6 DEF vmm_allocate_wild, vmm_free_unknown, vmmVars, vars
  <2> QED  BY <2>1 DEF BackedInv
<1> QED  BY <1>3, <1>4, <1>5, <1>6 DEF VmmNext

\* vmm_allocate_area maps every page of every region to a frame no other page
\* of the area has, and a block lies behind its header in its own pages.
THEOREM EveryRegionIsBacked == VmmSpec => []RegionsAreBacked
<1>1. VmmInit => VInv /\ BackedInv
  <2> SUFFICES ASSUME VmmInit
               PROVE  VInv /\ BackedInv
    OBVIOUS
  <2>1. VInv /\ status = "boot"
    BY BootStatus DEF VmmInit
  <2>2. BootMemory(mem, free, out) /\ DOMAIN header = {}
    BY <2>1 DEF VInv, ListInv
  <2>3. Covered(header) = {}
    BY <2>2 DEF Covered
  <2> QED  BY <2>1, <2>2, <2>3, BootHoldsNone DEF BackedInv
<1>2. (VInv /\ BackedInv) /\ [VmmNext]_vmmVars => (VInv /\ BackedInv)'
  BY VmmStep, BackedStep
<1>3. VInv /\ BackedInv => RegionsAreBacked
  <2> SUFFICES ASSUME VInv, BackedInv, ~ out
               PROVE  /\ \A n \in Covered(header) : MMU(mem, PageAt(n)) \in Spare \ free
                      /\ \A n, k \in Covered(header) :
                           MMU(mem, PageAt(n)) = MMU(mem, PageAt(k)) => n = k
                      /\ BlocksLie(header, blocks)
    BY DEF RegionsAreBacked, Covered, BlocksLie
  <2> QED  BY DEF BackedInv, Held, VInv, ListInv
<1> QED  BY <1>1, <1>2, <1>3, PTL DEF VmmSpec
=============================================================================
