---------------------------- MODULE StacksProofs ---------------------------
(***************************************************************************)
(* The properties of Stacks, proved for every layout of the records and    *)
(* frames, every size of stacks, any number of tasks and all depths the    *)
(* stacks have room for.                                                   *)
(***************************************************************************)
EXTENDS Stacks, TLAPS

\* What lies between the record of a task and the end of its stack space.
Above == RECORD + HDR + FRAME + HDR

LEMMA Sizes ==
  /\ HDR \in Nat /\ TABLE \in Nat /\ RECORD \in Nat /\ CONTEXT_AT \in Nat /\ FRAME \in Nat
  /\ IRET_AT \in Nat /\ STACK \in Nat /\ START \in Nat /\ HANDLER \in Nat
  /\ STATUS <= CONTEXT_AT /\ CONTEXT_AT + POINTER = RECORD /\ IRET_AT < FRAME
  /\ NumTasks \in Nat \ {0} /\ Depths \cup {0} \subseteq Nat
  /\ \A d \in Depths \cup {0} : d + 16 + FRAME + HANDLER <= STACK
  /\ PerTask \in Nat /\ PerTask = HDR + Above + STACK
BY StacksAssumption DEF PerTask, StackSize, Above, STATUS, POINTER

LEMMA Places ==
  ASSUME NEW t \in Tasks
  PROVE  /\ RecordOf(t) \in Nat /\ StackOf(t) \in Nat
         /\ START + HDR + TABLE + HDR <= RecordOf(t)
         /\ StackOf(t) = RecordOf(t) + Above
         /\ \A h \in HeadersOf(t) : h \in Int /\ h + HDR <= StackOf(t)
<1>1. t \in Nat /\ t * PerTask \in Nat
  BY Sizes DEF Tasks
<1> DEFINE off == t * PerTask
<1>2. RecordOf(t) = START + HDR + TABLE + off + HDR
  BY DEF RecordOf
<1>3. off \in Nat
  BY <1>1
<1> HIDE DEF off
<1>4. /\ RecordOf(t) \in Nat
      /\ START + HDR + TABLE + HDR <= RecordOf(t)
  BY <1>2, <1>3, Sizes
<1>5. StackOf(t) = RecordOf(t) + Above /\ StackOf(t) \in Nat
  BY <1>4, Sizes DEF StackOf, ContextOf, Above
<1>6. \A h \in HeadersOf(t) : h \in Int /\ h + HDR <= StackOf(t)
  BY <1>4, Sizes DEF HeadersOf, StackOf, ContextOf
<1> QED  BY <1>4, <1>5, <1>6

LEMMA Order ==
  ASSUME NEW t \in Tasks, NEW u \in Tasks, t < u
  PROVE  StackOf(t) + STACK + HDR <= RecordOf(u)
<1>1. t \in Nat /\ u \in Nat /\ t + 1 <= u
  BY Sizes DEF Tasks
<1>2. (t + 1) * PerTask <= u * PerTask
  BY <1>1, Sizes
<1>3. (t + 1) * PerTask = t * PerTask + PerTask /\ t * PerTask \in Nat /\ u * PerTask \in Nat
  BY <1>1, Sizes
<1> DEFINE a == t * PerTask
           b == u * PerTask
<1>4. a + PerTask <= b /\ a \in Nat /\ b \in Nat
  BY <1>2, <1>3
<1>5. /\ RecordOf(t) = START + HDR + TABLE + a + HDR
      /\ RecordOf(u) = START + HDR + TABLE + b + HDR
  BY DEF RecordOf
<1> HIDE DEF a, b
<1>6. StackOf(t) = RecordOf(t) + Above
  BY Places
<1> QED  BY <1>4, <1>5, <1>6, Sizes DEF Above

----------------------------------------------------------------------------
(***************************************************************************)
(* The inductive invariant.  A task that never ran has pushed nothing, one *)
(* that did stays inside its stack block (Confined).  What is damaged of a *)
(* task that waits was hit at a depth where it can be (Where), at which    *)
(* the task still is, and of the task that runs nothing is (Traced).       *)
(***************************************************************************)
Where(what, d) ==
  /\ what \in Parts \cup {"context"}
  /\ what = "context" => d < DownTo(CONTEXT_AT) - FRAME
  /\ what = "handler" => d < DownTo(0) - FRAME
  /\ what = "registers" =>
       DownTo(RECORD) - FRAME - 15 < d /\ d < DownTo(0) - (FRAME - IRET_AT)
  /\ what = "return" =>
       DownTo(RECORD) - (FRAME - IRET_AT) - 15 < d /\ d < DownTo(0)
  /\ what = "data" => DownTo(RECORD) < d

Confined ==
  \A t \in Tasks :
    /\ low[t] \in Int /\ StackOf(t) - STACK < low[t] /\ low[t] <= StackOf(t)
    /\ t \notin entered => low[t] = StackOf(t)

Traced ==
  /\ \A t \in Tasks : \A what \in damage[t] : Where(what, depth[t])
  /\ damage[current] = {}

IInv ==
  /\ created \in 0 .. NumTasks /\ current \in Tasks
  /\ depth \in [Tasks -> Depths \cup {0}]
  /\ DOMAIN low = Tasks
  /\ entered \subseteq Tasks \ {0} /\ DOMAIN damage = Tasks
  /\ early \in BOOLEAN
  /\ current # 0 => current \in entered
  /\ created > 0 => current < created
  /\ entered # {} /\ created < NumTasks => early
  /\ Confined
  /\ Traced
  /\ HeapHolds /\ DamageDependsOnDepth


LEMMA IInvInit == Init => IInv
<1> SUFFICES ASSUME Init
             PROVE  IInv
  OBVIOUS
<1>1. Confined
  <2>1. \A t \in Tasks : StackOf(t) \in Nat /\ StackOf(t) - STACK < StackOf(t)
    BY Places, Sizes
  <2> QED  BY <2>1 DEF Init, Confined
<1>2. HeapHolds /\ DamageDependsOnDepth
  BY DEF Init, HeapHolds, DamageDependsOnDepth, NotStopped
<1>3. 0 \in Tasks /\ 0 \in 0 .. NumTasks
  BY Sizes DEF Tasks
<1>4. /\ created = 0 /\ current = 0 /\ entered = {} /\ DOMAIN damage = Tasks /\ early = FALSE
      /\ depth \in [Tasks -> Depths \cup {0}] /\ DOMAIN low = Tasks
  BY DEF Init
<1>5. Traced
  BY <1>3 DEF Init, Traced
<1> QED  BY <1>1, <1>2, <1>3, <1>4, <1>5 DEF IInv

\* A chain that is broken was broken by a task that ran.
LEMMA CreateKeeps == IInv /\ create_process => IInv'
<1> SUFFICES ASSUME IInv, create_process
             PROVE  IInv'
  OBVIOUS
<1>1. /\ UNCHANGED <<current, depth, low, entered, damage, early>>
      /\ current = 0 /\ created < NumTasks /\ stopped = NotStopped
      /\ \/ created' = created + 1 /\ UNCHANGED stopped
         \/ ~ChainHolds /\ stopped' = [why |-> "heap", depth |-> 0] /\ UNCHANGED created
  BY DEF create_process, Stops
<1>2. created' \in 0 .. NumTasks /\ created <= created' /\ (created' > 0 => current < created')
  BY <1>1, Sizes DEF IInv
<1>3. Confined' /\ Traced'
  BY <1>1 DEF IInv, Confined, Traced
<1>4. ASSUME ~ChainHolds
      PROVE  entered # {}
  <2>1. PICK t \in 0 .. created - 1 :
          \E h \in HeadersOf(t) : Overlap(h, HDR, low[t], StackOf(t) - low[t])
    BY <1>4 DEF ChainHolds
  <2>2. PICK h \in HeadersOf(t) : Overlap(h, HDR, low[t], StackOf(t) - low[t])
    BY <2>1
  <2>3. t \in Tasks
    BY <1>1, Sizes DEF IInv, Tasks
  <2>4. h \in Int /\ h + HDR <= StackOf(t) /\ StackOf(t) \in Nat
    BY <2>2, <2>3, Places
  <2>5. low[t] # StackOf(t)
    BY <2>2, <2>4, Sizes DEF Overlap
  <2> QED  BY <2>3, <2>5 DEF IInv, Confined
<1>5. HeapHolds'
  BY <1>1, <1>4 DEF IInv, HeapHolds, NotStopped
<1>6. DamageDependsOnDepth'
  BY <1>1 DEF DamageDependsOnDepth, NotStopped
<1>7. entered' # {} /\ created' < NumTasks => early'
  BY <1>1, <1>2, Sizes DEF IInv
<1> QED  BY <1>1, <1>2, <1>3, <1>5, <1>6, <1>7 DEF IInv

LEMMA RunKeeps ==
  ASSUME IInv, NEW t \in Tasks, NEW d \in Depths, run(t, d)
  PROVE  IInv'
<1>1. /\ stopped = NotStopped /\ current = t /\ t # 0
      /\ depth' = [depth EXCEPT ![t] = d]
      /\ low' = [low EXCEPT ![t] = Least(low[t], StackOf(t) - d)]
      /\ UNCHANGED <<created, current, entered, damage, early, stopped>>
  BY DEF run
<1>2. t \in entered /\ damage[t] = {}
  BY <1>1 DEF IInv, Traced
<1>3. Confined'
  <2>1. /\ d \in Nat /\ d + 16 + FRAME + HANDLER <= STACK
        /\ FRAME \in Nat /\ HANDLER \in Nat /\ STACK \in Nat /\ StackOf(t) \in Nat
    BY Sizes, Places
  <2>2. low[t] \in Int /\ StackOf(t) - STACK < low[t] /\ low[t] <= StackOf(t)
    BY DEF IInv, Confined
  <2>3. LET l == Least(low[t], StackOf(t) - d)
        IN  l \in Int /\ StackOf(t) - STACK < l /\ l <= StackOf(t)
    BY <2>1, <2>2 DEF Least
  <2>4. low'[t] = Least(low[t], StackOf(t) - d) /\ \A u \in Tasks \ {t} : low'[u] = low[u]
    BY <1>1 DEF IInv
  <2> QED  BY <1>1, <1>2, <2>3, <2>4 DEF IInv, Confined
<1>4. Traced'
  <2>1. \A u \in Tasks \ {t} : depth'[u] = depth[u]
    BY <1>1 DEF IInv
  <2> QED  BY <1>1, <1>2, <2>1 DEF IInv, Traced
<1>5. HeapHolds' /\ DamageDependsOnDepth'
  BY <1>1 DEF IInv, HeapHolds, DamageDependsOnDepth
<1> QED  BY <1>1, <1>3, <1>4, <1>5 DEF IInv

\* Where the frame of an interrupted task is, by its depth.
LEMMA FrameIsNear ==
  ASSUME NEW t \in Tasks, depth[t] \in Depths \cup {0}
  PROVE  /\ FrameOf(t) \in Int
         /\ StackOf(t) - depth[t] - 15 <= FrameOf(t) + FRAME
         /\ FrameOf(t) + FRAME <= StackOf(t) - depth[t]
<1> DEFINE sp == StackOf(t) - depth[t]
<1>1. sp \in Int /\ FRAME \in Nat
  BY Sizes, Places
<1> HIDE DEF sp
<1>2. sp % 16 \in 0 .. 15
  BY <1>1
<1>3. FrameOf(t) = sp - (sp % 16) - FRAME
  BY DEF FrameOf, sp
<1>4. /\ FrameOf(t) \in Int /\ sp - 15 <= FrameOf(t) + FRAME /\ FrameOf(t) + FRAME <= sp
  BY <1>1, <1>2, <1>3
<1> QED  BY <1>4 DEF sp

\* What a store into the record hits, and the depths at which it does.
LEMMA FieldHits ==
  ASSUME NEW t \in Tasks, depth[t] \in Depths \cup {0},
         NEW f \in Nat, NEW n \in Nat, RecordOf(t) <= f, f + n <= RecordOf(t) + RECORD,
         NEW part \in Hits(t, f, n)
  PROVE  Where(part, depth[t])
<1> DEFINE F == FrameOf(t)
           S == StackOf(t)
           R == RecordOf(t)
           d == depth[t]
<1>1. /\ F \in Int /\ d \in Nat /\ R \in Nat /\ S = R + Above
      /\ S - d - 15 <= F + FRAME /\ F + FRAME <= S - d
  BY FrameIsNear, Sizes, Places
<1>2. part \in Parts /\ Overlap(f, n, From(t)[part], Size(t)[part])
  BY DEF Hits
<1>3. \A x \in Nat : DownTo(x) = Above - x
  BY Sizes DEF DownTo, Above
<1>4. Above \in Nat /\ RECORD \in Nat /\ FRAME \in Nat /\ IRET_AT \in Nat /\ HANDLER \in Nat
      /\ IRET_AT < FRAME
  BY Sizes DEF Above
<1>5. R <= f /\ f + n <= R + RECORD
  OBVIOUS
<1>6. /\ DownTo(0) = Above /\ DownTo(RECORD) = Above - RECORD
  BY <1>3, <1>4
<1>7. CASE part = "handler"
  <2>1. f < F - HANDLER + HANDLER
    BY <1>2, <1>7 DEF Overlap, From, Size
  <2>2. d < Above - FRAME
    <3> HIDE DEF F, S, R, d
    <3> QED  BY <1>1, <1>4, <1>5, <2>1
  <2> QED  BY <1>6, <1>7, <2>2 DEF Where, Parts
<1>8. CASE part = "registers"
  <2>1. f < F + IRET_AT /\ F < f + n
    BY <1>2, <1>8 DEF Overlap, From, Size
  <2>2. Above - RECORD - FRAME - 15 < d /\ d < Above - (FRAME - IRET_AT)
    <3> HIDE DEF F, S, R, d
    <3> QED  BY <1>1, <1>4, <1>5, <2>1
  <2> QED  BY <1>6, <1>8, <2>2 DEF Where, Parts
<1>9. CASE part = "return"
  <2>1. f < F + IRET_AT + (FRAME - IRET_AT) /\ F + IRET_AT < f + n
    BY <1>2, <1>9 DEF Overlap, From, Size
  <2>2. Above - RECORD - (FRAME - IRET_AT) - 15 < d /\ d < Above
    <3> HIDE DEF F, S, R, d
    <3> QED  BY <1>1, <1>4, <1>5, <2>1
  <2> QED  BY <1>6, <1>9, <2>2 DEF Where, Parts
<1>10. CASE part = "data"
  <2>1. S - d < f + n
    BY <1>2, <1>10 DEF Overlap, From, Size
  <2>2. Above - RECORD < d
    <3> HIDE DEF F, S, R, d
    <3> QED  BY <1>1, <1>4, <1>5, <2>1
  <2> QED  BY <1>6, <1>10, <2>2 DEF Where, Parts
<1> QED  BY <1>2, <1>7, <1>8, <1>9, <1>10 DEF Parts

LEMMA HitsTellDepth ==
  ASSUME NEW t \in Tasks, depth[t] \in Depths \cup {0}
  PROVE  /\ \A part \in BySave(t) \cup ByChoice(t) : Where(part, depth[t])
         /\ InHandler(t) => Where("context", depth[t])
<1>1. /\ FrameOf(t) \in Int /\ depth[t] \in Nat /\ RecordOf(t) \in Nat
      /\ StackOf(t) = RecordOf(t) + Above
      /\ FrameOf(t) + FRAME <= StackOf(t) - depth[t]
  BY FrameIsNear, Sizes, Places
<1>2. /\ ContextField(t) = RecordOf(t) + CONTEXT_AT /\ ContextField(t) \in Nat
      /\ ContextField(t) + POINTER = RecordOf(t) + RECORD
      /\ RecordOf(t) <= ContextField(t) /\ RecordOf(t) + STATUS <= RecordOf(t) + RECORD
      /\ POINTER \in Nat /\ STATUS \in Nat
  BY <1>1, Sizes DEF ContextField, POINTER, STATUS
<1>3. \A part \in Hits(t, ContextField(t), POINTER) : Where(part, depth[t])
  BY <1>2, FieldHits
<1>4. \A part \in Hits(t, RecordOf(t), STATUS) : Where(part, depth[t])
  BY <1>1, <1>2, FieldHits
<1>5. InHandler(t) => Where("context", depth[t])
  <2> SUFFICES ASSUME InHandler(t)
               PROVE  depth[t] < DownTo(CONTEXT_AT) - FRAME
    BY DEF Where
  <2> QED  BY <1>1, <1>2, Sizes DEF InHandler, DownTo, Above
<1> QED  BY <1>3, <1>4, <1>5 DEF BySave, ByChoice

LEMMA TurnInRange ==
  ASSUME NEW n \in Nat \ {0}, NEW c \in 0 .. n - 1
  PROVE  (c + 1) % n \in 0 .. n - 1
BY SMT

LEMMA TickKeeps == IInv /\ schelude => IInv'
<1> SUFFICES ASSUME IInv, schelude
             PROVE  IInv'
  OBVIOUS
<1> DEFINE n == (current + 1) % created
<1> DEFINE hurt == damage[n] \cup ByChoice(n)
<1>1. /\ stopped = NotStopped /\ created > 0
      /\ Pushes(current)
      /\ \E lost \in SUBSET {"context"} :
           /\ lost = {} \/ InHandler(current)
           /\ damage' = [damage EXCEPT
                ![current] = (BySave(current) \ {"handler"}) \cup lost, ![n] = {}]
      /\ current' = n
      /\ entered' = entered \cup ({n} \ {0})
      /\ early' = (early \/ (n # 0 /\ created < NumTasks))
      /\ \/ /\ "handler" \in BySave(current)
            /\ stopped' = [why |-> "handler", depth |-> depth[current]]
         \/ \E what \in hurt : stopped' = [why |-> what, depth |-> depth[n]]
         \/ UNCHANGED stopped
      /\ UNCHANGED <<created, depth>>
  BY DEF schelude, Stops
<1>2. n \in Tasks /\ n < created
  <2>1. created \in Nat \ {0} /\ created <= NumTasks /\ current \in 0 .. created - 1
    BY <1>1, Sizes DEF IInv, Tasks
  <2>2. n \in 0 .. created - 1
    BY <2>1, TurnInRange
  <2> HIDE DEF n
  <2> QED  BY <2>1, <2>2, Sizes DEF Tasks
<1> HIDE DEF n
<1>3. current \in Tasks /\ \A t \in Tasks : depth[t] \in Depths \cup {0}
  BY DEF IInv
<1>4. /\ \A what \in BySave(current) : Where(what, depth[current])
      /\ InHandler(current) => Where("context", depth[current])
      /\ \A what \in ByChoice(n) : Where(what, depth[n])
  BY <1>2, <1>3, HitsTellDepth
<1>5. /\ \A t \in Tasks : \A what \in damage[t] : Where(what, depth[t])
      /\ DOMAIN damage = Tasks
  BY DEF IInv, Traced
<1>6. \A what \in hurt : Where(what, depth[n])
  BY <1>2, <1>4, <1>5
<1>7. DOMAIN damage' = Tasks /\ damage'[n] = {}
  BY <1>1, <1>2, <1>5
<1>8. Traced'
  <2>1. PICK lost \in SUBSET {"context"} :
          /\ lost = {} \/ InHandler(current)
          /\ damage' = [damage EXCEPT
               ![current] = (BySave(current) \ {"handler"}) \cup lost, ![n] = {}]
    BY <1>1
  <2>2. \A what \in lost : Where(what, depth[current])
    BY <1>4, <2>1
  <2>3. ASSUME NEW t \in Tasks, NEW what \in damage'[t]
        PROVE  Where(what, depth[t])
    <3>1. CASE t = n
      BY <1>7, <2>3, <3>1
    <3>2. CASE t # n /\ t = current
      <4>1. damage'[t] = (BySave(current) \ {"handler"}) \cup lost
        BY <1>3, <1>5, <2>1, <3>2
      <4> QED  BY <1>4, <2>2, <2>3, <3>2, <4>1
    <3>3. CASE t # n /\ t # current
      <4>1. damage'[t] = damage[t]
        BY <1>5, <2>1, <3>3
      <4> QED  BY <1>5, <2>3, <4>1
    <3> QED  BY <3>1, <3>2, <3>3
  <2>4. depth' = depth /\ current' = n
    BY <1>1
  <2>5. \A t \in Tasks : \A what \in damage'[t] : Where(what, depth'[t])
    BY <2>3, <2>4
  <2> QED  BY <1>7, <2>4, <2>5 DEF Traced, Where
<1>9. DOMAIN low' = Tasks /\ Confined'
  <2>1. CASE current = 0
    <3>1. low' = low
      BY <1>1, <2>1 DEF Pushes
    <3> QED  BY <1>1, <3>1 DEF IInv, Confined
  <2>2. CASE current # 0
    <3> DEFINE l == Least(low[current], FrameOf(current) - HANDLER)
    <3>1. low' = [low EXCEPT ![current] = l]
      BY <1>1, <2>2 DEF Pushes
    <3>2. /\ low[current] \in Int /\ StackOf(current) - STACK < low[current]
          /\ low[current] <= StackOf(current) /\ current \in entered
      BY <2>2 DEF IInv, Confined
    <3>3. /\ depth[current] \in Nat /\ depth[current] + 16 + FRAME + HANDLER <= STACK
          /\ FRAME \in Nat /\ HANDLER \in Nat /\ STACK \in Nat /\ StackOf(current) \in Nat
      BY <1>3, Sizes, Places
    <3>4. /\ FrameOf(current) \in Int
          /\ StackOf(current) - depth[current] - 15 <= FrameOf(current) + FRAME
      BY <1>3, FrameIsNear
    <3>5. l \in Int /\ StackOf(current) - STACK < l /\ l <= StackOf(current)
      BY <3>2, <3>3, <3>4 DEF Least
    <3>6. low'[current] = l /\ \A t \in Tasks \ {current} : low'[t] = low[t]
      BY <1>3, <3>1 DEF IInv
    <3> HIDE DEF l
    <3> QED  BY <1>1, <1>3, <3>1, <3>2, <3>5, <3>6 DEF IInv, Confined
  <2> QED  BY <2>1, <2>2
<1>10. /\ entered' \subseteq Tasks \ {0}
       /\ current' # 0 => current' \in entered'
       /\ current' < created'
       /\ early' \in BOOLEAN
       /\ entered' # {} /\ created' < NumTasks => early'
  BY <1>1, <1>2 DEF IInv
<1>11. HeapHolds'
  <2>1. \A what \in hurt : what # "heap"
    BY <1>6 DEF Where, Parts
  <2> HIDE DEF hurt
  <2> QED  BY <1>1, <2>1 DEF HeapHolds, NotStopped
<1>12. DamageDependsOnDepth'
  <2>1. CASE \E what, d : Where(what, d) /\ stopped' = [why |-> what, depth |-> d]
    <3>1. PICK what, d : Where(what, d) /\ stopped' = [why |-> what, depth |-> d]
      BY <2>1
    <3>2. stopped'.why = what /\ stopped'.depth = d
      BY <3>1
    <3> QED  BY <3>1, <3>2 DEF DamageDependsOnDepth, Where, DownTo
  <2>2. CASE "handler" \in BySave(current) /\ stopped' = [why |-> "handler", depth |-> depth[current]]
    BY <1>4, <2>1, <2>2
  <2>3. CASE \E what \in hurt : stopped' = [why |-> what, depth |-> depth[n]]
    BY <1>6, <2>1, <2>3
  <2>4. CASE stopped' = stopped
    BY <1>1, <2>4 DEF DamageDependsOnDepth, NotStopped
  <2> QED  BY <1>1, <2>2, <2>3, <2>4
<1>13. current' \in Tasks /\ created' \in 0 .. NumTasks
       /\ depth' \in [Tasks -> Depths \cup {0}]
  BY <1>1, <1>2 DEF IInv
<1> QED  BY <1>7, <1>8, <1>9, <1>10, <1>11, <1>12, <1>13 DEF IInv

LEMMA IInvNext == IInv /\ [Next]_vars => IInv'
<1> SUFFICES ASSUME IInv, [Next]_vars
             PROVE  IInv'
  OBVIOUS
<1>1. CASE UNCHANGED vars
  BY <1>1 DEF vars, IInv, Confined, Traced, HeapHolds, DamageDependsOnDepth
<1> QED  BY <1>1, CreateKeeps, RunKeeps, TickKeeps DEF Next

LEMMA Invariance == Spec => []IInv
BY IInvInit, IInvNext, PTL DEF Spec

----------------------------------------------------------------------------
\* The stacks of tasks keep to the blocks alloc_stack made for them.
THEOREM StacksAreApart == Spec => []StacksKeepApart
<1>1. IInv => StacksKeepApart
  <2> SUFFICES ASSUME IInv, NEW t \in entered
               PROVE  /\ \A u \in Tasks \ {t} :
                           /\ ~Overlap(low[t], StackOf(t) - low[t], low[u], StackOf(u) - low[u])
                           /\ ~Overlap(low[t], StackOf(t) - low[t], RecordOf(u), RECORD)
                      /\ ~Overlap(low[t], StackOf(t) - low[t], START + HDR, TABLE)
    BY DEF StacksKeepApart
  <2>1. t \in Tasks /\ t # 0 /\ t \in Nat
    BY Sizes DEF IInv, Tasks
  <2>2. \A u \in Tasks : /\ low[u] \in Int /\ StackOf(u) - STACK < low[u] /\ low[u] <= StackOf(u)
                         /\ RecordOf(u) \in Nat /\ StackOf(u) \in Nat
                         /\ StackOf(u) = RecordOf(u) + Above
    BY Places DEF IInv, Confined
  <2>3. Above \in Nat /\ RECORD <= Above /\ RECORD \in Nat /\ HDR \in Nat /\ STACK \in Nat
        /\ START \in Nat /\ TABLE \in Nat
    BY Sizes DEF Above
  <2>4. ASSUME NEW u \in Tasks \ {t}
        PROVE  /\ ~Overlap(low[t], StackOf(t) - low[t], low[u], StackOf(u) - low[u])
               /\ ~Overlap(low[t], StackOf(t) - low[t], RecordOf(u), RECORD)
    <3>1. u \in Nat /\ (t < u \/ u < t)
      BY <2>1, Sizes DEF Tasks
    <3>2. CASE t < u
      <4>1. StackOf(t) + STACK + HDR <= RecordOf(u)
        BY <2>1, <3>2, Order
      <4> QED  BY <2>1, <2>2, <2>3, <4>1 DEF Overlap
    <3>3. CASE u < t
      <4>1. StackOf(u) + STACK + HDR <= RecordOf(t)
        BY <2>1, <3>3, Order
      <4> QED  BY <2>1, <2>2, <2>3, <4>1 DEF Overlap
    <3> QED  BY <3>1, <3>2, <3>3
  <2>5. ~Overlap(low[t], StackOf(t) - low[t], START + HDR, TABLE)
    <3>1. 0 \in Tasks /\ 0 < t
      BY <2>1, Sizes DEF Tasks
    <3>2. StackOf(0) + STACK + HDR <= RecordOf(t)
      BY <2>1, <3>1, Order
    <3>3. START + HDR + TABLE + HDR <= RecordOf(0)
      BY <3>1, Places
    <3> QED  BY <2>1, <2>2, <2>3, <3>1, <3>2, <3>3 DEF Overlap
  <2> QED  BY <2>4, <2>5
<1> QED  BY <1>1, Invariance, PTL

\* create_process finds the heap's chain broken only behind an early tick.
THEOREM ChainBreaksEarly == Spec => []HeapHolds
BY Invariance, PTL DEF IInv

\* For each way in which a tick may cost the kernel a task, the depths at which
\* it can, for every layout of record and frame.
THEOREM DepthDecides == Spec => []DamageDependsOnDepth
BY Invariance, PTL DEF IInv
=============================================================================
