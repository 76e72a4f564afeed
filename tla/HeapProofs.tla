----------------------------- MODULE HeapProofs -----------------------------
(***************************************************************************)
(* The properties of KHeap and HeapPages, proved for every size of header  *)
(* and page, all sizes clients ask for and everything their data may read  *)
(* as.  The argument is about the chain: the set C of nodes a search goes  *)
(* through.                                                                *)
(***************************************************************************)
EXTENDS HeapPages, TLAPS

After(a) == NextOf(a, headers[a])

\* The chain starts at 0, goes up and ends behind heap_head.
Linked(C) ==
  /\ C \subseteq DOMAIN headers
  /\ heap_head > 0 => 0 \in C
  /\ \A a \in C : a < heap_head /\ (After(a) \in C \/ After(a) >= heap_head)
  /\ \A a, b \in C : a < b => After(a) <= b

\* Every block is the payload of a node of the chain, and holds no header.
Held(C) ==
  \A p \in DOMAIN live :
    /\ p - HDR \in C
    /\ headers[p - HDR].status = USED
    /\ headers[p - HDR].size >= live[p]
    /\ \A a \in DOMAIN headers : a + HDR <= p \/ p + live[p] <= a

NoTwoHoles(C) ==
  \A a, b \in C :
    After(a) = b => ~(headers[a].status = FREE /\ headers[b].status = FREE)

\* A search is at a node, or behind the last one.
Searching(C) ==
  pc # "idle" =>
    \/ current \in C
    \/ /\ current >= heap_head
       /\ \/ C = {} /\ current = 0
          \/ \E l \in C : After(l) = current

\* kfree knows the node in front of the one it is at, and has not passed the
\* one it looks for.
Seeking(C) ==
  pc = "kfree" =>
    /\ \/ previous = NULL /\ current = 0
       \/ previous \in C /\ After(previous) = current
    /\ arg \in DOMAIN live => arg - HDR >= current

Sound(C) == Linked(C) /\ Held(C) /\ NoTwoHoles(C) /\ Searching(C) /\ Seeking(C)

IInv == TypeOK /\ \E C \in SUBSET DOMAIN headers : Sound(C)

----------------------------------------------------------------------------
(***************************************************************************)
(* What writing a header, and filling a block, does to the headers.        *)
(***************************************************************************)
LEMMA WithoutIs ==
  ASSUME NEW hs, NEW first, NEW last
  PROVE  /\ \A x : x \in DOMAIN Without(hs, first, last)
                   <=> x \in DOMAIN hs /\ (x + HDR <= first \/ last < x)
         /\ \A x \in DOMAIN Without(hs, first, last) :
              Without(hs, first, last)[x] = hs[x]
<1> DEFINE S == {x \in DOMAIN hs : x + HDR <= first \/ last < x}
<1>1. Without(hs, first, last) = [a \in S |-> hs[a]]
  BY DEF Without
<1> HIDE DEF S
<1>2. /\ DOMAIN Without(hs, first, last) = S
      /\ \A x \in S : Without(hs, first, last)[x] = hs[x]
  BY <1>1
<1> QED  BY <1>2 DEF S

LEMMA WriteIs ==
  ASSUME NEW hs, NEW a, NEW size, NEW status
  PROVE  /\ \A x : x \in DOMAIN Write(hs, a, size, status)
                   <=> \/ x \in DOMAIN hs /\ (x + HDR <= a \/ a + HDR - 1 < x)
                       \/ x = a
         /\ Write(hs, a, size, status)[a] = [size |-> size, status |-> status]
         /\ \A x \in DOMAIN Write(hs, a, size, status) :
              x # a => Write(hs, a, size, status)[x] = hs[x]
<1> DEFINE rest == Without(hs, a, a + HDR - 1)
           D == DOMAIN rest \cup {a}
<1>1. Write(hs, a, size, status)
        = [x \in D |-> IF x = a THEN [size |-> size, status |-> status] ELSE rest[x]]
  BY DEF Write
<1>2. /\ \A x : x \in DOMAIN rest
                <=> x \in DOMAIN hs /\ (x + HDR <= a \/ a + HDR - 1 < x)
      /\ \A x \in DOMAIN rest : rest[x] = hs[x]
  BY WithoutIs
<1> HIDE DEF rest
<1>3. /\ DOMAIN Write(hs, a, size, status) = D
      /\ Write(hs, a, size, status)[a] = [size |-> size, status |-> status]
      /\ \A x \in D : x # a => Write(hs, a, size, status)[x] = rest[x]
  BY <1>1
<1> QED  BY <1>2, <1>3

LEMMA ReadsIs ==
  ASSUME TypeOK, NEW a
  PROVE  /\ a \in DOMAIN headers => Reads(a) = {headers[a]}
         /\ \A h \in Reads(a) : h \in Header
<1>1. \A x \in DOMAIN headers : headers[x] \in Header
  BY DEF TypeOK
<1>2. [size : JunkSizes, status : {USED, FREE}] \subseteq Header
  BY HeapAssumption DEF Header
<1> QED  BY <1>1, <1>2 DEF Reads

\* A search stays in the chain, and in front of heap_head it reads the
\* nodes as they were written.
LEMMA AtANode ==
  ASSUME TypeOK, NEW C, Linked(C), Searching(C), pc # "idle", current < heap_head
  PROVE  /\ current \in C
         /\ Reads(current) = {headers[current]}
         /\ headers[current] \in Header
<1>1. current \in C
  BY HeapAssumption DEF Linked, Searching, TypeOK
<1> QED  BY <1>1, ReadsIs DEF Linked, TypeOK

LEMMA AfterIsBehind ==
  ASSUME TypeOK, NEW a \in DOMAIN headers
  PROVE  /\ a \in Nat /\ headers[a].size \in Nat
         /\ headers[a].status \in {USED, FREE}
         /\ NextOf(a, headers[a]) = a + headers[a].size + HDR
         /\ NextOf(a, headers[a]) \in Nat
         /\ a + HDR <= NextOf(a, headers[a])
BY HeapAssumption DEF TypeOK, Header, NextOf

\* Nodes have room for their headers.
LEMMA Apart ==
  ASSUME TypeOK, NEW C, Linked(C), NEW a \in C, NEW b \in C, a # b
  PROVE  a + HDR <= b \/ b + HDR <= a
<1>1. a \in Nat /\ b \in Nat /\ NextOf(a, headers[a]) \in Nat /\ NextOf(b, headers[b]) \in Nat
      /\ a + HDR <= NextOf(a, headers[a]) /\ b + HDR <= NextOf(b, headers[b])
  BY AfterIsBehind DEF Linked
<1>2. (a < b => NextOf(a, headers[a]) <= b) /\ (b < a => NextOf(b, headers[b]) <= a)
  BY DEF Linked, After
<1> QED  BY <1>1, <1>2, HeapAssumption

----------------------------------------------------------------------------
(***************************************************************************)
(* kmalloc appends a node.                                                 *)
(***************************************************************************)
LEMMA ReturnIs ==
  ASSUME NEW a, NEW hs, Return(a, hs)
  PROVE  /\ \A x : x \in DOMAIN headers'
                   <=> x \in DOMAIN hs /\ (x + HDR <= a + HDR \/ a + HDR + arg - 1 < x)
         /\ \A x \in DOMAIN headers' : headers'[x] = hs[x]
<1>1. headers' = Without(hs, a + HDR, a + HDR + arg - 1)
  BY DEF Return
<1> QED  BY <1>1, WithoutIs

LEMMA ReturnGives ==
  ASSUME NEW a, NEW hs, Return(a, hs)
  PROVE  /\ DOMAIN live' = DOMAIN live \cup {a + HDR}
         /\ live'[a + HDR] = arg
         /\ \A p \in DOMAIN live : p # a + HDR => live'[p] = live[p]
         /\ pc' = "idle"
         /\ UNCHANGED <<arg, current, previous>>
<1>1. live' = [p \in DOMAIN live \cup {a + HDR} |->
                 IF p = a + HDR THEN arg ELSE live[p]]
  BY DEF Return
<1> QED  BY <1>1 DEF Return

LEMMA AppendIs ==
  ASSUME TypeOK, kmalloc_append
  PROVE  /\ DOMAIN headers' \subseteq DOMAIN headers \cup {current}
         /\ current \in DOMAIN headers'
         /\ headers'[current] = [size |-> arg, status |-> USED]
         /\ \A x \in DOMAIN headers' : x # current =>
              headers'[x] = headers[x] /\ (x <= current \/ current + HDR + arg <= x)
         /\ \A x \in DOMAIN headers : x + HDR <= current => x \in DOMAIN headers'
<1> DEFINE hs == Write(headers, current, arg, USED)
<1>1. Return(current, hs)
  BY DEF kmalloc_append
<1>2. /\ \A x : x \in DOMAIN hs
                <=> \/ x \in DOMAIN headers
                       /\ (x + HDR <= current \/ current + HDR - 1 < x)
                    \/ x = current
      /\ hs[current] = [size |-> arg, status |-> USED]
      /\ \A x \in DOMAIN hs : x # current => hs[x] = headers[x]
  BY WriteIs
<1> HIDE DEF hs
<1>3. /\ \A x : x \in DOMAIN headers'
                <=> /\ x \in DOMAIN hs
                    /\ x + HDR <= current + HDR \/ current + HDR + arg - 1 < x
      /\ \A x \in DOMAIN headers' : headers'[x] = hs[x]
  BY <1>1, ReturnIs
<1>4. /\ DOMAIN headers \subseteq Nat /\ current \in Nat /\ arg \in Nat
      /\ HDR \in Nat
  BY HeapAssumption DEF TypeOK
<1> QED  BY <1>2, <1>3, <1>4

LEMMA AppendKeeps ==
  ASSUME IInv, kmalloc_append
  PROVE  IInv'
<1>1. PICK C \in SUBSET DOMAIN headers : Sound(C)
  BY DEF IInv
<1>2. TypeOK /\ Linked(C) /\ Held(C) /\ NoTwoHoles(C) /\ Searching(C)
  BY <1>1 DEF IInv, Sound
<1>3. /\ pc = "kmalloc" /\ current >= heap_head /\ heap_head' = current + HDR
      /\ Return(current, Write(headers, current, arg, USED))
  BY DEF kmalloc_append
<1>4. /\ HDR \in Nat \ {0} /\ arg \in Nat /\ arg \in Sizes /\ current \in Nat
      /\ heap_head \in Nat
      /\ USED \in {USED, FREE} /\ USED # FREE
  BY <1>2, <1>3, HeapAssumption DEF TypeOK, USED, FREE
<1>5. /\ DOMAIN headers' \subseteq DOMAIN headers \cup {current}
      /\ current \in DOMAIN headers'
      /\ headers'[current] = [size |-> arg, status |-> USED]
      /\ \A x \in DOMAIN headers' : x # current =>
           headers'[x] = headers[x] /\ (x <= current \/ current + HDR + arg <= x)
      /\ \A x \in DOMAIN headers : x + HDR <= current => x \in DOMAIN headers'
  BY <1>2, AppendIs
<1>6. /\ DOMAIN live' = DOMAIN live \cup {current + HDR}
      /\ live'[current + HDR] = arg
      /\ \A p \in DOMAIN live : p # current + HDR => live'[p] = live[p]
      /\ pc' = "idle"
      /\ UNCHANGED <<arg, current, previous>>
  BY <1>3, ReturnGives
<1>7. PICK D : \A x : x \in D <=> x \in C \/ x = current
  <2> WITNESS C \cup {current}
  <2> QED  OBVIOUS
<1>8. \A x \in C : /\ x \in Nat /\ x < heap_head /\ x # current
                   /\ NextOf(x, headers[x]) <= current /\ x + HDR <= current
                   /\ NextOf(x, headers[x]) \in C \/ NextOf(x, headers[x]) = current
                   /\ x \in DOMAIN headers'
                   /\ headers'[x] = headers[x]
  <2> TAKE x \in C
  <2>1. /\ x \in DOMAIN headers /\ x \in Nat /\ x < heap_head
        /\ NextOf(x, headers[x]) \in Nat /\ x + HDR <= NextOf(x, headers[x])
    BY <1>2, AfterIsBehind DEF Linked
  <2>2. NextOf(x, headers[x]) <= current /\ (NextOf(x, headers[x]) \in C \/ NextOf(x, headers[x]) = current)
    <3>1. C # {} /\ current \notin C
      BY <1>2, <1>3, <1>4 DEF Linked, After
    <3>2. PICK l \in C : NextOf(l, headers[l]) = current
      BY <1>2, <1>3, <3>1 DEF Searching, After
    <3>3. l \in Nat /\ NextOf(l, headers[l]) \in Nat /\ l + HDR <= NextOf(l, headers[l]) /\ l < heap_head
      BY <1>2, AfterIsBehind DEF Linked
    <3>4. x < l => NextOf(x, headers[x]) <= l
      BY <1>2 DEF Linked, After
    <3>5. l < x => NextOf(l, headers[l]) <= x
      BY <1>2 DEF Linked, After
    <3>6. NextOf(x, headers[x]) \in C \/ NextOf(x, headers[x]) >= heap_head
      BY <1>2 DEF Linked, After
    <3> QED  BY <1>3, <1>4, <2>1, <3>2, <3>3, <3>4, <3>5, <3>6
  <2>3. x \in DOMAIN headers' /\ headers'[x] = headers[x] /\ x # current
    BY <1>4, <1>5, <2>1, <2>2
  <2> QED  BY <1>4, <2>1, <2>2, <2>3
<1>9. NextOf(current, headers'[current]) = current + arg + HDR
  BY <1>5, <1>6 DEF NextOf
<1>10. TypeOK'
  <2>1. DOMAIN headers' \subseteq Nat
    BY <1>2, <1>4, <1>5 DEF TypeOK
  <2>2. \A a \in DOMAIN headers' : headers'[a] \in Header
    BY <1>2, <1>4, <1>5 DEF TypeOK, Header
  <2>3. \A p \in DOMAIN live' : p \in Nat /\ live'[p] \in Sizes
    BY <1>2, <1>4, <1>6 DEF TypeOK
  <2> QED  BY <1>2, <1>3, <1>4, <1>6, <2>1, <2>2, <2>3 DEF TypeOK
<1>11. Linked(D)'
  <2>1. D \subseteq DOMAIN headers'
    BY <1>5, <1>7, <1>8
  <2>2. heap_head' > 0 => 0 \in D
    BY <1>2, <1>3, <1>4, <1>7, <1>8 DEF Linked, Searching, After
  <2>3. \A a \in D : a < heap_head' /\ (NextOf(a, headers'[a]) \in D \/ NextOf(a, headers'[a]) >= heap_head')
    <3> SUFFICES ASSUME NEW a \in D
                 PROVE  a < heap_head' /\ (NextOf(a, headers'[a]) \in D \/ NextOf(a, headers'[a]) >= heap_head')
      OBVIOUS
    <3>1. CASE a = current
      BY <1>3, <1>4, <1>9, <3>1
    <3>2. CASE a \in C
      BY <1>3, <1>4, <1>7, <1>8, <3>2
    <3> QED  BY <1>7, <3>1, <3>2
  <2>4. \A a, b \in D : a < b => NextOf(a, headers'[a]) <= b
    <3> SUFFICES ASSUME NEW a \in D, NEW b \in D, a < b
                 PROVE  NextOf(a, headers'[a]) <= b
      OBVIOUS
    <3>1. a \in C
      BY <1>4, <1>7, <1>8
    <3>2. b \in C => NextOf(a, headers[a]) <= b
      BY <1>2, <3>1 DEF Linked, After
    <3> QED  BY <1>7, <1>8, <3>1, <3>2
  <2> QED  BY <2>1, <2>2, <2>3, <2>4 DEF Linked, After
<1>12. Held(D)'
  <2> SUFFICES ASSUME NEW p \in DOMAIN live'
               PROVE  /\ p - HDR \in D
                      /\ headers'[p - HDR].status = USED
                      /\ headers'[p - HDR].size >= live'[p]
                      /\ \A a \in DOMAIN headers' : a + HDR <= p \/ p + live'[p] <= a
    BY DEF Held
  <2>1. CASE p = current + HDR
    BY <1>2, <1>4, <1>5, <1>6, <1>7, <2>1 DEF TypeOK
  <2>2. CASE p # current + HDR
    <3>1. /\ p \in DOMAIN live /\ live'[p] = live[p] /\ live[p] \in Nat /\ p \in Nat
      BY <1>2, <1>6, <2>2, HeapAssumption DEF TypeOK
    <3>2. /\ p - HDR \in C
          /\ headers[p - HDR].status = USED
          /\ headers[p - HDR].size >= live[p]
          /\ \A a \in DOMAIN headers : a + HDR <= p \/ p + live[p] <= a
      BY <1>2, <3>1 DEF Held
    <3>3. /\ headers'[p - HDR] = headers[p - HDR]
          /\ NextOf(p - HDR, headers[p - HDR]) <= current
          /\ NextOf(p - HDR, headers[p - HDR]) = p + headers[p - HDR].size
          /\ headers[p - HDR].size \in Nat
      BY <1>2, <1>4, <1>8, <3>1, <3>2, AfterIsBehind DEF Linked
    <3>4. p + live[p] <= current
      BY <1>4, <3>1, <3>2, <3>3
    <3> QED  BY <1>4, <1>5, <1>7, <3>1, <3>2, <3>3, <3>4
  <2> QED  BY <2>1, <2>2
<1>13. NoTwoHoles(D)'
  <2> SUFFICES ASSUME NEW a \in D, NEW b \in D, NextOf(a, headers'[a]) = b
               PROVE  ~(headers'[a].status = FREE /\ headers'[b].status = FREE)
    BY DEF NoTwoHoles, After
  <2>1. CASE a = current \/ b = current
    BY <1>4, <1>5, <2>1
  <2>2. CASE a \in C /\ b \in C
    BY <1>2, <1>8, <2>2 DEF NoTwoHoles, After
  <2> QED  BY <1>7, <2>1, <2>2
<1>14. Searching(D)' /\ Seeking(D)'
  BY <1>6 DEF Searching, Seeking
<1> QED
  <2>1. D \in SUBSET DOMAIN headers' /\ Sound(D)'
    BY <1>11, <1>12, <1>13, <1>14 DEF Sound, Linked
  <2> QED  BY <1>10, <2>1 DEF IInv

----------------------------------------------------------------------------
(***************************************************************************)
(* kmalloc reuses a hole, as a whole or split: behind the block is the     *)
(* node that is split off, or the one that was there before.               *)
(***************************************************************************)
Behind(size) == current + size + HDR

Whole(size) ==
  /\ size = headers[current].size
  /\ \A x \in DOMAIN headers' : x # current =>
       x \in DOMAIN headers /\ headers'[x] = headers[x]

SplitOff(size) ==
  /\ size = arg
  /\ size + HDR < headers[current].size
  /\ Behind(size) \in DOMAIN headers'
  /\ headers'[Behind(size)]
       = [size |-> headers[current].size - size - HDR, status |-> FREE]
  /\ \A x \in DOMAIN headers' : x # current /\ x # Behind(size) =>
       x \in DOMAIN headers /\ headers'[x] = headers[x]

Reused(size) ==
  /\ size \in Nat /\ arg <= size
  /\ current \in DOMAIN headers'
  /\ headers'[current] = [size |-> size, status |-> USED]
  /\ \A x \in DOMAIN headers' : x <= current \/ current + HDR + arg <= x
  /\ \A x \in DOMAIN headers :
       x + HDR <= current \/ NextOf(current, headers[current]) <= x =>
         x \in DOMAIN headers'
  /\ Whole(size) \/ SplitOff(size)

LEMMA ReuseIs ==
  ASSUME TypeOK, kmalloc_reuse,
         current \in DOMAIN headers, Reads(current) = {headers[current]}
  PROVE  /\ headers[current].status = FREE
         /\ \E size \in Nat : Reused(size)
         /\ \E hs : Return(current, hs)
<1> DEFINE h == headers[current]
           need == arg + HDR
<1>1. /\ h.status = FREE /\ arg <= h.size
      /\ \/ /\ need < h.size
            /\ Return(current, split(headers, current, arg, h.size - need))
         \/ /\ ~(need < h.size)
            /\ Return(current, Write(headers, current, h.size, USED))
  <2>1. \E g \in {headers[current]} :
          /\ g.size >= arg /\ g.status = FREE
          /\ \/ /\ need < g.size
                /\ Return(current, split(headers, current, arg, g.size - need))
             \/ /\ ~(need < g.size)
                /\ Return(current, Write(headers, current, g.size, USED))
    BY DEF kmalloc_reuse, Fits, HasLeftover
  <2>2. h.size \in Nat /\ arg \in Nat
    BY DEF TypeOK, Header
  <2> QED  BY <2>1, <2>2
<1>2. /\ DOMAIN headers \subseteq Nat /\ current \in Nat /\ arg \in Nat
      /\ HDR \in Nat \ {0} /\ h.size \in Nat
      /\ NextOf(current, headers[current]) = current + h.size + HDR
  BY HeapAssumption, AfterIsBehind DEF TypeOK
<1>3. ASSUME Return(current, Write(headers, current, h.size, USED))
      PROVE  \E size \in Nat : Reused(size)
  <2> DEFINE hs == Write(headers, current, h.size, USED)
  <2>1. /\ \A x : x \in DOMAIN hs
                 <=> \/ x \in DOMAIN headers
                        /\ (x + HDR <= current \/ current + HDR - 1 < x)
                     \/ x = current
        /\ hs[current] = [size |-> h.size, status |-> USED]
        /\ \A x \in DOMAIN hs : x # current => hs[x] = headers[x]
    BY WriteIs
  <2> HIDE DEF hs
  <2>2. /\ \A x : x \in DOMAIN headers'
                 <=> /\ x \in DOMAIN hs
                     /\ x + HDR <= current + HDR \/ current + HDR + arg - 1 < x
        /\ \A x \in DOMAIN headers' : headers'[x] = hs[x]
    BY <1>3, ReturnIs DEF hs
  <2>3. Reused(h.size)
    <3>1. /\ current \in DOMAIN headers'
          /\ headers'[current] = [size |-> h.size, status |-> USED]
      BY <1>2, <2>1, <2>2
    <3>2. \A x \in DOMAIN headers' : x # current =>
            x \in DOMAIN headers /\ headers'[x] = headers[x]
      BY <2>1, <2>2
    <3>3. \A x \in DOMAIN headers' : x <= current \/ current + HDR + arg <= x
      BY <1>2, <2>1, <2>2
    <3>4. \A x \in DOMAIN headers :
            x + HDR <= current \/ NextOf(current, headers[current]) <= x =>
              x \in DOMAIN headers'
      <4> HIDE DEF h
      <4> QED  BY <1>1, <1>2, <2>1, <2>2
    <3> QED  BY <1>1, <1>2, <3>1, <3>2, <3>3, <3>4 DEF Reused, Whole
  <2> QED  BY <1>2, <2>3
<1>4. ASSUME need < h.size,
             Return(current, split(headers, current, arg, h.size - need))
      PROVE  \E size \in Nat : Reused(size)
  <2> DEFINE B == current + arg + HDR
             mid == Write(headers, current, arg, USED)
             hs == Write(mid, B, h.size - need, FREE)
  <2>1. /\ \A x : x \in DOMAIN mid
                 <=> \/ x \in DOMAIN headers
                        /\ (x + HDR <= current \/ current + HDR - 1 < x)
                     \/ x = current
        /\ mid[current] = [size |-> arg, status |-> USED]
        /\ \A x \in DOMAIN mid : x # current => mid[x] = headers[x]
    BY WriteIs
  <2>2. Return(current, hs)
    BY <1>4 DEF split
  <2> HIDE DEF mid
  <2>3. /\ \A x : x \in DOMAIN hs
                 <=> \/ x \in DOMAIN mid /\ (x + HDR <= B \/ B + HDR - 1 < x)
                     \/ x = B
        /\ hs[B] = [size |-> h.size - need, status |-> FREE]
        /\ \A x \in DOMAIN hs : x # B => hs[x] = mid[x]
    BY WriteIs
  <2> HIDE DEF hs
  <2>4. /\ \A x : x \in DOMAIN headers'
                 <=> /\ x \in DOMAIN hs
                     /\ x + HDR <= current + HDR \/ current + HDR + arg - 1 < x
        /\ \A x \in DOMAIN headers' : headers'[x] = hs[x]
    BY <2>2, ReturnIs
  <2>5. Reused(arg)
    <3> HIDE DEF h
    <3> QED
      BY <1>1, <1>2, <1>4, <2>1, <2>3, <2>4 DEF Reused, SplitOff, Behind, h
  <2> QED  BY <1>2, <2>5
<1>5. \E hs : Return(current, hs)
  BY <1>1
<1> HIDE DEF h
<1> QED  BY <1>1, <1>3, <1>4, <1>5 DEF h

LEMMA ReuseKeeps ==
  ASSUME IInv, kmalloc_reuse
  PROVE  IInv'
<1>1. PICK C \in SUBSET DOMAIN headers : Sound(C)
  BY DEF IInv
<1>2. TypeOK /\ Linked(C) /\ Held(C) /\ NoTwoHoles(C) /\ Searching(C)
  BY <1>1 DEF IInv, Sound
<1>3. pc = "kmalloc" /\ current < heap_head /\ heap_head' = heap_head
  BY DEF kmalloc_reuse
<1>4. /\ current \in C
      /\ Reads(current) = {headers[current]}
      /\ headers[current] \in Header
  BY <1>2, <1>3, AtANode
<1>5. /\ headers[current].status = FREE
      /\ \E size \in Nat : Reused(size)
      /\ \E hs : Return(current, hs)
  BY <1>2, <1>4, ReuseIs
<1>6. PICK size \in Nat : Reused(size)
  BY <1>5
<1>7. /\ DOMAIN live' = DOMAIN live \cup {current + HDR}
      /\ live'[current + HDR] = arg
      /\ \A p \in DOMAIN live : p # current + HDR => live'[p] = live[p]
      /\ pc' = "idle"
      /\ UNCHANGED <<arg, current, previous>>
  BY <1>5, ReturnGives
<1> DEFINE h == headers[current]
           end == NextOf(current, headers[current])
           B == Behind(size)
<1>8. /\ HDR \in Nat \ {0} /\ arg \in Nat /\ arg \in Sizes /\ current \in Nat
      /\ heap_head \in Nat /\ h.size \in Nat /\ h.status = FREE
      /\ end = current + h.size + HDR
      /\ B = current + size + HDR
      /\ USED \in {USED, FREE} /\ FREE \in {USED, FREE} /\ USED # FREE
  BY <1>2, <1>3, <1>4, <1>5, HeapAssumption, AfterIsBehind
  DEF TypeOK, USED, FREE, Behind
<1>9. /\ arg <= size
      /\ current \in DOMAIN headers'
      /\ headers'[current] = [size |-> size, status |-> USED]
      /\ \A x \in DOMAIN headers' : x <= current \/ current + HDR + arg <= x
      /\ \A x \in DOMAIN headers : x + HDR <= current \/ end <= x => x \in DOMAIN headers'
  BY <1>6 DEF Reused
<1>10. \/ /\ B = end
          /\ \A x \in DOMAIN headers' : x # current =>
               x \in DOMAIN headers /\ headers'[x] = headers[x]
       \/ /\ B + HDR <= end
          /\ B \in DOMAIN headers'
          /\ headers'[B] \in Header /\ headers'[B].status = FREE
          /\ NextOf(B, headers'[B]) = end
          /\ \A x \in DOMAIN headers' : x # current /\ x # B =>
               x \in DOMAIN headers /\ headers'[x] = headers[x]
  <2>1. CASE Whole(size)
    <3>1. B = end
      BY <1>8, <2>1 DEF Whole
    <3> QED  BY <2>1, <3>1 DEF Whole
  <2>2. CASE SplitOff(size)
    <3>1. /\ headers'[B] = [size |-> h.size - size - HDR, status |-> FREE]
          /\ size + HDR < h.size
          /\ B \in DOMAIN headers'
          /\ \A x \in DOMAIN headers' : x # current /\ x # B =>
               x \in DOMAIN headers /\ headers'[x] = headers[x]
      BY <2>2 DEF SplitOff
    <3>2. h.size - size - HDR \in Nat /\ B + HDR <= end
      BY <1>8, <3>1
    <3>3. /\ headers'[B] \in Header /\ headers'[B].status = FREE
          /\ headers'[B].size = h.size - size - HDR
      BY <1>8, <3>1, <3>2 DEF Header
    <3>4. NextOf(B, headers'[B]) = end
      BY <1>8, <3>3 DEF NextOf
    <3> QED  BY <3>1, <3>2, <3>3, <3>4
  <2> QED  BY <1>6, <2>1, <2>2 DEF Reused
<1>11. NextOf(current, headers'[current]) = B
  BY <1>8, <1>9 DEF NextOf
<1>12. PICK D : \A x : x \in D <=> x \in C \/ (x = B /\ x < heap_head)
  <2> WITNESS C \cup {x \in {B} : x < heap_head}
  <2> QED  OBVIOUS
<1> HIDE DEF h, end, B
<1>13. \A x \in C : x # current =>
         /\ x \in Nat /\ x < heap_head /\ x \in DOMAIN headers
         /\ NextOf(x, headers[x]) \in Nat
         /\ x + HDR <= NextOf(x, headers[x])
         /\ NextOf(x, headers[x]) \in C \/ NextOf(x, headers[x]) >= heap_head
         /\ NextOf(x, headers[x]) <= current \/ end <= x
         /\ x \in DOMAIN headers' /\ headers'[x] = headers[x]
  <2> SUFFICES ASSUME NEW x \in C, x # current
               PROVE  /\ x \in Nat /\ x < heap_head /\ x \in DOMAIN headers
                      /\ NextOf(x, headers[x]) \in Nat
                      /\ x + HDR <= NextOf(x, headers[x])
                      /\ NextOf(x, headers[x]) \in C \/ NextOf(x, headers[x]) >= heap_head
                      /\ NextOf(x, headers[x]) <= current \/ end <= x
                      /\ x \in DOMAIN headers' /\ headers'[x] = headers[x]
    OBVIOUS
  <2>1. /\ x \in Nat /\ x < heap_head /\ x \in DOMAIN headers
        /\ NextOf(x, headers[x]) \in Nat
        /\ x + HDR <= NextOf(x, headers[x])
    BY <1>2, AfterIsBehind DEF Linked
  <2>2. NextOf(x, headers[x]) \in C \/ NextOf(x, headers[x]) >= heap_head
    BY <1>2 DEF Linked, After
  <2>3. NextOf(x, headers[x]) <= current \/ end <= x
    <3>1. x < current => NextOf(x, headers[x]) <= current
      BY <1>2, <1>4 DEF Linked, After
    <3>2. current < x => end <= x
      BY <1>2, <1>4 DEF Linked, After, end
    <3> QED  BY <1>8, <2>1, <3>1, <3>2
  <2>4. x \in DOMAIN headers'
    BY <1>8, <1>9, <2>1, <2>3
  <2>5. x # B \/ B = end
    BY <1>8, <1>10, <2>1, <2>3
  <2>6. headers'[x] = headers[x]
    BY <1>8, <1>10, <2>4, <2>5
  <2> QED  BY <2>1, <2>2, <2>3, <2>4, <2>6
<1>14. end \in C \/ end >= heap_head
  BY <1>2, <1>4 DEF Linked, After, end
<1>15. end \in C => headers[end].status # FREE
  BY <1>2, <1>4, <1>8 DEF NoTwoHoles, After, end, h
<1>20. TypeOK'
  <2>1. DOMAIN headers' \subseteq Nat
    BY <1>2, <1>8, <1>10 DEF TypeOK
  <2>2. \A a \in DOMAIN headers' : headers'[a] \in Header
    BY <1>2, <1>8, <1>9, <1>10 DEF TypeOK, Header
  <2>3. \A p \in DOMAIN live' : p \in Nat /\ live'[p] \in Sizes
    BY <1>2, <1>7, <1>8 DEF TypeOK
  <2> QED  BY <1>2, <1>3, <1>5, <1>7, <1>8, <2>1, <2>2, <2>3 DEF TypeOK
<1>21. Linked(D)'
  <2>1. D \subseteq DOMAIN headers'
    BY <1>9, <1>10, <1>12, <1>13, <1>14, <1>8
  <2>2. heap_head' > 0 => 0 \in D
    BY <1>2, <1>3, <1>12 DEF Linked
  <2>3. \A a \in D : \/ NextOf(a, headers'[a]) \in D
                     \/ NextOf(a, headers'[a]) >= heap_head
    <3> SUFFICES ASSUME NEW a \in D
                 PROVE  \/ NextOf(a, headers'[a]) \in D
                        \/ NextOf(a, headers'[a]) >= heap_head
      OBVIOUS
    <3>1. CASE a = current
      BY <1>8, <1>11, <1>12, <3>1
    <3>2. CASE a \in C /\ a # current
      BY <1>12, <1>13, <3>2
    <3>3. CASE a = B /\ a # current /\ a \notin C
      BY <1>8, <1>10, <1>12, <1>14, <3>3
    <3> QED  BY <1>12, <3>1, <3>2, <3>3
  <2>4. \A a \in D : a < heap_head
    BY <1>3, <1>4, <1>12, <1>13
  <2>5. \A a, b \in D : a < b => NextOf(a, headers'[a]) <= b
    <3> SUFFICES ASSUME NEW a \in D, NEW b \in D, a < b
                 PROVE  NextOf(a, headers'[a]) <= b
      OBVIOUS
    <3>1. CASE a = current
      BY <1>8, <1>10, <1>11, <1>12, <1>13, <3>1
    <3>2. CASE a \in C /\ a # current
      <4>1. CASE b \in C
        <5>1. NextOf(a, headers[a]) <= b
          BY <1>2, <3>2, <4>1 DEF Linked, After
        <5> QED  BY <1>13, <3>2, <5>1
      <4>2. CASE b = B
        BY <1>8, <1>10, <1>13, <3>2, <4>2
      <4> QED  BY <1>12, <4>1, <4>2
    <3>3. CASE a = B /\ a \notin C
      <4>1. NextOf(a, headers'[a]) = end /\ end \in Nat /\ B \in Nat
        BY <1>8, <1>10, <1>14, <1>12, <3>3
      <4>2. b \in C /\ b # current
        BY <1>8, <1>12, <3>3
      <4> QED  BY <1>8, <1>13, <3>3, <4>1, <4>2
    <3> QED  BY <1>12, <3>1, <3>2, <3>3
  <2> QED  BY <1>3, <2>1, <2>2, <2>3, <2>4, <2>5 DEF Linked, After
<1>22. Held(D)'
  <2> SUFFICES ASSUME NEW p \in DOMAIN live'
               PROVE  /\ p - HDR \in D
                      /\ headers'[p - HDR].status = USED
                      /\ headers'[p - HDR].size >= live'[p]
                      /\ \A a \in DOMAIN headers' : a + HDR <= p \/ p + live'[p] <= a
    BY DEF Held
  <2>1. CASE p = current + HDR
    <3>1. p - HDR = current /\ live'[p] = arg
      BY <1>7, <1>8, <2>1
    <3>2. \A a \in DOMAIN headers' : a \in Nat
      BY <1>20 DEF TypeOK
    <3> QED  BY <1>4, <1>8, <1>9, <1>12, <2>1, <3>1, <3>2
  <2>2. CASE p # current + HDR
    <3>1. /\ p \in DOMAIN live /\ live'[p] = live[p] /\ live[p] \in Nat /\ p \in Nat
      BY <1>2, <1>7, <2>2, HeapAssumption DEF TypeOK
    <3>2. /\ p - HDR \in C
          /\ headers[p - HDR].status = USED
          /\ headers[p - HDR].size >= live[p]
          /\ \A a \in DOMAIN headers : a + HDR <= p \/ p + live[p] <= a
      BY <1>2, <3>1 DEF Held
    <3>3. /\ p - HDR # current
          /\ headers'[p - HDR] = headers[p - HDR]
          /\ NextOf(p - HDR, headers[p - HDR]) <= current \/ end <= p - HDR
          /\ NextOf(p - HDR, headers[p - HDR]) = p + headers[p - HDR].size
          /\ headers[p - HDR].size \in Nat
      <4>1. p - HDR # current
        BY <1>8, <3>1, <2>2
      <4>2. p - HDR \in Nat /\ headers[p - HDR].size \in Nat
            /\ NextOf(p - HDR, headers[p - HDR]) = p - HDR + headers[p - HDR].size + HDR
        BY <1>2, <1>13, <3>2, <4>1, AfterIsBehind
      <4> QED  BY <1>8, <1>13, <3>1, <3>2, <4>1, <4>2
    <3>4. p + live[p] <= current \/ end + HDR <= p
      BY <1>8, <3>1, <3>2, <3>3
    <3>5. ASSUME NEW a \in DOMAIN headers'
          PROVE  a + HDR <= p \/ p + live[p] <= a
      <4>1. CASE a = current
        BY <1>8, <3>1, <3>4, <4>1
      <4>2. CASE a = B /\ a \notin DOMAIN headers
        BY <1>8, <1>10, <3>1, <3>4, <4>2
      <4> QED  BY <1>10, <3>2, <4>1, <4>2
    <3> QED  BY <1>12, <3>1, <3>2, <3>3, <3>5
  <2> QED  BY <2>1, <2>2
<1>23. NoTwoHoles(D)'
  <2> SUFFICES ASSUME NEW a \in D, NEW b \in D, NextOf(a, headers'[a]) = b
               PROVE  ~(headers'[a].status = FREE /\ headers'[b].status = FREE)
    BY DEF NoTwoHoles, After
  <2>1. CASE a = current \/ b = current
    BY <1>8, <1>9, <2>1
  <2>2. CASE a \in C /\ b \in C /\ a # current /\ b # current
    <3>1. NextOf(a, headers[a]) = b
      BY <1>13, <2>2
    <3> QED  BY <1>2, <1>13, <2>2, <3>1 DEF NoTwoHoles, After
  <2>3. CASE a = B /\ a \notin C /\ b \in C /\ b # current
    <3>1. b = end
      BY <1>10, <1>14, <1>8, <1>12, <2>3
    <3> QED  BY <1>13, <1>15, <2>3, <3>1
  <2>4. CASE b = B /\ b \notin C /\ a # current
    <3>1. B \in Nat /\ end \in Nat /\ current < B /\ B <= end
      BY <1>8, <1>10
    <3>2. a = B => NextOf(a, headers'[a]) = end /\ B # end
      BY <1>8, <1>10, <1>14, <1>12, <2>4
    <3>3. a \in C => NextOf(a, headers[a]) # B
      BY <1>8, <1>13, <2>4, <3>1
    <3> QED  BY <1>12, <1>13, <2>4, <3>1, <3>2, <3>3
  <2> QED  BY <1>12, <2>1, <2>2, <2>3, <2>4
<1>24. Searching(D)' /\ Seeking(D)'
  BY <1>7 DEF Searching, Seeking
<1> QED
  <2>1. D \in SUBSET DOMAIN headers' /\ Sound(D)'
    BY <1>21, <1>22, <1>23, <1>24 DEF Sound, Linked
  <2> QED  BY <1>20, <2>1 DEF IInv

----------------------------------------------------------------------------
(***************************************************************************)
(* Searches: the chain stays, and current_node goes along it.              *)
(***************************************************************************)
LEMMA ChainStays ==
  ASSUME NEW C, UNCHANGED <<headers, heap_head, live>>,
         Linked(C), Held(C), NoTwoHoles(C)
  PROVE  Linked(C)' /\ Held(C)' /\ NoTwoHoles(C)'
BY DEF Linked, Held, NoTwoHoles, After

LEMMA SearchKeeps ==
  ASSUME IInv, kmalloc_next \/ kfree_next
  PROVE  IInv'
<1>1. PICK C \in SUBSET DOMAIN headers : Sound(C)
  BY DEF IInv
<1>2. /\ TypeOK /\ Linked(C) /\ Held(C) /\ NoTwoHoles(C)
      /\ Searching(C) /\ Seeking(C)
  BY <1>1 DEF IInv, Sound
<1>3. /\ pc \in {"kmalloc", "kfree"} /\ current < heap_head
      /\ UNCHANGED <<headers, heap_head, live, pc, arg>>
  BY DEF kmalloc_next, kfree_next
<1>4. /\ current \in C
      /\ Reads(current) = {headers[current]}
  BY <1>2, <1>3, AtANode
<1>5. /\ current' = NextOf(current, headers[current])
      /\ pc = "kmalloc" => previous' = previous
      /\ pc = "kfree" => previous' = current /\ ~Matches(headers[current])
  BY <1>4 DEF kmalloc_next, kfree_next
<1>6. /\ current \in Nat /\ current' \in Nat /\ current < current' /\ HDR \in Nat
  BY <1>2, <1>4, <1>5, AfterIsBehind, HeapAssumption DEF Linked
<1>7. TypeOK'
  <2>1. previous' \in Nat \cup {NULL}
    BY <1>2, <1>3, <1>5, <1>6 DEF TypeOK
  <2> QED  BY <1>2, <1>3, <1>6, <2>1 DEF TypeOK
<1>8. Linked(C)' /\ Held(C)' /\ NoTwoHoles(C)'
  BY <1>2, <1>3, ChainStays
<1>9. Searching(C)'
  <2>1. current' \in C \/ current' >= heap_head
    BY <1>2, <1>4, <1>5 DEF Linked, After
  <2> QED  BY <1>3, <1>4, <1>5, <2>1 DEF Searching, After
<1>10. Seeking(C)'
  <2> SUFFICES ASSUME pc = "kfree"
               PROVE  /\ previous' \in C /\ NextOf(previous', headers[previous']) = current'
                      /\ arg \in DOMAIN live => arg - HDR >= current'
    BY <1>3 DEF Seeking, After
  <2>1. previous' \in C /\ NextOf(previous', headers[previous']) = current'
    BY <1>4, <1>5
  <2>2. ASSUME arg \in DOMAIN live
        PROVE  arg - HDR >= current'
    <3>1. arg - HDR >= current
      BY <1>2, <2>2 DEF Seeking
    <3>2. arg - HDR \in C /\ headers[arg - HDR].status = USED
      BY <1>2, <2>2 DEF Held
    <3>3. arg - HDR # current
      BY <1>5, <3>2 DEF Matches
    <3>4. current < arg - HDR => NextOf(current, headers[current]) <= arg - HDR
      BY <1>2, <1>4, <3>2 DEF Linked, After
    <3>5. arg - HDR \in Nat
      BY <1>2, <3>2 DEF Linked, TypeOK
    <3> QED  BY <1>5, <1>6, <3>1, <3>3, <3>4, <3>5
  <2> QED  BY <2>1, <2>2
<1> QED
  <2>1. C \in SUBSET DOMAIN headers' /\ Sound(C)'
    BY <1>3, <1>8, <1>9, <1>10 DEF Sound
  <2> QED  BY <1>7, <2>1 DEF IInv

\* A search starts at the first node.
LEMMA CallKeeps ==
  ASSUME IInv, \/ \E size \in Sizes : kmalloc(size)
               \/ \E p \in HDR .. Cells : kfree(p)
  PROVE  IInv'
<1>1. PICK C \in SUBSET DOMAIN headers : Sound(C)
  BY DEF IInv
<1>2. TypeOK /\ Linked(C) /\ Held(C) /\ NoTwoHoles(C)
  BY <1>1 DEF IInv, Sound
<1>3. UNCHANGED <<headers, heap_head, live>> /\ current' = 0
  BY DEF kmalloc, kfree
<1>4. \/ pc' = "kmalloc" /\ arg' \in Sizes /\ previous' = previous
      \/ pc' = "kfree" /\ arg' \in HDR .. Cells /\ previous' = NULL
  BY DEF kmalloc, kfree
<1>5. arg' \in Nat
  <2>1. HDR \in Nat /\ Cells \in Nat /\ Sizes \subseteq Nat
    BY HeapAssumption
  <2>2. (HDR .. Cells) \subseteq Nat
    BY <2>1
  <2> QED  BY <1>4, <2>1, <2>2
<1>6. TypeOK'
  BY <1>2, <1>3, <1>4, <1>5 DEF TypeOK
<1>7. Linked(C)' /\ Held(C)' /\ NoTwoHoles(C)'
  BY <1>2, <1>3, ChainStays
<1>8. Searching(C)'
  <2>1. CASE heap_head > 0
    BY <1>2, <1>3, <2>1 DEF Searching, Linked
  <2>2. CASE heap_head = 0
    <3>1. C = {}
      BY <1>2, <2>2 DEF Linked, TypeOK
    <3> QED  BY <1>3, <2>2, <3>1 DEF Searching
  <2> QED  BY <1>2, <2>1, <2>2 DEF TypeOK
<1>9. Seeking(C)'
  <2>1. ASSUME arg' \in DOMAIN live
        PROVE  arg' - HDR >= 0
    <3>1. arg' - HDR \in Nat
      BY <1>2, <2>1 DEF Held, Linked, TypeOK
    <3> QED  BY <3>1
  <2> QED  BY <1>3, <1>4, <2>1 DEF Seeking
<1> QED
  <2>1. C \in SUBSET DOMAIN headers' /\ Sound(C)'
    BY <1>3, <1>7, <1>8, <1>9 DEF Sound
  <2> QED  BY <1>6, <2>1 DEF IInv

LEMMA UnknownKeeps ==
  ASSUME IInv, kfree_unknown
  PROVE  IInv'
<1>1. PICK C \in SUBSET DOMAIN headers : Sound(C)
  BY DEF IInv
<1>2. TypeOK /\ Linked(C) /\ Held(C) /\ NoTwoHoles(C)
  BY <1>1 DEF IInv, Sound
<1>3. /\ UNCHANGED <<headers, heap_head, live, arg, current, previous>>
      /\ pc' = "idle"
  BY DEF kfree_unknown
<1>4. TypeOK'
  BY <1>2, <1>3 DEF TypeOK
<1>5. Linked(C)' /\ Held(C)' /\ NoTwoHoles(C)'
  BY <1>2, <1>3, ChainStays
<1>6. Searching(C)' /\ Seeking(C)'
  BY <1>3 DEF Searching, Seeking
<1> QED
  <2>1. C \in SUBSET DOMAIN headers' /\ Sound(C)'
    BY <1>3, <1>5, <1>6 DEF Sound
  <2> QED  BY <1>4, <2>1 DEF IInv

----------------------------------------------------------------------------
(***************************************************************************)
(* kfree makes one hole, from the node at top to end: of the node that is  *)
(* freed, of the one in front if that is free, and of what is behind if    *)
(* that reads as free.                                                     *)
(***************************************************************************)
LEMMA FoundIs ==
  ASSUME TypeOK, kfree_found, NEW C, C \subseteq DOMAIN headers,
         current \in C, Reads(current) = {headers[current]},
         previous = NULL \/ previous \in C
  PROVE  LET next == NextOf(current, headers[current])
         IN  /\ arg = current + HDR /\ headers[current].status = USED
             /\ \E n \in Reads(next) :
                  LET freed == Write(headers, current, Merged(headers[current], n), FREE)
                  IN  \/ /\ headers' = freed
                         /\ previous # NULL => headers[previous].status # FREE
                      \/ /\ previous # NULL /\ headers[previous].status = FREE
                         /\ headers' = Write(freed, previous,
                                             headers[previous].size
                                               + Merged(headers[current], n) + HDR,
                                             FREE)
<1> DEFINE h == headers[current]
<1>1. /\ Matches(h)
      /\ \E n \in Reads(NextOf(current, h)) :
           LET freed == Write(headers, current, Merged(h, n), FREE)
           IN  \/ previous = NULL /\ headers' = freed
               \/ /\ previous # NULL
                  /\ \E q \in Reads(previous) :
                       headers' = IF q.status = FREE
                         THEN Write(freed, previous, q.size + Merged(h, n) + HDR, FREE)
                         ELSE freed
  <2>1. \E g \in {headers[current]} :
          /\ Matches(g)
          /\ \E n \in Reads(NextOf(current, g)) :
               LET freed == Write(headers, current, Merged(g, n), FREE)
               IN  \/ previous = NULL /\ headers' = freed
                   \/ /\ previous # NULL
                      /\ \E q \in Reads(previous) :
                           headers' = IF q.status = FREE
                             THEN Write(freed, previous, q.size + Merged(g, n) + HDR, FREE)
                             ELSE freed
    BY DEF kfree_found
  <2> QED  BY <2>1
<1>2. arg = current + HDR /\ headers[current].status = USED
  BY <1>1, HeapAssumption DEF Matches, TypeOK
<1>3. PICK n \in Reads(NextOf(current, h)) :
        LET freed == Write(headers, current, Merged(h, n), FREE)
        IN  \/ previous = NULL /\ headers' = freed
            \/ /\ previous # NULL
               /\ \E q \in Reads(previous) :
                    headers' = IF q.status = FREE
                      THEN Write(freed, previous, q.size + Merged(h, n) + HDR, FREE)
                      ELSE freed
  BY <1>1
<1>4. CASE previous = NULL
  BY <1>2, <1>3, <1>4
<1>5. CASE previous # NULL
  <2>1. Reads(previous) = {headers[previous]}
    BY <1>5, ReadsIs
  <2>2. LET freed == Write(headers, current, Merged(h, n), FREE)
        IN  headers' = IF headers[previous].status = FREE
              THEN Write(freed, previous, headers[previous].size + Merged(h, n) + HDR, FREE)
              ELSE freed
    BY <1>3, <1>5, <2>1
  <2> QED  BY <1>2, <1>3, <1>5, <2>2
<1> QED  BY <1>4, <1>5

Hole(top, end) ==
  /\ top \in DOMAIN headers'
  /\ headers'[top] \in Header /\ headers'[top].status = FREE
  /\ NextOf(top, headers'[top]) = end

LEMMA FoundKeeps ==
  ASSUME IInv, kfree_found
  PROVE  IInv'
<1>1. PICK C \in SUBSET DOMAIN headers : Sound(C)
  BY DEF IInv
<1>2. /\ TypeOK /\ Linked(C) /\ Held(C) /\ NoTwoHoles(C)
      /\ Searching(C) /\ Seeking(C)
  BY <1>1 DEF IInv, Sound
<1>3. /\ pc = "kfree" /\ current < heap_head /\ pc' = "idle"
      /\ live' = [p \in DOMAIN live \ {arg} |-> live[p]]
      /\ UNCHANGED <<heap_head, arg, current, previous>>
  BY DEF kfree_found
<1>4. /\ current \in C
      /\ Reads(current) = {headers[current]}
      /\ headers[current] \in Header
  BY <1>2, <1>3, AtANode
<1>5. \/ previous = NULL /\ current = 0
      \/ previous \in C /\ NextOf(previous, headers[previous]) = current
  BY <1>2, <1>3 DEF Seeking, After
<1> DEFINE h == headers[current]
           q == headers[previous]
           next == NextOf(current, h)
<1>6. /\ HDR \in Nat \ {0} /\ arg \in Nat /\ current \in Nat /\ heap_head \in Nat
      /\ h \in Header /\ h.size \in Nat
      /\ next = current + h.size + HDR
      /\ USED \in {USED, FREE} /\ FREE \in {USED, FREE} /\ USED # FREE /\ NULL \notin Nat
      /\ \A x \in C : /\ x \in Nat /\ x < heap_head
                      /\ headers[x] \in Header /\ headers[x].size \in Nat
                      /\ NextOf(x, headers[x]) = x + headers[x].size + HDR
                      /\ NextOf(x, headers[x]) \in Nat
                      /\ \/ NextOf(x, headers[x]) \in C
                         \/ NextOf(x, headers[x]) >= heap_head
  <2>1. \A x \in C : x \in Nat /\ headers[x].size \in Nat
    BY <1>2, AfterIsBehind DEF Linked
  <2>2. \A x \in C : x < heap_head /\ headers[x] \in Header
    BY <1>2 DEF Linked, TypeOK
  <2>3. \A x \in C : /\ NextOf(x, headers[x]) = x + headers[x].size + HDR
                     /\ NextOf(x, headers[x]) \in Nat
    BY <1>2, AfterIsBehind DEF Linked
  <2>4. \A x \in C : \/ NextOf(x, headers[x]) \in C
                     \/ NextOf(x, headers[x]) >= heap_head
    BY <1>2 DEF Linked, After
  <2>5. HDR \in Nat \ {0} /\ arg \in Nat /\ current \in Nat /\ heap_head \in Nat
    BY <1>2, HeapAssumption DEF TypeOK
  <2> QED  BY <1>4, <2>1, <2>2, <2>3, <2>4, <2>5 DEF USED, FREE, NULL
<1>7. \A x, y \in C : x < y => NextOf(x, headers[x]) <= y
  BY <1>2 DEF Linked, After
<1>8. /\ arg = current + HDR /\ h.status = USED
      /\ \E n \in Reads(next) :
           LET freed == Write(headers, current, Merged(h, n), FREE)
           IN  \/ /\ headers' = freed
                  /\ previous # NULL => q.status # FREE
               \/ /\ previous # NULL /\ q.status = FREE
                  /\ headers' = Write(freed, previous, q.size + Merged(h, n) + HDR, FREE)
  BY <1>2, <1>4, <1>5, FoundIs
<1>9. PICK n \in Reads(next) :
           LET freed == Write(headers, current, Merged(h, n), FREE)
           IN  \/ /\ headers' = freed
                  /\ previous # NULL => q.status # FREE
               \/ /\ previous # NULL /\ q.status = FREE
                  /\ headers' = Write(freed, previous, q.size + Merged(h, n) + HDR, FREE)
  BY <1>8
<1>10. n \in Header /\ n.size \in Nat /\ (next \in C => n = headers[next])
  <2>1. n \in Header /\ (next \in C => n = headers[next])
    BY <1>2, ReadsIs
  <2> QED  BY <2>1 DEF Header
<1> DEFINE m == Merged(h, n)
           freed == Write(headers, current, m, FREE)
           end == current + m + HDR
<1> HIDE DEF h, q, next
<1>11. /\ m \in Nat /\ end \in Nat /\ current < next /\ next <= end
       /\ n.status # FREE => end = next
       /\ n.status = FREE => end = next + n.size + HDR
  BY <1>6, <1>10 DEF Merged
<1>12. /\ end \in C \/ end >= heap_head
       /\ end \in C => headers[end].status # FREE
       /\ \A x \in C : current < x /\ x < end => x = next /\ headers[x].status = FREE
  <2>1. next \in C \/ next >= heap_head
    BY <1>4, <1>6 DEF next, h
  <2>2. CASE n.status # FREE
    <3>1. end = next
      BY <1>11, <2>2
    <3>2. \A x \in C : current < x => next <= x
      BY <1>4, <1>7 DEF next, h
    <3> QED  BY <1>6, <1>10, <1>11, <2>1, <2>2, <3>1, <3>2
  <2>3. CASE n.status = FREE /\ next \in C
    <3>1. end = NextOf(next, headers[next])
      BY <1>6, <1>10, <1>11, <2>3
    <3>2. \A x \in C : current < x => next <= x
      BY <1>4, <1>7 DEF next, h
    <3>3. \A x \in C : next < x => end <= x
      BY <1>7, <2>3, <3>1
    <3>4. end \in C => headers[end].status # FREE
      BY <1>2, <1>10, <2>3, <3>1 DEF NoTwoHoles, After
    <3>5. ASSUME NEW x \in C, current < x, x < end
          PROVE  x = next /\ headers[x].status = FREE
      <4>1. x \in Nat /\ next \in Nat /\ next <= x /\ ~(next < x)
        BY <1>6, <1>11, <2>3, <3>2, <3>3, <3>5
      <4> QED  BY <1>10, <2>3, <4>1
    <3> QED  BY <1>6, <2>3, <3>1, <3>4, <3>5
  <2>4. CASE n.status = FREE /\ next \notin C
    <3>1. next >= heap_head /\ end >= heap_head
      BY <1>6, <1>11, <2>1, <2>4
    <3>2. \A x \in C : current < x => next <= x
      BY <1>4, <1>7 DEF next, h
    <3> QED  BY <1>6, <1>11, <3>1, <3>2
  <2> QED  BY <2>2, <2>3, <2>4
<1> HIDE DEF m
<1>13. /\ \A x : x \in DOMAIN freed
                 <=> \/ x \in DOMAIN headers
                        /\ (x + HDR <= current \/ current + HDR - 1 < x)
                     \/ x = current
       /\ freed[current] = [size |-> m, status |-> FREE]
       /\ \A x \in DOMAIN freed : x # current => freed[x] = headers[x]
  BY WriteIs
<1>14. \/ /\ headers' = freed
          /\ previous # NULL => q.status # FREE
       \/ /\ previous # NULL /\ q.status = FREE
          /\ headers' = Write(freed, previous, q.size + m + HDR, FREE)
  BY <1>9 DEF m
<1> HIDE DEF freed, end
<1>15. /\ DOMAIN headers \subseteq Nat /\ current \in DOMAIN headers
       /\ \A x \in DOMAIN headers : headers[x] \in Header
       /\ C \subseteq DOMAIN headers
       /\ end = current + m + HDR
       /\ [size |-> m, status |-> FREE] \in Header
  BY <1>2, <1>4, <1>6, <1>11 DEF TypeOK, Linked, Header, end
<1>16. PICK top \in C :
         /\ top <= current
         /\ Hole(top, end)
         /\ \A x \in DOMAIN headers' : x \in DOMAIN headers /\ headers'[x] \in Header
         /\ \A x \in DOMAIN headers :
              x + HDR <= top \/ end <= x => x \in DOMAIN headers' /\ headers'[x] = headers[x]
         /\ \A x \in C : top < x /\ x < current => FALSE
         /\ top # current => headers[top].status = FREE
         /\ \A x \in C : NextOf(x, headers[x]) = top => headers[x].status # FREE
  <2>1. CASE /\ headers' = freed
             /\ previous # NULL => q.status # FREE
    <3>1. Hole(current, end)
      BY <1>13, <1>15, <2>1 DEF Hole, NextOf
    <3>2. \A x \in DOMAIN headers' : x \in DOMAIN headers /\ headers'[x] \in Header
      BY <1>13, <1>15, <2>1
    <3>3. \A x \in DOMAIN headers :
            x + HDR <= current \/ end <= x => x \in DOMAIN headers' /\ headers'[x] = headers[x]
      BY <1>6, <1>11, <1>13, <1>15, <2>1
    <3>4. ASSUME NEW x \in C, NextOf(x, headers[x]) = current
          PROVE  headers[x].status # FREE
      <4>1. x \in Nat /\ x < current
        BY <1>6, <3>4
      <4>2. previous \in C /\ NextOf(previous, headers[previous]) = current
        BY <1>5, <1>6, <4>1
      <4>3. x = previous
        BY <1>6, <1>7, <3>4, <4>1, <4>2
      <4> QED  BY <1>6, <2>1, <4>2, <4>3 DEF q
    <3> QED  BY <1>4, <1>6, <3>1, <3>2, <3>3, <3>4
  <2>2. CASE /\ previous # NULL /\ q.status = FREE
             /\ headers' = Write(freed, previous, q.size + m + HDR, FREE)
    <3>1. /\ previous \in C /\ current = previous + q.size + HDR
          /\ previous \in Nat /\ q.size \in Nat
      BY <1>5, <1>6, <2>2 DEF q
    <3>2. /\ \A x : x \in DOMAIN headers'
                    <=> \/ x \in DOMAIN freed
                           /\ (x + HDR <= previous \/ previous + HDR - 1 < x)
                        \/ x = previous
          /\ headers'[previous] = [size |-> q.size + m + HDR, status |-> FREE]
          /\ \A x \in DOMAIN headers' : x # previous => headers'[x] = freed[x]
      BY <2>2, WriteIs
    <3>3. [size |-> q.size + m + HDR, status |-> FREE] \in Header
      BY <1>6, <1>11, <3>1 DEF Header
    <3>4. Hole(previous, end)
      <4>1. headers'[previous].size = q.size + m + HDR /\ headers'[previous].status = FREE
        BY <3>2
      <4>2. previous + (q.size + m + HDR) + HDR = end
        BY <1>6, <1>11, <1>15, <3>1
      <4> QED  BY <3>2, <3>3, <4>1, <4>2 DEF Hole, NextOf
    <3>5. \A x \in DOMAIN headers' : x \in DOMAIN headers /\ headers'[x] \in Header
      BY <1>13, <1>15, <3>1, <3>2, <3>3
    <3>6. \A x \in DOMAIN headers :
            x + HDR <= previous \/ end <= x => x \in DOMAIN headers' /\ headers'[x] = headers[x]
      BY <1>6, <1>11, <1>13, <1>15, <3>1, <3>2
    <3>7. \A x \in C : previous < x /\ x < current => FALSE
      BY <1>5, <1>6, <1>7, <3>1
    <3>8. \A x \in C : NextOf(x, headers[x]) = previous => headers[x].status # FREE
      BY <1>2, <2>2, <3>1 DEF NoTwoHoles, After, q
    <3> QED  BY <1>6, <2>2, <3>1, <3>4, <3>5, <3>6, <3>7, <3>8 DEF q
  <2> QED  BY <1>14, <2>1, <2>2
<1>17. top \in Nat /\ top < end
  BY <1>6, <1>11, <1>16
<1>18. \A x \in C : /\ x < top => x + HDR <= top
                    /\ x < top \/ end <= x => x \in DOMAIN headers' /\ headers'[x] = headers[x]
  BY <1>6, <1>7, <1>15, <1>16
<1>19. \A x \in C : x < top \/ x = top \/ end <= x \/ x = current \/ headers[x].status = FREE
  BY <1>6, <1>11, <1>12, <1>16
<1>20. /\ top \in DOMAIN headers' /\ headers'[top].status = FREE
       /\ NextOf(top, headers'[top]) = end
  BY <1>16 DEF Hole
<1>21. PICK D : \A x : x \in D <=> x \in C /\ (x <= top \/ end <= x)
  <2> WITNESS {x \in C : x <= top \/ end <= x}
  <2> QED  OBVIOUS
<1>22. \A x \in D : \/ x = top
                    \/ /\ x # top /\ (x < top \/ end <= x)
                       /\ x \in DOMAIN headers' /\ headers'[x] = headers[x]
  BY <1>6, <1>17, <1>18, <1>21
<1>23. /\ DOMAIN live' \subseteq DOMAIN live
       /\ \A p \in DOMAIN live' : p # arg /\ live'[p] = live[p]
  BY <1>3
<1>24. TypeOK'
  <2>1. DOMAIN headers' \subseteq Nat /\ \A a \in DOMAIN headers' : headers'[a] \in Header
    BY <1>15, <1>16
  <2>2. \A p \in DOMAIN live' : p \in Nat /\ live'[p] \in Sizes
    BY <1>2, <1>23 DEF TypeOK
  <2> QED  BY <1>2, <1>3, <2>1, <2>2 DEF TypeOK
<1>25. Linked(D)'
  <2>1. D \subseteq DOMAIN headers'
    BY <1>20, <1>22
  <2>2. heap_head' > 0 => 0 \in D
    BY <1>2, <1>3, <1>17, <1>21 DEF Linked
  <2>3. \A a \in D : \/ NextOf(a, headers'[a]) \in D
                     \/ NextOf(a, headers'[a]) >= heap_head
    <3> SUFFICES ASSUME NEW a \in D
                 PROVE  \/ NextOf(a, headers'[a]) \in D
                        \/ NextOf(a, headers'[a]) >= heap_head
      OBVIOUS
    <3>1. CASE a = top
      BY <1>11, <1>12, <1>20, <1>21, <3>1
    <3>2. CASE a < top
      BY <1>6, <1>7, <1>16, <1>21, <1>22, <3>2
    <3>3. CASE end <= a
      BY <1>6, <1>11, <1>17, <1>21, <1>22, <3>3
    <3> QED  BY <1>22, <3>1, <3>2, <3>3
  <2>4. \A a, b \in D : a < b => NextOf(a, headers'[a]) <= b
    <3> SUFFICES ASSUME NEW a \in D, NEW b \in D, a < b
                 PROVE  NextOf(a, headers'[a]) <= b
      OBVIOUS
    <3>1. CASE a = top
      BY <1>6, <1>20, <1>21, <1>22, <3>1
    <3>2. CASE a # top
      BY <1>7, <1>21, <1>22, <3>2
    <3> QED  BY <3>1, <3>2
  <2>5. \A a \in D : a < heap_head
    BY <1>6, <1>21
  <2> QED  BY <1>3, <2>1, <2>2, <2>3, <2>4, <2>5 DEF Linked, After
<1>26. Held(D)'
  <2> SUFFICES ASSUME NEW p \in DOMAIN live'
               PROVE  /\ p - HDR \in D
                      /\ headers'[p - HDR].status = USED
                      /\ headers'[p - HDR].size >= live'[p]
                      /\ \A a \in DOMAIN headers' : a + HDR <= p \/ p + live'[p] <= a
    BY DEF Held
  <2>1. p \in DOMAIN live /\ live'[p] = live[p] /\ p # arg /\ p \in Nat
    BY <1>2, <1>23 DEF TypeOK
  <2>2. /\ p - HDR \in C
        /\ headers[p - HDR].status = USED
        /\ headers[p - HDR].size >= live[p]
        /\ \A a \in DOMAIN headers : a + HDR <= p \/ p + live[p] <= a
    BY <1>2, <2>1 DEF Held
  <2>3. p - HDR # current
    BY <1>6, <1>8, <2>1
  <2>4. p - HDR # top
    BY <1>6, <1>16, <2>2, <2>3
  <2>5. p - HDR < top \/ end <= p - HDR
    BY <1>6, <1>19, <2>2, <2>3, <2>4
  <2> QED  BY <1>6, <1>16, <1>17, <1>18, <1>21, <2>1, <2>2, <2>5
<1>27. NoTwoHoles(D)'
  <2> SUFFICES ASSUME NEW a \in D, NEW b \in D, NextOf(a, headers'[a]) = b
               PROVE  ~(headers'[a].status = FREE /\ headers'[b].status = FREE)
    BY DEF NoTwoHoles, After
  <2>1. CASE a = top
    <3>1. b = end /\ b # top
      BY <1>17, <1>20, <2>1
    <3> QED  BY <1>12, <1>21, <1>22, <3>1
  <2>2. CASE a # top /\ b = top
    <3>1. headers'[a] = headers[a] /\ a \in C
      BY <1>21, <1>22, <2>2
    <3> QED  BY <1>16, <2>2, <3>1
  <2>3. CASE a # top /\ b # top
    <3>1. headers'[a] = headers[a] /\ a \in C /\ headers'[b] = headers[b] /\ b \in C
      BY <1>21, <1>22, <2>3
    <3> QED  BY <1>2, <3>1 DEF NoTwoHoles, After
  <2> QED  BY <2>1, <2>2, <2>3
<1>28. Searching(D)' /\ Seeking(D)'
  BY <1>3 DEF Searching, Seeking
<1> QED
  <2>1. D \in SUBSET DOMAIN headers' /\ Sound(D)'
    BY <1>25, <1>26, <1>27, <1>28 DEF Sound, Linked
  <2> QED  BY <1>24, <2>1 DEF IInv

----------------------------------------------------------------------------
(***************************************************************************)
(* The theorems.                                                           *)
(***************************************************************************)
LEMMA InitSound == Init => IInv
<1> SUFFICES ASSUME Init
             PROVE  IInv
  OBVIOUS
<1>1. DOMAIN headers = {} /\ DOMAIN live = {}
  BY DEF Init
<1>2. TypeOK
  BY <1>1 DEF Init, TypeOK, NULL
<1>3. Sound({})
  BY <1>1 DEF Init, Sound, Linked, Held, NoTwoHoles, Searching, Seeking
<1> QED  BY <1>2, <1>3 DEF IInv

LEMMA StepSound == IInv /\ [Next]_vars => IInv'
<1> SUFFICES ASSUME IInv, [Next]_vars
             PROVE  IInv'
  OBVIOUS
<1>1. CASE UNCHANGED vars
  BY <1>1 DEF vars, IInv, TypeOK, Sound, Linked, Held, NoTwoHoles, Searching,
              Seeking, After
<1>2. CASE Next
  BY <1>2, CallKeeps, SearchKeeps, ReuseKeeps, AppendKeeps, FoundKeeps, UnknownKeeps
  DEF Next, Loop
<1> QED  BY <1>1, <1>2

\* The inductive invariant: at every moment there is a chain that is linked,
\* holds the clients' blocks, has no two holes in a row, and is what the
\* running search goes along.
THEOREM HeapIsSound == Spec => []IInv
BY InitSound, StepSound, PTL DEF Spec

\* The variables of the heap keep their types.
THEOREM TypeCorrect == Spec => []TypeOK
BY HeapIsSound, PTL DEF IInv

\* What the clients have stays theirs, however nodes are split and merged
\* around it.
THEOREM BlocksStayIntact == Spec => []LiveBlocksIntact
<1>1. IInv => LiveBlocksIntact
  BY DEF IInv, Sound, Linked, Held, LiveBlocksIntact
<1> QED  BY <1>1, HeapIsSound, PTL

\* The nodes a search visits are nodes of the chain.
LEMMA ChainIsSound ==
  ASSUME TypeOK, NEW C \in SUBSET DOMAIN headers, Linked(C)
  PROVE  Chain \subseteq C
<1> SUFFICES ASSUME NEW a \in Chain
             PROVE  a \in C
  OBVIOUS
<1> DEFINE Closed(S) == /\ 0 \in S
                        /\ \A x \in S : LET b == NextOf(x, headers[x])
                                        IN  b \in DOMAIN headers /\ b < heap_head => b \in S
<1>1. /\ a \in DOMAIN headers /\ a < heap_head
      /\ \A S \in SUBSET DOMAIN headers : Closed(S) => a \in S
  BY DEF Chain
<1>2. 0 \in C
  BY <1>1 DEF TypeOK, Linked
<1>3. \A x \in C : NextOf(x, headers[x]) < heap_head => NextOf(x, headers[x]) \in C
  <2> SUFFICES ASSUME NEW x \in C, NextOf(x, headers[x]) < heap_head
               PROVE  NextOf(x, headers[x]) \in C
    OBVIOUS
  <2>1. NextOf(x, headers[x]) \in Nat /\ heap_head \in Nat
    BY AfterIsBehind DEF TypeOK
  <2> QED  BY <2>1 DEF Linked, After
<1>4. Closed(C)
  BY <1>2, <1>3
<1> QED  BY <1>1, <1>4

\* Freeing merges on both sides, so no hole lies next to another one.
THEOREM HolesAreMerged == Spec => []Coalesced
<1>1. IInv => Coalesced
  <2> SUFFICES ASSUME IInv
               PROVE  Coalesced
    OBVIOUS
  <2>1. PICK C \in SUBSET DOMAIN headers : Sound(C)
    BY DEF IInv
  <2>2. TypeOK /\ Linked(C) /\ NoTwoHoles(C)
    BY <2>1 DEF IInv, Sound
  <2>3. Chain \subseteq C
    BY <2>2, ChainIsSound
  <2> QED  BY <2>2, <2>3 DEF Coalesced, NoTwoHoles, After
<1> QED  BY <1>1, HeapIsSound, PTL

\* A search for a block that was not freed yet does not end without it.
THEOREM FreeFindsItsBlock == Spec => LiveBlocksAreFound
<1>1. IInv /\ [Next]_vars => [kfree_unknown => arg \notin DOMAIN live]_vars
  <2> SUFFICES ASSUME IInv, kfree_unknown, arg \in DOMAIN live
               PROVE  FALSE
    OBVIOUS
  <2>1. PICK C \in SUBSET DOMAIN headers : Sound(C)
    BY DEF IInv
  <2>2. TypeOK /\ Linked(C) /\ Held(C) /\ Seeking(C)
    BY <2>1 DEF IInv, Sound
  <2>3. pc = "kfree" /\ current >= heap_head
    BY DEF kfree_unknown
  <2>4. arg - HDR >= current
    BY <2>2, <2>3 DEF Seeking
  <2>5. arg - HDR \in Nat /\ arg - HDR < heap_head
    BY <2>2 DEF Held, Linked, TypeOK
  <2> QED  BY <2>2, <2>3, <2>4, <2>5 DEF TypeOK
<1> QED  BY <1>1, HeapIsSound, PTL DEF Spec, LiveBlocksAreFound

\* What kmalloc returns is a block nobody has.
LEMMA GrantIsNew ==
  ASSUME IInv, kmalloc_append \/ kmalloc_reuse
  PROVE  /\ current + HDR \notin DOMAIN live
         /\ \E hs : Return(current, hs)
<1>1. PICK C \in SUBSET DOMAIN headers : Sound(C)
  BY DEF IInv
<1>2. TypeOK /\ Linked(C) /\ Held(C) /\ Searching(C)
  BY <1>1 DEF IInv, Sound
<1>3. current \in Nat /\ HDR \in Nat /\ heap_head \in Nat /\ USED # FREE
  BY <1>2, HeapAssumption DEF TypeOK, USED, FREE
<1>4. current + HDR \in DOMAIN live =>
        current \in C /\ headers[current].status = USED
  <2> SUFFICES ASSUME NEW p \in DOMAIN live, p = current + HDR
               PROVE  current \in C /\ headers[current].status = USED
    OBVIOUS
  <2>1. p - HDR = current
    BY <1>3
  <2>2. p - HDR \in C /\ headers[p - HDR].status = USED
    BY <1>2 DEF Held
  <2> QED  BY <2>1, <2>2
<1>5. CASE kmalloc_append
  <2>1. current >= heap_head /\ Return(current, Write(headers, current, arg, USED))
    BY <1>5 DEF kmalloc_append
  <2>2. current \notin C
    BY <1>2, <1>3, <2>1 DEF Linked
  <2> QED  BY <1>4, <2>1, <2>2
<1>6. CASE kmalloc_reuse
  <2>1. pc # "idle" /\ current < heap_head
    BY <1>6 DEF kmalloc_reuse
  <2>2. /\ current \in C /\ current \in DOMAIN headers
        /\ Reads(current) = {headers[current]}
    BY <1>2, <2>1, AtANode
  <2>3. /\ headers[current].status = FREE
        /\ \E hs : Return(current, hs)
    BY <1>2, <1>6, <2>2, ReuseIs
  <2> QED  BY <1>3, <1>4, <2>3
<1> QED  BY <1>5, <1>6

\* Every step of the heap gives out a block that is disjoint from all others,
\* takes the one back that it was asked to, or leaves the blocks alone.
THEOREM HeapImplementsArena == Spec => ImplementsArena
<1> DEFINE bar == {[addr |-> p, len |-> live[p]] : p \in DOMAIN live}
<1>1. Init => Blocks!Init
  BY DEF Init, Blocks!Init
<1>2. ASSUME IInv, IInv', kmalloc_append \/ kmalloc_reuse
      PROVE  Blocks!Next
  <2>1. \E hs : Return(current, hs)
    BY <1>2, GrantIsNew
  <2>2. /\ DOMAIN live' = DOMAIN live \cup {current + HDR}
        /\ live'[current + HDR] = arg
        /\ \A p \in DOMAIN live : p # current + HDR => live'[p] = live[p]
        /\ pc' = "idle"
        /\ UNCHANGED <<arg, current, previous>>
    BY <2>1, ReturnGives
  <2>3. current + HDR \notin DOMAIN live
    BY <1>2, GrantIsNew
  <2>4. /\ current \in Nat /\ HDR \in Nat /\ arg \in Nat
        /\ \A p \in DOMAIN live : p \in Nat /\ live[p] \in Nat
    BY <1>2, HeapAssumption DEF IInv, TypeOK
  <2> PICK b : b = [addr |-> current + HDR, len |-> arg]
    OBVIOUS
  <2>5. bar' = bar \cup {b}
    BY <2>2, <2>3
  <2>6. ASSUME NEW c \in bar
        PROVE  b.addr # c.addr /\ Blocks!Disjoint(b, c)
    <3>1. PICK p \in DOMAIN live : c = [addr |-> p, len |-> live[p]]
      BY <2>6
    <3>2. p # current + HDR /\ live'[p] = live[p] /\ p \in DOMAIN live'
      BY <2>2, <2>3, <3>1
    <3>3. LiveBlocksIntact'
      BY <1>2 DEF IInv, Sound, Linked, Held, LiveBlocksIntact
    <3>4. /\ current + HDR <= p \/ p + live[p] <= current
          /\ p <= current + HDR \/ current + HDR + arg <= p - HDR
      <4>1. current \in DOMAIN headers' /\ p - HDR \in DOMAIN headers'
        <5>1. PICK r \in DOMAIN live' : r = current + HDR
          BY <2>2
        <5>2. r - HDR = current
          BY <2>4, <5>1
        <5>3. r - HDR \in DOMAIN headers' /\ p - HDR \in DOMAIN headers'
          BY <3>2, <3>3 DEF LiveBlocksIntact
        <5> QED  BY <5>2, <5>3
      <4>2. current + HDR <= p \/ p + live[p] <= current
        BY <3>2, <3>3, <4>1 DEF LiveBlocksIntact
      <4>3. p - HDR + HDR <= current + HDR \/ current + HDR + arg <= p - HDR
        BY <2>2, <3>3, <4>1 DEF LiveBlocksIntact
      <4> QED  BY <2>4, <4>2, <4>3
    <3>5. p + live[p] <= current + HDR \/ current + HDR + arg <= p
      BY <2>4, <3>2, <3>4
    <3> QED  BY <3>1, <3>2, <3>5 DEF Blocks!Disjoint
  <2>7. Blocks!Alloc(b)
    BY <2>5, <2>6 DEF Blocks!Alloc
  <2>8. b \in bar'
    BY <2>5
  <2>9. \E c \in bar' : Blocks!Alloc(c)
    <3> HIDE DEF bar
    <3> QED  BY <2>7, <2>8
  <2> QED  BY <2>9 DEF Blocks!Next
<1>3. ASSUME IInv, kfree_found
      PROVE  Blocks!Next \/ UNCHANGED bar
  <2>1. live' = [p \in DOMAIN live \ {arg} |-> live[p]]
    BY <1>3 DEF kfree_found
  <2>2. CASE arg \notin DOMAIN live
    <3>1. DOMAIN live' = DOMAIN live /\ \A p \in DOMAIN live : live'[p] = live[p]
      BY <2>1, <2>2
    <3> QED  BY <3>1
  <2>3. CASE arg \in DOMAIN live
    <3> PICK b : b = [addr |-> arg, len |-> live[arg]]
      OBVIOUS
    <3>1. /\ DOMAIN live' = DOMAIN live \ {arg}
          /\ \A p \in DOMAIN live \ {arg} : live'[p] = live[p]
      BY <2>1
    <3>2. b \in bar
      BY <2>3
    <3>3. bar' = bar \ {b}
      BY <3>1
    <3>4. Blocks!Free(b)
      BY <3>2, <3>3 DEF Blocks!Free
    <3> QED  BY <3>2, <3>4 DEF Blocks!Next
  <2> QED  BY <2>2, <2>3
<1>4. ASSUME Next, ~kmalloc_append, ~kmalloc_reuse, ~kfree_found
      PROVE  UNCHANGED bar
  <2>1. live' = live
    BY <1>4 DEF Next, Loop, kmalloc, kfree, kmalloc_next, kfree_next, kfree_unknown
  <2> QED  BY <2>1
<1>5. IInv /\ IInv' /\ [Next]_vars => [Blocks!Next]_bar
  BY <1>2, <1>3, <1>4 DEF vars
<1> QED  BY <1>1, <1>5, HeapIsSound, PTL DEF Spec, ImplementsArena, Blocks!Spec

----------------------------------------------------------------------------
(***************************************************************************)
(* Pages.                                                                  *)
(***************************************************************************)
LEMMA PageIs ==
  ASSUME NEW a \in Nat
  PROVE  /\ Page(a) \in Nat
         /\ Page(a) * PAGE <= a + Origin
         /\ a + Origin < Page(a) * PAGE + PAGE
<1>1. a + Origin \in Nat /\ PAGE \in Nat \ {0}
  BY PagesAssumption
<1>2. \A n \in Nat, d \in Nat \ {0} :
        /\ n \div d \in Nat
        /\ (n \div d) * d <= n
        /\ n < (n \div d) * d + d
  OBVIOUS
<1> QED  BY <1>1, <1>2 DEF Page

LEMMA PageGrows ==
  ASSUME NEW a \in Nat, NEW b \in Nat, a <= b
  PROVE  Page(a) <= Page(b)
<1> SUFFICES ASSUME Page(b) + 1 <= Page(a)
             PROVE  FALSE
  BY PageIs
<1>1. \A m, n, d \in Nat : m + 1 <= n => m * d + d <= n * d
  <2> TAKE m, n, d \in Nat
  <2> HAVE m + 1 <= n
  <2>1. (m + 1) * d = m * d + d
    OBVIOUS
  <2>2. (m + 1) * d <= n * d
    OBVIOUS
  <2> QED  BY <2>1, <2>2
<1> DEFINE pa == Page(a)
           pb == Page(b)
<1>2. /\ pa \in Nat /\ pb \in Nat /\ pa * PAGE <= a + Origin
      /\ b + Origin < pb * PAGE + PAGE /\ pb + 1 <= pa
      /\ PAGE \in Nat /\ Origin \in Nat
  BY PageIs, PagesAssumption
<1> HIDE DEF pa, pb
<1>3. pb * PAGE + PAGE <= pa * PAGE
  BY <1>1, <1>2
<1>4. pa * PAGE \in Nat /\ pb * PAGE \in Nat
  BY <1>2
<1> QED  BY <1>2, <1>3, <1>4

\* The bytes from first to last are in the pages from the one of first to
\* the one of last.
LEMMA PagesAre ==
  ASSUME NEW first \in Nat, NEW last \in Nat, first <= last
  PROVE  /\ \A x \in Pages(first, last) : x \in Nat /\ Page(first) <= x /\ x <= Page(last)
         /\ Page(first) \in Pages(first, last)
         /\ Page(last) \in Pages(first, last)
<1>1. \A a \in first .. last : a \in Nat /\ first <= a /\ a <= last
  OBVIOUS
<1>2. \A a \in first .. last :
        Page(a) \in Nat /\ Page(first) <= Page(a) /\ Page(a) <= Page(last)
  BY <1>1, PageIs, PageGrows
<1>3. first \in first .. last /\ last \in first .. last
  OBVIOUS
<1> QED  BY <1>2, <1>3 DEF Pages

LEMMA HeaderPagesAre ==
  ASSUME NEW a \in Nat
  PROVE  /\ a + HDR - 1 \in Nat /\ a <= a + HDR - 1
         /\ Page(a) \in Nat /\ Page(a + HDR - 1) \in Nat
         /\ \A x \in HeaderPages(a) :
              x \in Nat /\ Page(a) <= x /\ x <= Page(a + HDR - 1)
         /\ Page(a) \in HeaderPages(a)
<1>1. a + HDR - 1 \in Nat /\ a <= a + HDR - 1
  BY HeapAssumption
<1> DEFINE last == a + HDR - 1
<1> HIDE DEF last
<1>2. last \in Nat /\ a <= last
  BY <1>1 DEF last
<1>3. /\ \A x \in Pages(a, last) : x \in Nat /\ Page(a) <= x /\ x <= Page(last)
      /\ Page(a) \in Pages(a, last)
  BY <1>2, PagesAre
<1> QED  BY <1>1, <1>2, <1>3, PageIs DEF last, HeaderPages

LEMMA FirstPage ==
  /\ Page(0) = 0
  /\ Page(HDR - 1) = 0
<1>1. /\ PAGE \in Nat \ {0} /\ Origin \in Nat /\ HDR \in Nat \ {0}
      /\ Origin + HDR <= PAGE
  BY HeapAssumption, PagesAssumption
<1>2. \A n \in Nat, d \in Nat \ {0} : n < d => n \div d = 0
  OBVIOUS
<1>3. 0 + Origin \in Nat /\ 0 + Origin < PAGE
      /\ HDR - 1 + Origin \in Nat /\ HDR - 1 + Origin < PAGE
  BY <1>1
<1> QED  BY <1>1, <1>2, <1>3 DEF Page

\* The steps with pages are steps of the heap.
LEMMA PagesStepIsStep == [PagesNext]_pageVars => [Next]_vars
BY DEF PagesNext, PagesLoop, Quiet, Halts, walk, serve, kmalloc_faults, search,
       merge, kfree_faults, Next, Loop, pageVars, vars

THEOREM PagesImplementHeap == PagesSpec => Spec
BY PagesStepIsStep, PTL DEF PagesSpec, PagesInit, Spec

\* Wherever the heap grows to, with any page faults, its blocks stay intact.
THEOREM BlocksStayIntactInPages == PagesSpec => []LiveBlocksIntact
BY PagesImplementHeap, BlocksStayIntact, PTL

\* So do the other promises of the heap: holes are merged, kfree finds its block,
\* and the blocks are an arena.
THEOREM PromisesHoldInPages ==
  PagesSpec => []Coalesced /\ LiveBlocksAreFound /\ ImplementsArena
BY PagesImplementHeap, HolesAreMerged, FreeFindsItsBlock, HeapImplementsArena, PTL

----------------------------------------------------------------------------
(***************************************************************************)
(* Page faults.                                                            *)
(***************************************************************************)
\* A node that ends, with the header behind it, outside of the region.
Outgrown ==
  \E a \in DOMAIN headers : region <= Page(NextOf(a, headers[a]) + HDR - 1)

\* Headers are where they could be written, and kmalloc is at a mapped page.
MappedInv ==
  /\ region \in Nat \ {0} /\ InRegion \subseteq mapped
  /\ \A a \in DOMAIN headers : HeaderPages(a) \subseteq mapped
  /\ pc = "kmalloc" => Page(current) \in mapped

FaultInv ==
  fault # NoFault => FaultsAtPageEdges /\ Outgrown

\* A page that is not mapped is not in the region.
LEMMA Unmapped ==
  ASSUME MappedInv, NEW x \in Nat, x \notin mapped
  PROVE  region <= x
BY DEF MappedInv, InRegion

\* What a search reads in front of heap_head is an intact header.
LEMMA SearchReads ==
  ASSUME IInv, pc # "idle", current < heap_head
  PROVE  /\ current \in DOMAIN headers
         /\ Reads(current) = {headers[current]}
<1>1. PICK C \in SUBSET DOMAIN headers : Sound(C)
  BY DEF IInv
<1>2. TypeOK /\ Linked(C) /\ Searching(C)
  BY <1>1 DEF IInv, Sound
<1> QED  BY <1>1, <1>2, AtANode

\* The nodes kfree leads to in front of heap_head are intact, too.
LEMMA NextReads ==
  ASSUME IInv, pc # "idle", current < heap_head,
         NextOf(current, headers[current]) < heap_head
  PROVE  NextOf(current, headers[current]) \in DOMAIN headers
<1>1. PICK C \in SUBSET DOMAIN headers : Sound(C)
  BY DEF IInv
<1>2. TypeOK /\ Linked(C) /\ Searching(C)
  BY <1>1 DEF IInv, Sound
<1>3. current \in C
  BY <1>1, <1>2, AtANode
<1>4. NextOf(current, headers[current]) \in Nat /\ heap_head \in Nat
  BY <1>2, <1>3, AfterIsBehind DEF TypeOK
<1> QED  BY <1>2, <1>3, <1>4 DEF Linked, After

\* The end of a search is the end of a node, or the start of the heap.
LEMMA EndIsReached ==
  ASSUME IInv, pc # "idle", current >= heap_head
  PROVE  \/ current = 0
         \/ \E a \in DOMAIN headers : NextOf(a, headers[a]) = current
<1>1. PICK C \in SUBSET DOMAIN headers : Sound(C)
  BY DEF IInv
<1>2. TypeOK /\ Linked(C) /\ Searching(C)
  BY <1>1 DEF IInv, Sound
<1>3. current \notin C
  BY <1>2 DEF TypeOK, Linked
<1> QED  BY <1>2, <1>3 DEF Searching, After

LEMMA MergeAddsNothing ==
  ASSUME IInv, kfree_found
  PROVE  DOMAIN headers' \subseteq DOMAIN headers
<1>1. PICK C \in SUBSET DOMAIN headers : Sound(C)
  BY DEF IInv
<1>2. TypeOK /\ Linked(C) /\ Searching(C) /\ Seeking(C)
  BY <1>1 DEF IInv, Sound
<1>3. pc = "kfree" /\ current < heap_head
  BY DEF kfree_found
<1>4. /\ current \in C /\ Reads(current) = {headers[current]}
      /\ previous = NULL \/ previous \in C
  BY <1>2, <1>3, AtANode DEF Seeking
<1>5. /\ current \in DOMAIN headers
      /\ previous = NULL \/ previous \in DOMAIN headers
  BY <1>1, <1>4
<1>6. \E s1, s2 :
        \/ headers' = Write(headers, current, s1, FREE)
        \/ /\ previous # NULL
           /\ headers' = Write(Write(headers, current, s1, FREE), previous, s2, FREE)
  BY <1>1, <1>2, <1>4, FoundIs
<1>7. PICK s1, s2 :
        \/ headers' = Write(headers, current, s1, FREE)
        \/ /\ previous # NULL
           /\ headers' = Write(Write(headers, current, s1, FREE), previous, s2, FREE)
  BY <1>6
<1> DEFINE freed == Write(headers, current, s1, FREE)
<1>8. \A x \in DOMAIN freed : x \in DOMAIN headers
  BY <1>5, WriteIs
<1> HIDE DEF freed
<1>9. \A x \in DOMAIN Write(freed, previous, s2, FREE) : x \in DOMAIN freed \/ x = previous
  BY WriteIs
<1> QED  BY <1>5, <1>7, <1>8, <1>9 DEF freed

\* What serve writes and grants.
LEMMA ServeWrites ==
  ASSUME IInv, serve, MappedInv
  PROVE  /\ \A a \in DOMAIN headers' : HeaderPages(a) \subseteq mapped
         /\ current \in DOMAIN headers'
         /\ headers'[current].size \in Nat /\ arg <= headers'[current].size
         /\ pc' = "idle" /\ arg' = arg
         /\ fault = NoFault
<1>1. TypeOK
  BY DEF IInv
<1>2. HeaderPages(current) \subseteq mapped /\ fault = NoFault
  BY DEF serve, Runs
<1>3. \A a \in DOMAIN headers : HeaderPages(a) \subseteq mapped
  BY DEF MappedInv
<1>4. arg \in Nat
  BY <1>1 DEF TypeOK
<1>5. CASE kmalloc_append
  <2>1. /\ DOMAIN headers' \subseteq DOMAIN headers \cup {current}
        /\ current \in DOMAIN headers'
        /\ headers'[current] = [size |-> arg, status |-> USED]
    BY <1>1, <1>5, AppendIs
  <2>2. pc' = "idle" /\ arg' = arg
    BY <1>5 DEF kmalloc_append, Return
  <2> QED  BY <1>2, <1>3, <1>4, <2>1, <2>2
<1>6. CASE kmalloc_reuse /\ SplitPages(current) \subseteq mapped
  <2>1. pc # "idle" /\ current < heap_head
    BY <1>6 DEF kmalloc_reuse
  <2>2. current \in DOMAIN headers /\ Reads(current) = {headers[current]}
    BY <2>1, SearchReads
  <2>3. /\ headers[current].status = FREE
        /\ \E size \in Nat : Reused(size)
        /\ \E hs : Return(current, hs)
    BY <1>1, <1>6, <2>2, ReuseIs
  <2>4. PICK size \in Nat : Reused(size)
    BY <2>3
  <2>5. /\ arg <= size /\ current \in DOMAIN headers'
        /\ headers'[current] = [size |-> size, status |-> USED]
        /\ Whole(size) \/ SplitOff(size)
    BY <2>4 DEF Reused
  <2>6. pc' = "idle" /\ arg' = arg
    BY <2>3 DEF Return
  <2>7. CASE Whole(size)
    <3>1. DOMAIN headers' \subseteq DOMAIN headers \cup {current}
      BY <2>7 DEF Whole
    <3> QED  BY <1>2, <1>3, <2>5, <2>6, <3>1
  <2>8. CASE SplitOff(size)
    <3> DEFINE B == current + HDR + arg
    <3>1. B = Behind(size)
      <4>1. size = arg /\ current \in Nat /\ HDR \in Nat
        BY <1>1, <2>8, HeapAssumption DEF SplitOff, TypeOK
      <4> QED  BY <1>4, <4>1 DEF Behind
    <3>2. DOMAIN headers' \subseteq DOMAIN headers \cup {current, B}
      BY <2>8, <3>1 DEF SplitOff
    <3>3. HeaderPages(B) \subseteq SplitPages(current)
      <4>1. headers[current].size \in Nat /\ HDR \in Nat
        BY <1>1, <2>2, AfterIsBehind, HeapAssumption
      <4>2. size = arg /\ size + HDR < headers[current].size
        BY <2>8 DEF SplitOff
      <4>3. HasLeftover(headers[current].size, arg + HDR)
        BY <4>2 DEF HasLeftover
      <4>4. Fits(headers[current])
        BY <1>4, <2>3, <4>1, <4>2 DEF Fits
      <4>5. headers[current] \in {x \in Reads(current) : Fits(x)}
        BY <2>2, <4>4
      <4> QED  BY <4>3, <4>5 DEF SplitPages
    <3> QED  BY <1>2, <1>3, <1>6, <2>5, <2>6, <3>2, <3>3
  <2> QED  BY <2>5, <2>7, <2>8
<1> QED  BY <1>5, <1>6 DEF serve, Runs

LEMMA MappedInit == PagesInit => MappedInv /\ FaultInv
<1> SUFFICES ASSUME PagesInit
             PROVE  MappedInv /\ FaultInv
  OBVIOUS
<1>1. DOMAIN headers = {} /\ pc = "idle" /\ fault = NoFault
  BY DEF PagesInit, Init
<1>2. region \in Nat \ {0} /\ InRegion \subseteq mapped
  BY PagesAssumption DEF PagesInit
<1> QED  BY <1>1, <1>2 DEF MappedInv, FaultInv

LEMMA MappedStep ==
  ASSUME IInv, MappedInv, [PagesNext]_pageVars
  PROVE  MappedInv'
<1>0. TypeOK
  BY DEF IInv
<1>1. /\ region \in Nat \ {0} /\ InRegion \subseteq mapped
      /\ \A a \in DOMAIN headers : HeaderPages(a) \subseteq mapped
  BY DEF MappedInv
<1>2. CASE UNCHANGED <<vars, region, mapped>>
  <2>1. /\ headers' = headers /\ pc' = pc /\ current' = current
        /\ region' = region /\ mapped' = mapped
    BY <1>2 DEF vars
  <2> QED  BY <2>1 DEF MappedInv, InRegion
<1>3. CASE walk
  <2>1. /\ headers' = headers /\ pc' = pc /\ region' = region
        /\ mapped' = mapped \cup {Page(current')}
    BY <1>3 DEF walk, kmalloc_next, map_if_not_mapped
  <2> QED  BY <1>1, <2>1 DEF MappedInv, InRegion, Page
<1>4. CASE serve
  <2>1. /\ \A a \in DOMAIN headers' : HeaderPages(a) \subseteq mapped
        /\ pc' = "idle"
    BY <1>4, ServeWrites
  <2>2. mapped \subseteq mapped' /\ region' = region
    BY <1>4 DEF serve, Granted
  <2> QED  BY <1>1, <2>1, <2>2 DEF MappedInv, InRegion
<1>5. CASE search
  <2>1. headers' = headers /\ pc' = "kfree" /\ region' = region /\ mapped' = mapped
    BY <1>5 DEF search, kfree_next
  <2> QED  BY <1>1, <2>1 DEF MappedInv, InRegion
<1>6. CASE merge
  <2>1. kfree_found /\ region' = region /\ mapped' = mapped /\ pc' = "idle"
    BY <1>6 DEF merge, kfree_found
  <2>2. DOMAIN headers' \subseteq DOMAIN headers
    BY <2>1, MergeAddsNothing
  <2> QED  BY <1>1, <2>1, <2>2 DEF MappedInv, InRegion
<1>7. CASE Quiet(kfree_unknown) \/ \E p \in HDR .. Cells : Quiet(kfree(p))
  <2>1. headers' = headers /\ pc' # "kmalloc" /\ region' = region /\ mapped' = mapped
    BY <1>7 DEF Quiet, kfree_unknown, kfree
  <2> QED  BY <1>1, <2>1 DEF MappedInv, InRegion
<1>8. CASE \E size \in Sizes : Quiet(kmalloc(size))
  <2>1. headers' = headers /\ current' = 0 /\ region' = region /\ mapped' = mapped
    BY <1>8 DEF Quiet, kmalloc
  <2>2. Page(0) \in mapped
    BY <1>1, FirstPage DEF InRegion
  <2> QED  BY <1>1, <2>1, <2>2 DEF MappedInv, InRegion, Page
<1>9. CASE kmalloc_faults \/ kfree_faults
  BY <1>2, <1>9 DEF kmalloc_faults, kfree_faults, Halts
<1> QED
  BY <1>2, <1>3, <1>4, <1>5, <1>6, <1>7, <1>8, <1>9
  DEF PagesNext, PagesLoop, pageVars

LEMMA FaultStep ==
  ASSUME IInv, MappedInv, FaultInv, [PagesNext]_pageVars
  PROVE  FaultInv'
<1>0. TypeOK /\ current \in Nat /\ arg \in Nat /\ HDR \in Nat \ {0}
      /\ heap_head \in Nat /\ region \in Nat
  BY HeapAssumption DEF IInv, TypeOK, MappedInv
<1>1. CASE UNCHANGED pageVars
  BY <1>1 DEF pageVars, vars, FaultInv, FaultsAtPageEdges, Outgrown, Straddles,
              NoFault, Page
<1>2. CASE fault' = NoFault
  BY <1>2 DEF FaultInv, NoFault
<1>3. CASE serve /\ fault' # NoFault
  <2>1. /\ current \in DOMAIN headers'
        /\ headers'[current].size \in Nat /\ arg <= headers'[current].size
        /\ arg' = arg
    BY <1>3, ServeWrites
  <2>2. /\ arg # 0 /\ region' = region /\ fault' = [by |-> "client", at |-> current]
        /\ ~(Pages(current + HDR, current + HDR + arg - 1) \subseteq Granted(current))
    BY <1>3 DEF serve, Used, NoFault
  <2> DEFINE first == current + HDR
             last == current + HDR + arg - 1
             end == NextOf(current, headers'[current]) + HDR - 1
  <2>3. /\ first \in Nat /\ last \in Nat /\ first <= last
        /\ end \in Nat /\ last <= end
    BY <1>0, <2>1, <2>2 DEF NextOf
  <2> HIDE DEF first, last, end
  <2>4. /\ \A x \in Pages(first, last) : x \in Nat /\ Page(first) <= x /\ x <= Page(last)
        /\ Page(first) \in Nat /\ Page(last) \in Nat /\ Page(end) \in Nat
        /\ Page(last) <= Page(end)
    BY <2>3, PagesAre, PageIs, PageGrows
  <2>5. PICK x \in Pages(first, last) : x \notin mapped /\ x # Page(first)
    BY <2>2 DEF first, last, Granted
  <2>6. region <= x
    BY <2>4, <2>5, Unmapped
  <2>7. Page(first) # Page(last)
    BY <2>4, <2>5
  <2>8. region <= Page(end)
    BY <1>0, <2>4, <2>5, <2>6
  <2>9. FaultsAtPageEdges'
    BY <2>1, <2>2, <2>7 DEF FaultsAtPageEdges, first, last, Page
  <2>10. Outgrown'
    BY <2>1, <2>2, <2>8 DEF Outgrown, end, Page
  <2> QED  BY <2>9, <2>10 DEF FaultInv
<1>4. CASE pc = "kmalloc" /\ Halts(HeaderPages(current), "header", current)
  <2>1. /\ ~(HeaderPages(current) \subseteq mapped)
        /\ fault' = [by |-> "header", at |-> current]
        /\ UNCHANGED <<vars, region, mapped>>
    BY <1>4 DEF Halts
  <2>2. /\ \A x \in HeaderPages(current) :
             x \in Nat /\ Page(current) <= x /\ x <= Page(current + HDR - 1)
        /\ Page(current) \in Nat /\ Page(current + HDR - 1) \in Nat
    BY <1>0, HeaderPagesAre
  <2>3. PICK x \in HeaderPages(current) : x \notin mapped
    BY <2>1
  <2>4. region <= x /\ x \in Nat
    BY <2>2, <2>3, Unmapped
  <2>5. Page(current) \in mapped
    BY <1>4 DEF MappedInv
  <2>6. Page(current) # Page(current + HDR - 1) /\ region <= Page(current + HDR - 1)
    BY <1>0, <2>2, <2>3, <2>4, <2>5
  <2>7. current >= heap_head
    <3>1. current \notin DOMAIN headers
      BY <2>3 DEF MappedInv
    <3> QED  BY <1>0, <1>4, <3>1, SearchReads
  <2>8. current # 0
    <3>1. 0 + HDR - 1 = HDR - 1
      BY <1>0
    <3>2. Page(HDR - 1) = 0 /\ region # 0
      BY FirstPage DEF MappedInv
    <3>3. current = 0 => Page(current + HDR - 1) = 0
      BY <3>1, <3>2
    <3> QED  BY <1>0, <2>6, <3>2, <3>3
  <2>9. PICK a \in DOMAIN headers : NextOf(a, headers[a]) = current
    BY <1>4, <2>7, <2>8, EndIsReached
  <2>10. FaultsAtPageEdges'
    BY <2>1, <2>6, <2>7 DEF FaultsAtPageEdges, Straddles, Page, vars
  <2>11. Outgrown
    BY <2>6, <2>9 DEF Outgrown
  <2>12. Outgrown'
    BY <2>1, <2>11 DEF Outgrown, Page, vars
  <2> QED  BY <2>10, <2>12 DEF FaultInv
<1>5. CASE /\ pc = "kmalloc" /\ current < heap_head
           /\ Runs(HeaderPages(current))
           /\ Halts(SplitPages(current), "split", current)
  <2>1. /\ ~(SplitPages(current) \subseteq mapped)
        /\ HeaderPages(current) \subseteq mapped
        /\ fault' = [by |-> "split", at |-> current]
        /\ UNCHANGED <<vars, region, mapped>>
    BY <1>5 DEF Halts, Runs
  <2>2. current \in DOMAIN headers /\ Reads(current) = {headers[current]}
    BY <1>5, SearchReads
  <2>3. /\ arg + HDR < headers[current].size
        /\ ~(HeaderPages(current + HDR + arg) \subseteq mapped)
    BY <2>1, <2>2 DEF SplitPages, HasLeftover
  <2> DEFINE B == current + HDR + arg
             last == current + HDR + arg + HDR - 1
             end == NextOf(current, headers[current]) + HDR - 1
  <2>4. headers[current].size \in Nat
        /\ NextOf(current, headers[current]) = current + headers[current].size + HDR
    BY <1>0, <2>2, AfterIsBehind
  <2>5. /\ B \in Nat /\ last \in Nat /\ end \in Nat /\ B + HDR - 1 = last
        /\ current <= B /\ B <= last /\ last <= end
    BY <1>0, <2>3, <2>4
  <2>6. ~(HeaderPages(B) \subseteq mapped)
    BY <2>3
  <2> HIDE DEF B, last, end
  <2>7. /\ \A x \in HeaderPages(B) : x \in Nat /\ Page(B) <= x /\ x <= Page(last)
        /\ Page(B) \in Nat /\ Page(last) \in Nat /\ Page(end) \in Nat /\ Page(current) \in Nat
        /\ Page(current) <= Page(B) /\ Page(last) <= Page(end)
    BY <1>0, <2>5, HeaderPagesAre, PageIs, PageGrows
  <2>8. Page(current) \in mapped
    BY <1>0, <2>1, HeaderPagesAre
  <2>9. PICK x \in HeaderPages(B) : x \notin mapped
    BY <2>6
  <2>10. region <= x
    BY <2>7, <2>9, Unmapped
  <2>11. Page(current) # Page(last) /\ region <= Page(end)
    BY <1>0, <2>7, <2>8, <2>9, <2>10
  <2>12. FaultsAtPageEdges'
    BY <2>1, <2>11 DEF FaultsAtPageEdges, last, Page, vars
  <2>13. Outgrown
    BY <2>2, <2>11 DEF Outgrown, end
  <2>14. Outgrown'
    BY <2>1, <2>13 DEF Outgrown, Page, vars
  <2> QED  BY <2>12, <2>14 DEF FaultInv
<1>6. CASE kfree_faults
  <2>1. /\ pc = "kfree" /\ current < heap_head
        /\ ~(HeaderPages(current) \cup NextPages \subseteq mapped)
        /\ fault' = [by |-> "next", at |-> current]
        /\ UNCHANGED <<vars, region, mapped>>
    BY <1>6 DEF kfree_faults, Halts
  <2>2. current \in DOMAIN headers /\ Reads(current) = {headers[current]}
    BY <2>1, SearchReads
  <2> DEFINE next == NextOf(current, headers[current])
             end == next + HDR - 1
  <2>3. next \in Nat /\ NextPages \subseteq HeaderPages(next)
    BY <1>0, <2>2, AfterIsBehind DEF NextPages
  <2>4. HeaderPages(current) \subseteq mapped
    BY <2>2 DEF MappedInv
  <2> HIDE DEF next
  <2>5. PICK x \in HeaderPages(next) : x \notin mapped
    BY <2>1, <2>3, <2>4
  <2>6. x \in Nat /\ x <= Page(end) /\ Page(end) \in Nat
    BY <2>3, <2>5, HeaderPagesAre
  <2>7. region <= Page(end)
    BY <1>0, <2>5, <2>6, Unmapped
  <2>8. next >= heap_head
    <3>1. next \notin DOMAIN headers
      BY <2>5 DEF MappedInv
    <3>2. ~(next < heap_head)
      BY <2>1, <3>1, NextReads DEF next
    <3> QED  BY <1>0, <2>3, <3>2
  <2>9. FaultsAtPageEdges'
    BY <2>1, <2>8 DEF FaultsAtPageEdges, next, vars
  <2>10. Outgrown
    BY <2>2, <2>7 DEF Outgrown, next
  <2>11. Outgrown'
    BY <2>1, <2>10 DEF Outgrown, Page, vars
  <2> QED  BY <2>9, <2>11 DEF FaultInv
<1>7. CASE PagesNext /\ fault' # NoFault
  <2>1. ASSUME walk \/ search \/ merge \/ Quiet(kfree_unknown)
                 \/ (\E size \in Sizes : Quiet(kmalloc(size)))
                 \/ (\E p \in HDR .. Cells : Quiet(kfree(p)))
        PROVE  fault' = NoFault
    BY <2>1 DEF walk, search, merge, Quiet, Runs
  <2> QED
    BY <1>3, <1>4, <1>5, <1>6, <1>7, <2>1 DEF PagesNext, PagesLoop, kmalloc_faults
<1> QED  BY <1>1, <1>2, <1>7

LEMMA FaultsAreSound == PagesSpec => [](MappedInv /\ FaultInv)
<1>1. IInv /\ MappedInv /\ FaultInv /\ [PagesNext]_pageVars => (MappedInv /\ FaultInv)'
  BY MappedStep, FaultStep
<1>2. PagesSpec => []IInv
  BY PagesImplementHeap, HeapIsSound, PTL
<1> QED  BY <1>1, <1>2, MappedInit, PTL DEF PagesSpec

\* A fault is always at the edge of a page, in one of four ways.
THEOREM FaultsNeedPageEdges == PagesSpec => []FaultsAtPageEdges
<1>1. FaultInv => FaultsAtPageEdges
  BY DEF FaultInv, FaultsAtPageEdges, NoFault
<1> QED  BY <1>1, FaultsAreSound, PTL

\* Inside the region that init_kheap got there are no faults.
THEOREM RegionIsSafe == PagesSpec => []RegionHolds
<1>1. IInv /\ MappedInv /\ FaultInv => RegionHolds
  <2> SUFFICES ASSUME IInv, MappedInv, FaultInv, fault # NoFault,
                      \A a \in DOMAIN headers :
                        Page(NextOf(a, headers[a]) + HDR - 1) < region
               PROVE  FALSE
    BY DEF RegionHolds
  <2>1. PICK a \in DOMAIN headers : region <= Page(NextOf(a, headers[a]) + HDR - 1)
    BY DEF FaultInv, Outgrown
  <2>2. NextOf(a, headers[a]) \in Nat /\ region \in Nat
    BY AfterIsBehind DEF IInv, MappedInv
  <2>3. Page(NextOf(a, headers[a]) + HDR - 1) \in Nat
    BY <2>2, HeaderPagesAre
  <2> QED  BY <2>1, <2>2, <2>3
<1>2. PagesSpec => []IInv
  BY PagesImplementHeap, HeapIsSound, PTL
<1> QED  BY <1>1, <1>2, FaultsAreSound, PTL
=============================================================================
