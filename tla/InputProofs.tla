----------------------------- MODULE InputProofs ----------------------------
(***************************************************************************)
(* The properties of Interrupts, Keyboard and both together in Input,      *)
(* proved for every set of lines of unknown devices, every keyboard, every *)
(* size of the ring and any number of bytes that wait.                     *)
(***************************************************************************)
EXTENDS Input, TLAPS

----------------------------------------------------------------------------
(***************************************************************************)
(* Interrupts: in service is the line of the one handler on the stack.     *)
(***************************************************************************)
Frame == [line : {TIMER, KEYBOARD}, at : {"entry", "eoi"}]

\* Interrupts are off in a handler, except in the timer's behind schelude:
\* there the timer is still in service, and nothing goes before it.
Alone ==
  /\ handlers \in Seq(Frame) /\ Len(handlers) <= 1
  /\ Len(handlers) = 0 => isr = {}
  /\ Len(handlers) = 1 =>
       /\ isr = {handlers[1].line}
       /\ IF_flag => handlers[1].line = TIMER

IntInv ==
  /\ IF_flag \in BOOLEAN
  /\ irr \subseteq Lines
  /\ refused \subseteq Strangers
  /\ phase = "boot" => ~IF_flag /\ handlers = << >>
  /\ phase = "up" => Alone

LEMMA IntInit == Init => IntInv
BY DEF Init, IntInv

LEMMA AcceptKeeps ==
  ASSUME IntInv, NEW l \in Lines, accept(l)
  PROVE  IntInv'
<1>1. /\ phase = "up" /\ IF_flag /\ l \in irr
      /\ \A k \in isr : l < k
      /\ irr' = irr \ {l} /\ isr' = isr \cup {l} /\ IF_flag' = FALSE
  BY DEF accept, Accepts
<1>2. Alone
  BY <1>1 DEF IntInv
<1>3. l \in Nat
  BY InterruptsAssumption DEF Lines, TIMER, KEYBOARD
<1>4. handlers = << >> /\ isr = {}
  <2>1. Len(handlers) # 1
    BY <1>1, <1>2, <1>3 DEF Alone, TIMER
  <2>2. Len(handlers) = 0
    BY <1>2, <2>1 DEF Alone
  <2> QED  BY <1>2, <2>2 DEF Alone
<1>5. CASE HasGate(l)
  <2>1. /\ handlers' = Append(handlers, [line |-> l, at |-> "entry"])
        /\ phase' = phase /\ refused' = refused
    BY <1>5 DEF accept
  <2>2. l \in {TIMER, KEYBOARD}
    BY <1>5, InterruptsAssumption DEF HasGate, Lines
  <2>3. handlers' = <<[line |-> l, at |-> "entry"]>>
    BY <1>4, <2>1
  <2>4. [line |-> l, at |-> "entry"] \in Frame
    BY <2>2 DEF Frame
  <2>5. Alone'
    BY <1>1, <1>4, <2>3, <2>4 DEF Alone
  <2> QED  BY <1>1, <2>1, <2>5 DEF IntInv
<1>6. CASE ~HasGate(l)
  <2>1. phase' = "halted" /\ refused' = refused \cup {l}
    BY <1>6 DEF accept
  <2>2. l \in Strangers
    BY <1>6 DEF HasGate, Lines, TIMER, KEYBOARD
  <2> QED  BY <1>1, <2>1, <2>2 DEF IntInv
<1> QED  BY <1>5, <1>6

\* What a handler that runs has for a frame.
LEMMA Running ==
  ASSUME IntInv, NEW line, NEW at, In(line, at)
  PROVE  /\ phase = "up" /\ Alone
         /\ Len(handlers) = 1 /\ handlers[1] = [line |-> line, at |-> at]
         /\ isr = {line}
<1>1. phase = "up" /\ Alone /\ handlers # << >> /\ Top = [line |-> line, at |-> at]
  BY DEF In, IntInv
<1>2. Len(handlers) = 1
  <2>1. handlers \in Seq(Frame) /\ Len(handlers) <= 1
    BY <1>1 DEF Alone
  <2>2. Len(handlers) \in Nat /\ (Len(handlers) = 0 => handlers = << >>)
    BY <2>1
  <2>3. Len(handlers) # 0
    BY <1>1, <2>2
  <2> DEFINE n == Len(handlers)
  <2>4. n \in Nat /\ n <= 1 /\ n # 0
    BY <2>1, <2>2, <2>3
  <2> HIDE DEF n
  <2>5. n = 1
    BY <2>4
  <2> QED  BY <2>5 DEF n
<1> QED  BY <1>1, <1>2 DEF Alone, Top

LEMMA HandlerKeeps ==
  ASSUME IntInv, Handler
  PROVE  IntInv'
<1>1. CASE keyboard_driver_irq_handler
  <2>1. /\ In(KEYBOARD, "entry") /\ Reach("eoi")
        /\ UNCHANGED <<phase, IF_flag, irr, isr, refused>>
    BY <1>1 DEF keyboard_driver_irq_handler
  <2>2. /\ phase = "up" /\ Alone /\ isr = {KEYBOARD}
        /\ Len(handlers) = 1 /\ handlers[1] = [line |-> KEYBOARD, at |-> "entry"]
    BY <2>1, Running
  <2>3. /\ handlers' \in Seq(Frame) /\ Len(handlers') = 1
        /\ handlers'[1].line = KEYBOARD
    BY <2>1, <2>2 DEF Reach, Alone, Frame
  <2>4. Alone'
    BY <2>1, <2>2, <2>3 DEF Alone
  <2> QED  BY <2>1, <2>2, <2>4 DEF IntInv
<1>2. CASE schelude
  <2>1. /\ In(TIMER, "entry") /\ Reach("eoi") /\ IF_flag' = TRUE
        /\ UNCHANGED <<phase, irr, isr, refused>>
    BY <1>2 DEF schelude
  <2>2. /\ phase = "up" /\ Alone /\ isr = {TIMER}
        /\ Len(handlers) = 1 /\ handlers[1] = [line |-> TIMER, at |-> "entry"]
    BY <2>1, Running
  <2>3. /\ handlers' \in Seq(Frame) /\ Len(handlers') = 1
        /\ handlers'[1].line = TIMER
    BY <2>1, <2>2 DEF Reach, Alone, Frame
  <2>4. Alone'
    BY <2>1, <2>2, <2>3 DEF Alone
  <2> QED  BY <2>1, <2>2, <2>4 DEF IntInv
<1>3. CASE end_of_interrupt
  <2>1. /\ isr' = isr \ Ends /\ IF_flag' = TRUE
        /\ handlers' = SubSeq(handlers, 1, Len(handlers) - 1)
        /\ UNCHANGED <<phase, irr, refused>>
    BY <1>3 DEF end_of_interrupt
  <2>2. PICK l \in {TIMER, KEYBOARD} : In(l, "eoi")
    BY <1>3 DEF end_of_interrupt
  <2>3. phase = "up" /\ Alone /\ Len(handlers) = 1 /\ isr = {l}
    BY <2>2, Running
  <2>4. isr' = {}
    <3>1. l \in Nat
      BY <2>2 DEF TIMER, KEYBOARD
    <3> QED  BY <2>1, <2>3, <3>1 DEF Ends, Highest
  <2>5. handlers' = << >> /\ Len(handlers') = 0 /\ handlers' \in Seq(Frame)
    BY <2>1, <2>3 DEF Alone
  <2>6. Alone'
    BY <2>4, <2>5 DEF Alone
  <2> QED  BY <2>1, <2>3, <2>6 DEF IntInv
<1> QED  BY <1>1, <1>2, <1>3 DEF Handler

LEMMA IntStep == IntInv /\ [Next]_vars => IntInv'
<1> SUFFICES ASSUME IntInv, [Next]_vars
             PROVE  IntInv'
  OBVIOUS
<1>1. CASE UNCHANGED vars
  BY <1>1 DEF vars, IntInv, Alone
<1>2. CASE tick \/ key \/ \E l \in Strangers : stranger(l)
  <2>1. irr' \subseteq Lines /\ UNCHANGED <<phase, IF_flag, isr, handlers, refused>>
    BY <1>2 DEF IntInv, tick, key, stranger, Lines
  <2> QED  BY <2>1 DEF IntInv, Alone
<1>3. CASE init_idt
  <2>1. /\ phase = "boot" /\ phase' = "up" /\ irr' = {} /\ isr' = {}
        /\ UNCHANGED <<IF_flag, handlers, refused>>
    BY <1>3 DEF init_idt
  <2>2. handlers = << >>
    BY <2>1 DEF IntInv
  <2>3. handlers \in Seq(Frame) /\ Len(handlers) = 0
    BY <2>2
  <2> QED  BY <2>1, <2>3 DEF IntInv, Alone
<1>4. CASE sti \/ cli
  <2>1. /\ phase = "up" /\ handlers = << >> /\ IF_flag' \in BOOLEAN
        /\ UNCHANGED <<phase, irr, isr, handlers, refused>>
    BY <1>4 DEF sti, cli, OnThread
  <2>2. Len(handlers) = 0
    BY <2>1
  <2> QED  BY <2>1, <2>2 DEF IntInv, Alone
<1>5. CASE exception
  BY <1>5 DEF exception, IntInv
<1>6. CASE \E l \in Lines : accept(l)
  BY <1>6, AcceptKeeps
<1>7. CASE Handler
  BY <1>7, HandlerKeeps
<1> QED  BY <1>1, <1>2, <1>3, <1>4, <1>5, <1>6, <1>7 DEF Next

LEMMA IntInvImplies == IntInv => InServiceIsRunning /\ OnlyStrangersHalt
<1> SUFFICES ASSUME IntInv
             PROVE  InServiceIsRunning /\ OnlyStrangersHalt
  OBVIOUS
<1>1. ASSUME Alone
      PROVE  isr = {handlers[i].line : i \in DOMAIN handlers} /\ Len(handlers) <= 1
  <2>1. DOMAIN handlers = 1 .. Len(handlers) /\ Len(handlers) \in {0, 1}
    <3>1. handlers \in Seq(Frame) /\ Len(handlers) <= 1
      BY <1>1 DEF Alone
    <3>2. DOMAIN handlers = 1 .. Len(handlers) /\ Len(handlers) \in Nat
      BY <3>1
    <3> QED  BY <3>1, <3>2
  <2>2. CASE Len(handlers) = 0
    BY <1>1, <2>1, <2>2 DEF Alone
  <2>3. CASE Len(handlers) = 1
    <3>1. DOMAIN handlers = {1}
      BY <2>1, <2>3
    <3> QED  BY <1>1, <2>3, <3>1 DEF Alone
  <2> QED  BY <2>1, <2>2, <2>3
<1> QED  BY <1>1 DEF IntInv, InServiceIsRunning, OnlyStrangersHalt

\* A line in service always has its handler on the stack, and it is the only
\* one: no line is blocked by an EOI that went elsewhere or nowhere.
THEOREM ServiceIsRunning == Spec => []InServiceIsRunning
BY IntInit, IntStep, IntInvImplies, PTL DEF Spec

\* Only lines of unknown devices end in a vector without a gate.
THEOREM StrangersHalt == Spec => []OnlyStrangersHalt
BY IntInit, IntStep, IntInvImplies, PTL DEF Spec

\* With the keyboard attached, the interrupts behave as they do without.
LEMMA InputStepIsInterruptStep == [InputNext]_inputVars => [Next]_vars
BY DEF InputNext, inputVars, type, offer, handle, Beside, HandlerSteps, Next, Handler

THEOREM InputImplementsInterrupts == InputSpec => Spec
BY InputStepIsInterruptStep, PTL DEF InputSpec, InputInit, Spec

\* So keys, however they come, block no line and halt nothing.
THEOREM KeysDisturbNoLine == InputSpec => []InServiceIsRunning /\ []OnlyStrangersHalt
BY InputImplementsInterrupts, ServiceIsRunning, StrangersHalt, PTL


----------------------------------------------------------------------------
(***************************************************************************)
(* Keyboard: what the driver will make of the shift keys.  Place i of the  *)
(* port speaks up to place j if it is the last byte of a shift key there;  *)
(* place 0 stands for current_modifiers and the place behind the last byte *)
(* for the keys as they are now.                                           *)
(***************************************************************************)
IsShift(b) == b.key \in K!Shifts

Speaks(p, i, j) ==
  /\ i <= j
  /\ i = 0 \/ IsShift(p[i])
  /\ \A h \in 1 .. Len(p) : i < h /\ h <= j => ~IsShift(p[h])
  /\ j <= Len(p) => p[j] # K!PREFIX

Says(p, modifiers, i) == IF i = 0 THEN modifiers ELSE ~p[i].up

Was(p, now, j) == IF j = Len(p) + 1 THEN now ELSE p[j].held

Agree(says, was, ever) == (says => was) /\ (~ever => (was => says))

Faithful(p, modifiers, now, ever) ==
  \A i \in 0 .. Len(p), j \in 1 .. Len(p) + 1 :
    Speaks(p, i, j) => Agree(Says(p, modifiers, i), Was(p, now, j), ever)

Holding(d) == d \cap K!Shifts # {}

ShiftInv ==
  /\ K!Shifts \subseteq down => both
  /\ Faithful(port, current_modifiers, Holding(down), both)

LEMMA InputStepIsKeyStep == [InputNext]_inputVars => [K!Next]_(K!vars)
BY DEF InputNext, inputVars, type, offer, handle, Beside, HandlerSteps, K!Next, K!vars,
       keyboardVars

\* A byte of the keyboard comes, behind a prefix or not.
LEMMA SendKeeps ==
  ASSUME K!TypeOK, ShiftInv, NEW k \in K!Keys, NEW up \in BOOLEAN,
         down' = IF up THEN down \ {k} ELSE down \cup {k},
         up => k \in down,
         K!Send(k, up)
  PROVE  K!TypeOK' /\ ShiftInv'
<1> DEFINE n == Len(port)
           byte == [key |-> k, up |-> up, held |-> Holding(down')]
<1>1. /\ port \in Seq(K!Byte \cup {K!PREFIX}) /\ n \in Nat
      /\ current_modifiers \in BOOLEAN /\ both \in BOOLEAN /\ down \subseteq K!Keys
  BY DEF K!TypeOK
<1>2. /\ \/ port' = Append(port, byte)
         \/ k \notin K!Shifts /\ port' = port \o <<K!PREFIX, byte>>
      /\ both' = (both \/ K!Shifts \subseteq down')
      /\ current_modifiers' = current_modifiers
      /\ UNCHANGED <<keyboard_buffer, buf_position, current_state, recent>>
  BY DEF K!Send, K!driver, Holding
<1>3. down' \subseteq K!Keys /\ Holding(down') \in BOOLEAN /\ byte \in K!Byte
  BY <1>1 DEF K!Byte, Holding
<1>4. K!TypeOK'
  <2>1. port' \in Seq(K!Byte \cup {K!PREFIX})
    <3> DEFINE B == K!Byte \cup {K!PREFIX}
    <3>1. port \in Seq(B) /\ byte \in B /\ <<K!PREFIX, byte>> \in Seq(B)
      BY <1>1, <1>3
    <3> HIDE DEF B, byte
    <3>2. Append(port, byte) \in Seq(B) /\ port \o <<K!PREFIX, byte>> \in Seq(B)
      BY <3>1
    <3> QED  BY <1>2, <3>2 DEF B
  <2> QED  BY <1>2, <1>3, <2>1, <1>1 DEF K!TypeOK
<1>5. PICK m \in {n + 1, n + 2} :
        /\ Len(port') = m /\ port'[m] = byte
        /\ \A h \in 1 .. n : port'[h] = port[h]
        /\ \A h \in n + 1 .. m - 1 : port'[h] = K!PREFIX /\ k \notin K!Shifts
  <2>1. CASE port' = Append(port, byte)
    BY <1>1, <1>3, <2>1
  <2>2. CASE k \notin K!Shifts /\ port' = port \o <<K!PREFIX, byte>>
    BY <1>1, <1>3, <2>2
  <2> QED  BY <1>2, <2>1, <2>2
<1>6. ~IsShift(K!PREFIX)
  BY DEF IsShift, K!PREFIX, K!Shifts, K!KEY_SHIFTL, K!KEY_SHIFTR
<1>7. IsShift(byte) <=> k \in K!Shifts
  BY DEF IsShift
<1>8. byte.held = Holding(down') /\ byte.up = up
  OBVIOUS
\* A key that is no shift key changes nothing; a shift key that is let go while
\* both were never held leaves none, as the only one that was held.
<1>9. k \notin K!Shifts => Holding(down') = Holding(down)
  BY DEF Holding
<1>10. k \in K!Shifts => Agree(~up, Holding(down'), both')
  BY <1>2, <1>1 DEF Agree, Holding, ShiftInv, K!Shifts
<1>11. (K!Shifts \subseteq down => both)'
  BY <1>2
<1>12. ASSUME NEW i \in 0 .. m, NEW j \in 1 .. m + 1, Speaks(port', i, j)
       PROVE  Agree(Says(port', current_modifiers', i), Was(port', Holding(down'), j), both')
  <2> HIDE DEF n, byte
  <2>1. CASE i > n
    <3>1. i = m /\ k \in K!Shifts
      BY <1>5, <1>6, <1>7, <1>12, <2>1, <1>1 DEF Speaks
    <3>2. j = m \/ j = m + 1
      BY <1>12, <3>1, <1>1 DEF Speaks
    <3> QED  BY <1>1, <1>5, <1>8, <1>10, <3>1, <3>2 DEF Says, Was
  <2>2. CASE i <= n /\ j <= n
    <3>1. i \in 0 .. Len(port) /\ j \in 1 .. Len(port) + 1
      BY <2>2, <1>1, <1>12 DEF n
    <3>2. Speaks(port, i, j)
      BY <1>12, <2>2, <1>5, <1>1 DEF Speaks, n
    <3>3. Agree(Says(port, current_modifiers, i), Was(port, Holding(down), j), both)
      BY <3>1, <3>2 DEF ShiftInv, Faithful
    <3>4. Says(port', current_modifiers', i) = Says(port, current_modifiers, i)
      BY <1>2, <1>5, <2>2, <1>1, <1>12 DEF Says, n
    <3>5. Was(port', Holding(down'), j) = Was(port, Holding(down), j)
      BY <1>5, <2>2, <1>1, <1>12 DEF Was, n
    <3> QED  BY <1>2, <1>1, <3>3, <3>4, <3>5 DEF Agree
  <2>3. CASE i <= n /\ j > n
    <3>1. j = m \/ j = m + 1
      <4>1. j # n + 1 \/ m = n + 1
        BY <1>5, <1>12, <1>1 DEF Speaks
      <4> QED  BY <4>1, <2>3, <1>1
    <3>2. k \notin K!Shifts
      BY <3>1, <1>12, <1>5, <1>7, <2>3, <1>1 DEF Speaks
    <3>3. i \in 0 .. Len(port) /\ Len(port) + 1 \in 1 .. Len(port) + 1
      BY <2>3, <1>1, <1>12 DEF n
    <3>4. Speaks(port, i, Len(port) + 1)
      BY <1>12, <2>3, <1>5, <1>1 DEF Speaks, n
    <3>5. Agree(Says(port, current_modifiers, i), Was(port, Holding(down), Len(port) + 1), both)
      BY <3>3, <3>4 DEF ShiftInv, Faithful
    <3>6. Says(port', current_modifiers', i) = Says(port, current_modifiers, i)
      BY <1>2, <1>5, <2>3, <1>1, <1>12 DEF Says, n
    <3>7. Was(port', Holding(down'), j) = Holding(down)
      BY <1>5, <1>8, <1>9, <3>1, <3>2, <1>1 DEF Was, n
    <3>8. Was(port, Holding(down), Len(port) + 1) = Holding(down)
      BY DEF Was
    <3> QED  BY <1>2, <1>1, <3>5, <3>6, <3>7, <3>8 DEF Agree
  <2> QED  BY <2>1, <2>2, <2>3, <1>1
<1>13. Faithful(port', current_modifiers', Holding(down'), both')
  BY <1>12, <1>5 DEF Faithful
<1> QED  BY <1>4, <1>11, <1>13 DEF ShiftInv

\* The first byte of the port is read: what it says of the shift keys stands
\* in current_modifiers from now on.
LEMMA ReadKeeps ==
  ASSUME K!TypeOK, ShiftInv, K!TypeOK', UNCHANGED <<down, both>>,
         port # << >>, port' = Tail(port),
         current_modifiers' = IF IsShift(port[1]) THEN ~port[1].up ELSE current_modifiers
  PROVE  ShiftInv'
<1> DEFINE n == Len(port)
<1>1. /\ n \in Nat \ {0} /\ Len(port') = n - 1
      /\ \A h \in 1 .. n - 1 : port'[h] = port[h + 1]
  BY DEF K!TypeOK
<1>2. ASSUME NEW i \in 0 .. n - 1, NEW j \in 1 .. n, Speaks(port', i, j)
      PROVE  Agree(Says(port', current_modifiers', i), Was(port', Holding(down), j), both)
  <2> HIDE DEF n
  <2> DEFINE from == IF i = 0 /\ ~IsShift(port[1]) THEN 0 ELSE i + 1
  <2>1. from \in 0 .. n /\ j + 1 \in 1 .. n + 1
    BY <1>1, <1>2
  <2>2. Speaks(port, from, j + 1)
    <3>1. \A h \in 2 .. n : from < h /\ h <= j + 1 => ~IsShift(port[h])
      <4> SUFFICES ASSUME NEW h \in 2 .. n, from < h, h <= j + 1
                   PROVE  ~IsShift(port[h])
        OBVIOUS
      <4>1. h - 1 \in 1 .. Len(port') /\ i < h - 1 /\ h - 1 <= j
        BY <1>1, <1>2
      <4>2. port'[h - 1] = port[h]
        BY <1>1
      <4> QED  BY <4>1, <4>2, <1>2 DEF Speaks
    <3>2. from < 1 => ~IsShift(port[1])
      BY <1>1, <1>2
    <3>3. from = 0 \/ IsShift(port[from])
      BY <1>1, <1>2 DEF Speaks
    <3>4. j + 1 <= n => port[j + 1] # K!PREFIX
      BY <1>1, <1>2 DEF Speaks
    <3>5. from <= j + 1
      BY <1>1, <1>2 DEF Speaks
    <3> QED  BY <3>1, <3>2, <3>3, <3>4, <3>5, <1>1 DEF Speaks, n
  <2>3. Agree(Says(port, current_modifiers, from), Was(port, Holding(down), j + 1), both)
    BY <2>1, <2>2 DEF ShiftInv, Faithful, n
  <2>4. Says(port', current_modifiers', i) = Says(port, current_modifiers, from)
    BY <1>1, <1>2 DEF Says
  <2>5. Was(port', Holding(down), j) = Was(port, Holding(down), j + 1)
    <3>1. CASE j = n
      <4>1. j = Len(port') + 1 /\ j + 1 = Len(port) + 1
        BY <1>1, <3>1 DEF n
      <4> QED  BY <4>1 DEF Was
    <3>2. CASE j # n
      <4>1. j \in 1 .. n - 1 /\ j # Len(port') + 1 /\ j + 1 # n + 1
        BY <1>1, <1>2, <3>2
      <4>2. port'[j] = port[j + 1]
        BY <1>1, <4>1
      <4> QED  BY <4>1, <4>2 DEF Was, n
    <3> QED  BY <3>1, <3>2
  <2> QED  BY <2>3, <2>4, <2>5
<1> QED  BY <1>1, <1>2 DEF ShiftInv, Faithful, Holding


(***************************************************************************)
(* Keyboard: the ring.  The events it holds end in front of buf_position.  *)
(***************************************************************************)
RingInv ==
  /\ recent \in Seq(K!Event) /\ Len(recent) <= MAX_KEYB_BUFFER_SIZE
  /\ RingKeepsLatest

KeyInv == K!TypeOK /\ ShiftInv /\ RingInv

LEMMA Around ==
  ASSUME NEW M \in Nat \ {0}, NEW p \in 0 .. M - 1
  PROVE  /\ (p + 1) % M = IF p + 1 = M THEN 0 ELSE p + 1
         /\ \A n \in 1 .. M : (p + M - n) % M = IF n <= p THEN p - n ELSE p + M - n
BY SMT

LEMMA IrqKeeps ==
  ASSUME KeyInv, K!keyboard_driver_irq_handler
  PROVE  KeyInv'
<1> DEFINE M == MAX_KEYB_BUFFER_SIZE
           b == Head(port)
           e == [key |-> b.key, up |-> b.up, shift |-> K!Modifiers(b)]
<1>1. M \in Nat \ {0} /\ buf_position \in 0 .. M - 1
  BY InputAssumption DEF K!KeyboardAssumption, KeyInv, K!TypeOK, K!Slots
<1>2. /\ port \in Seq(K!Byte \cup {K!PREFIX}) /\ port # << >>
      /\ b \in K!Byte /\ b = port[1]
  BY DEF KeyInv, K!TypeOK, K!keyboard_driver_irq_handler
<1>3. /\ current_modifiers \in BOOLEAN
      /\ b.key \in K!Keys /\ b.up \in BOOLEAN /\ K!Modifiers(b) \in BOOLEAN
      /\ e \in K!Event
  BY <1>2 DEF KeyInv, K!TypeOK, K!Byte, K!Event, K!Modifiers
<1>4. /\ current_modifiers' = K!Modifiers(b)
      /\ keyboard_buffer' = [keyboard_buffer EXCEPT ![buf_position] = e]
      /\ recent' = K!Latest(Append(recent, e))
      /\ current_state' = "normal"
      /\ buf_position' = (buf_position + 1) % M
      /\ port' = Tail(port)
      /\ UNCHANGED <<down, both>>
  BY DEF K!keyboard_driver_irq_handler, K!Slot, K!Position, K!hardware
<1> HIDE DEF b, e
<1>5. K!TypeOK'
  <2>1. buf_position' \in K!Slots
    BY <1>1, <1>4, Around DEF K!Slots
  <2>2. keyboard_buffer' \in [K!Slots -> K!Event \cup {K!NoEvent}]
    BY <1>3, <1>4 DEF KeyInv, K!TypeOK
  <2>3. port' \in Seq(K!Byte \cup {K!PREFIX})
    BY <1>2, <1>4
  <2> QED  BY <1>3, <1>4, <2>1, <2>2, <2>3 DEF KeyInv, K!TypeOK
<1>6. ShiftInv'
  <2>1. current_modifiers' = IF IsShift(port[1]) THEN ~port[1].up ELSE current_modifiers
    BY <1>2, <1>4 DEF K!Modifiers, IsShift
  <2> QED  BY <1>2, <1>4, <1>5, <2>1, ReadKeeps DEF KeyInv
<1>7. RingInv'
  <2> DEFINE c == Len(recent)
             d == Len(recent')
  <2>1. recent \in Seq(K!Event) /\ c \in Nat /\ c <= M /\ RingKeepsLatest
    BY DEF KeyInv, RingInv
  <2>2. /\ recent' \in Seq(K!Event) /\ d \in Nat /\ d <= M /\ d <= c + 1
        /\ recent'[d] = e
        /\ \A n \in 2 .. d : recent'[d + 1 - n] = recent[c + 1 - (n - 1)]
    <3>1. CASE c < M
      <4>1. recent' = Append(recent, e)
        BY <1>1, <1>3, <1>4, <2>1, <3>1 DEF K!Latest
      <4> QED  BY <1>1, <1>3, <2>1, <3>1, <4>1
    <3>2. CASE c = M
      <4>1. recent' = Tail(Append(recent, e))
        BY <1>1, <1>3, <1>4, <2>1, <3>2 DEF K!Latest
      <4>2. /\ Append(recent, e) \in Seq(K!Event) /\ Len(Append(recent, e)) = c + 1
            /\ Append(recent, e)[c + 1] = e
            /\ \A h \in 1 .. c : Append(recent, e)[h] = recent[h]
        BY <1>3, <2>1
      <4>3. d = c /\ \A h \in 1 .. d : recent'[h] = Append(recent, e)[h + 1]
        BY <4>1, <4>2, <2>1
      <4> QED  BY <1>1, <2>1, <3>2, <4>1, <4>2, <4>3
    <3> QED  BY <2>1, <1>1, <3>1, <3>2
  <2> HIDE DEF c, d
  <2>3. /\ (buf_position' + M - 1) % M = buf_position
        /\ \A n \in 2 .. M :
             /\ (buf_position' + M - n) % M = (buf_position + M - (n - 1)) % M
             /\ (buf_position' + M - n) % M \in (0 .. M - 1) \ {buf_position}
    <3>1. buf_position' = IF buf_position + 1 = M THEN 0 ELSE buf_position + 1
      BY <1>1, <1>4, Around
    <3>2. buf_position' \in 0 .. M - 1
      BY <1>1, <3>1
    <3>3. \A n \in 1 .. M : (buf_position' + M - n) % M
              = IF n <= buf_position' THEN buf_position' - n ELSE buf_position' + M - n
      BY <1>1, <3>2, Around
    <3>4. \A n \in 1 .. M : (buf_position + M - n) % M
              = IF n <= buf_position THEN buf_position - n ELSE buf_position + M - n
      BY <1>1, Around
    <3> HIDE DEF M
    <3>5. (buf_position' + M - 1) % M = buf_position
      <4>1. (buf_position' + M - 1) % M
              = IF 1 <= buf_position' THEN buf_position' - 1 ELSE buf_position' + M - 1
        BY <1>1, <3>3, 1 \in 1 .. M
      <4> QED  BY <1>1, <3>1, <4>1
    <3>6. ASSUME NEW n \in 2 .. M
          PROVE  /\ (buf_position' + M - n) % M = (buf_position + M - (n - 1)) % M
                 /\ (buf_position' + M - n) % M \in (0 .. M - 1) \ {buf_position}
      <4>1. n \in 1 .. M /\ n - 1 \in 1 .. M
        BY <1>1
      <4>2. (buf_position' + M - n) % M
              = IF n <= buf_position' THEN buf_position' - n ELSE buf_position' + M - n
        BY <3>3, <4>1
      <4>3. (buf_position + M - (n - 1)) % M
              = IF n - 1 <= buf_position THEN buf_position - (n - 1)
                                         ELSE buf_position + M - (n - 1)
        BY <3>4, <4>1
      <4> QED  BY <1>1, <3>1, <4>2, <4>3
    <3> QED  BY <3>5, <3>6
  <2>4. keyboard_buffer' = [keyboard_buffer EXCEPT ![buf_position] = e]
        /\ DOMAIN keyboard_buffer = 0 .. M - 1
    BY <1>4 DEF KeyInv, K!TypeOK, K!Slots
  <2>5. ASSUME NEW n \in 1 .. d
        PROVE  keyboard_buffer'[(buf_position' + M - n) % M] = recent'[d + 1 - n]
    <3>1. CASE n = 1
      BY <1>1, <2>3, <2>2, <2>4, <3>1
    <3>2. CASE n # 1
      <4>1. n \in 2 .. M /\ n - 1 \in 1 .. c
        BY <1>1, <2>1, <2>2, <2>5, <3>2
      <4>2. /\ (buf_position' + M - n) % M = (buf_position + M - (n - 1)) % M
            /\ (buf_position' + M - n) % M \in (0 .. M - 1) \ {buf_position}
        BY <2>3, <4>1
      <4>3. keyboard_buffer'[(buf_position' + M - n) % M]
              = keyboard_buffer[(buf_position + M - (n - 1)) % M]
        BY <2>4, <4>2
      <4>4. keyboard_buffer[(buf_position + M - (n - 1)) % M] = recent[c + 1 - (n - 1)]
        BY <2>1, <4>1 DEF RingKeepsLatest, K!RingKeepsLatest, c
      <4> QED  BY <4>3, <4>4, <2>2, <4>1, <2>5
    <3> QED  BY <3>1, <3>2
  <2> QED  BY <2>2, <2>5 DEF RingInv, RingKeepsLatest, K!RingKeepsLatest, d
<1> QED  BY <1>5, <1>6, <1>7 DEF KeyInv

LEMMA KeyInit == K!Init => KeyInv
<1> SUFFICES ASSUME K!Init
             PROVE  KeyInv
  OBVIOUS
<1>1. K!TypeOK
  <2>1. 0 \in K!Slots
    BY InputAssumption DEF K!KeyboardAssumption, K!Slots
  <2> QED  BY <2>1 DEF K!Init, K!TypeOK
<1>2. ShiftInv
  <2>1. \A j \in 1 .. 1 : j = 1
    OBVIOUS
  <2> QED  BY <2>1 DEF K!Init, ShiftInv, Faithful, Agree, Says, Was, Holding, K!Shifts
<1>3. RingInv
  BY InputAssumption DEF K!Init, RingInv, RingKeepsLatest, K!RingKeepsLatest,
     K!KeyboardAssumption
<1> QED  BY <1>1, <1>2, <1>3 DEF KeyInv

LEMMA KeyNext == KeyInv /\ [K!Next]_(K!vars) => KeyInv'
<1> SUFFICES ASSUME KeyInv, [K!Next]_(K!vars)
             PROVE  KeyInv'
  OBVIOUS
<1>1. CASE UNCHANGED K!vars
  <2>1. UNCHANGED <<keyboard_buffer, buf_position, current_state, current_modifiers,
                    port, down, both, recent>>
    BY <1>1 DEF K!vars
  <2>2. K!TypeOK'
    BY <2>1 DEF KeyInv, K!TypeOK
  <2>3. ShiftInv'
    BY <2>1 DEF KeyInv, ShiftInv
  <2>4. RingInv'
    BY <2>1 DEF KeyInv, RingInv, RingKeepsLatest, K!RingKeepsLatest
  <2> QED  BY <2>2, <2>3, <2>4 DEF KeyInv
<1>2. ASSUME NEW k \in K!Keys, K!press(k)
      PROVE  KeyInv'
  <2>1. /\ down' = IF FALSE THEN down \ {k} ELSE down \cup {k}
        /\ K!Send(k, FALSE)
    BY <1>2 DEF K!press
  <2>2. K!TypeOK' /\ ShiftInv'
    BY <2>1, SendKeeps DEF KeyInv
  <2> QED  BY <2>1, <2>2 DEF KeyInv, RingInv, RingKeepsLatest, K!RingKeepsLatest, K!Send,
           K!driver
<1>3. ASSUME NEW k \in K!Keys, K!release(k)
      PROVE  KeyInv'
  <2>1. /\ down' = IF TRUE THEN down \ {k} ELSE down \cup {k}
        /\ k \in down
        /\ K!Send(k, TRUE)
    BY <1>3 DEF K!release
  <2>2. K!TypeOK' /\ ShiftInv'
    BY <2>1, SendKeeps DEF KeyInv
  <2> QED  BY <2>1, <2>2 DEF KeyInv, RingInv, RingKeepsLatest, K!RingKeepsLatest, K!Send,
           K!driver
<1>4. CASE K!prefix
  <2>1. /\ port # << >> /\ Head(port) = K!PREFIX /\ port' = Tail(port)
        /\ current_state' = "prefix"
        /\ UNCHANGED <<keyboard_buffer, buf_position, current_modifiers, recent, down, both>>
    BY <1>4 DEF K!prefix, K!hardware
  <2>2. K!TypeOK'
    <3>1. port' \in Seq(K!Byte \cup {K!PREFIX})
      BY <2>1 DEF KeyInv, K!TypeOK
    <3> QED  BY <2>1, <3>1 DEF KeyInv, K!TypeOK
  <2>3. ~IsShift(port[1])
    <3>1. port[1] = K!PREFIX
      BY <2>1 DEF KeyInv, K!TypeOK
    <3> QED  BY <3>1 DEF IsShift, K!PREFIX, K!Shifts, K!KEY_SHIFTL, K!KEY_SHIFTR
  <2>4. ShiftInv'
    BY <2>1, <2>2, <2>3, ReadKeeps DEF KeyInv
  <2> QED  BY <2>1, <2>2, <2>4 DEF KeyInv, RingInv, RingKeepsLatest, K!RingKeepsLatest
<1>5. CASE K!keyboard_driver_irq_handler
  BY <1>5, IrqKeeps
<1> QED  BY <1>1, <1>2, <1>3, <1>4, <1>5 DEF K!Next

LEMMA KeysAreTracked == InputSpec => []KeyInv
<1>1. InputInit => KeyInv
  BY KeyInit DEF InputInit
<1>2. KeyInv /\ [InputNext]_inputVars => KeyInv'
  BY KeyNext, InputStepIsKeyStep
<1> QED  BY <1>1, <1>2, PTL DEF InputSpec

\* keyboard_buffer holds the last events of keyboard_driver_irq_handler, in
\* their order and in front of buf_position, however often it came around.
THEOREM RingHoldsLatest == InputSpec => []RingKeepsLatest
<1>1. KeyInv => RingKeepsLatest
  BY DEF KeyInv, RingInv
<1> QED  BY <1>1, KeysAreTracked, PTL

\* keyboard_get_printable_char is given the shift state the key was typed in,
\* however many bytes of other keys waited before it.
THEOREM TypedIsPrinted == InputSpec => PrintsAsTyped
<1> DEFINE A == K!keyboard_driver_irq_handler
                  /\ K!keyboard_get_printable_char(Head(port)) =>
                  /\ current_modifiers' => Head(port).held
                  /\ ~both => current_modifiers' = Head(port).held
<1>1. KeyInv => A
  <2> SUFFICES ASSUME KeyInv, K!keyboard_driver_irq_handler,
                      Head(port).key \in Letters
               PROVE  /\ current_modifiers' => Head(port).held
                      /\ ~both => current_modifiers' = Head(port).held
    BY DEF K!keyboard_get_printable_char
  <2>1. /\ port \in Seq(K!Byte \cup {K!PREFIX}) /\ port # << >>
        /\ Head(port) = port[1] /\ Len(port) \in Nat \ {0}
        /\ port[1] \in K!Byte /\ port[1] # K!PREFIX /\ current_modifiers \in BOOLEAN
    BY DEF KeyInv, K!TypeOK, K!keyboard_driver_irq_handler
  <2>2. ~IsShift(port[1])
    BY <2>1, InputAssumption DEF IsShift, K!KeyboardAssumption
  <2>3. current_modifiers' = current_modifiers
    BY <2>1, <2>2 DEF K!keyboard_driver_irq_handler, K!Modifiers, IsShift
  <2>4. Speaks(port, 0, 1)
    BY <2>1, <2>2 DEF Speaks
  <2>5. Agree(Says(port, current_modifiers, 0), Was(port, Holding(down), 1), both)
    BY <2>1, <2>4 DEF KeyInv, ShiftInv, Faithful
  <2>6. Was(port, Holding(down), 1) = port[1].held /\ port[1].held \in BOOLEAN
    BY <2>1 DEF Was, K!Byte
  <2> QED  BY <2>1, <2>3, <2>5, <2>6 DEF Agree, Says
<1>2. InputSpec => [][A]_(K!vars)
  <2>1. KeyInv => [A]_(K!vars)
    BY <1>1
  <2> QED  BY <2>1, KeysAreTracked, PTL
<1> QED  BY <1>2 DEF PrintsAsTyped, K!PrintsAsTyped
=============================================================================
