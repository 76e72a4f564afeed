------------------------------ MODULE Keyboard ------------------------------
(***************************************************************************)
(* The keyboard driver, src/drivers/keyboard.c, and the keyboard that      *)
(* sends it a byte per interrupt, in the order keys are pressed and let    *)
(* go.  Between two bytes of a key anything else may be typed, but nothing *)
(* comes between a prefix and its byte.                                    *)
(***************************************************************************)
EXTENDS Integers, Sequences

CONSTANTS Letters,               \* keys with a character of their own
          Others,                \* keys without
          MAX_KEYB_BUFFER_SIZE,  \* 255
          PortSize               \* bound: bytes that wait to be read

KEY_SHIFTL == "SHIFTL"
KEY_SHIFTR == "SHIFTR"
Shifts == {KEY_SHIFTL, KEY_SHIFTR}
Keys == Letters \cup Others \cup Shifts

\* Assumed where the driver is composed: see Input.
KeyboardAssumption ==
  /\ Letters \cap (Others \cup Shifts) = {} /\ Others \cap Shifts = {}
  /\ MAX_KEYB_BUFFER_SIZE \in Nat \ {0} /\ PortSize \in Nat

VARIABLES keyboard_buffer,    \* the ring of events
          buf_position,
          current_state,      \* "normal" or "prefix"
          current_modifiers,  \* the shift bit
          port,               \* bytes on their way from the keyboard
          down,               \* keys that are held
          both,               \* history: both shift keys have been held at once
          recent              \* history: the last events

vars == <<keyboard_buffer, buf_position, current_state, current_modifiers,
          port, down, both, recent>>

hardware == <<down, both>>
driver == <<keyboard_buffer, buf_position, current_state, current_modifiers,
            recent>>

\* A byte of the keyboard, with the state of the shift keys it was sent in.
Byte == [key : Keys, up : BOOLEAN, held : BOOLEAN]
PREFIX == [key |-> "E0"]

\* An event, and what the ring holds before there is any.
Event == [key : Keys, up : BOOLEAN, shift : BOOLEAN]
NoEvent == [key |-> "none"]

Slots == 0 .. MAX_KEYB_BUFFER_SIZE - 1

Init ==
  /\ keyboard_buffer = [p \in Slots |-> NoEvent]
  /\ buf_position = 0
  /\ current_state = "normal"
  /\ current_modifiers = FALSE
  /\ port = << >> /\ down = {} /\ both = FALSE
  /\ recent = << >>

----------------------------------------------------------------------------
(***************************************************************************)
(* The keyboard.                                                           *)
(***************************************************************************)
Send(k, up) ==
  LET byte == [key |-> k, up |-> up, held |-> down' \cap Shifts # {}]
  IN  /\ \/ port' = Append(port, byte)
         \/ k \notin Shifts /\ port' = port \o <<PREFIX, byte>>
      /\ Len(port') <= PortSize
      /\ both' = (both \/ Shifts \subseteq down')
      /\ UNCHANGED driver

\* A key is pressed, or held until it repeats.
press(k) == down' = down \cup {k} /\ Send(k, FALSE)

release(k) == k \in down /\ down' = down \ {k} /\ Send(k, TRUE)

----------------------------------------------------------------------------
(***************************************************************************)
(* keyboard_driver_irq_handler.                                            *)
(***************************************************************************)
prefix ==
  /\ port # << >> /\ Head(port) = PREFIX
  /\ current_state' = "prefix"
  /\ port' = Tail(port)
  /\ UNCHANGED <<keyboard_buffer, buf_position, current_modifiers, recent>>
  /\ UNCHANGED hardware

\* Seeded bug: letting go of the right shift key is forgotten.
Modifiers_Bad(b) ==
  IF b.key = KEY_SHIFTL \/ (b.key = KEY_SHIFTR /\ ~b.up) THEN ~b.up ELSE current_modifiers

Modifiers(b) == IF b.key \in Shifts THEN ~b.up ELSE current_modifiers

Position(p) == (p + 1) % MAX_KEYB_BUFFER_SIZE

\* Seeded bug: the event takes the place of the one before.
Slot_Bad(p) == (p + MAX_KEYB_BUFFER_SIZE - 1) % MAX_KEYB_BUFFER_SIZE

Slot(p) == p

\* Only key presses have a character, which is the one printed.
keyboard_get_printable_char(e) == e.key \in Letters /\ ~e.up

Latest(s) ==
  IF Len(s) > MAX_KEYB_BUFFER_SIZE THEN Tail(s) ELSE s

keyboard_driver_irq_handler ==
  /\ port # << >> /\ Head(port) # PREFIX
  /\ LET b == Head(port)
         e == [key |-> b.key, up |-> b.up, shift |-> Modifiers(b)]
     IN  /\ current_modifiers' = Modifiers(b)
         /\ keyboard_buffer' = [keyboard_buffer EXCEPT ![Slot(buf_position)] = e]
         /\ recent' = Latest(Append(recent, e))
  /\ current_state' = "normal"
  /\ buf_position' = Position(buf_position)
  /\ port' = Tail(port)
  /\ UNCHANGED hardware

Next ==
  \/ \E k \in Keys : press(k)
  \/ \E k \in Keys : release(k)
  \/ prefix
  \/ keyboard_driver_irq_handler

Spec == Init /\ [][Next]_vars

----------------------------------------------------------------------------
(***************************************************************************)
(* Properties.                                                             *)
(***************************************************************************)
TypeOK ==
  /\ keyboard_buffer \in [Slots -> Event \cup {NoEvent}]
  /\ buf_position \in Slots
  /\ current_state \in {"normal", "prefix"}
  /\ current_modifiers \in BOOLEAN
  /\ port \in Seq(Byte \cup {PREFIX})
  /\ down \subseteq Keys /\ both \in BOOLEAN

\* A character comes out as it was typed, however long its byte has waited: shift
\* never stays on, in whatever order the two keys are let go.  It may be off too
\* soon if both were held, for letting go of one turns the other off.
PrintsAsTyped ==
  [][keyboard_driver_irq_handler /\ keyboard_get_printable_char(Head(port)) =>
       /\ current_modifiers' => Head(port).held
       /\ ~both => current_modifiers' = Head(port).held]_vars

\* The ring holds the last events in order, ending in front of buf_position.
RingKeepsLatest ==
  \A n \in 1 .. Len(recent) :
    keyboard_buffer[(buf_position + MAX_KEYB_BUFFER_SIZE - n) % MAX_KEYB_BUFFER_SIZE]
      = recent[Len(recent) + 1 - n]
=============================================================================
