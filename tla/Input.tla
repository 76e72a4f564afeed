-------------------------------- MODULE Input --------------------------------
(***************************************************************************)
(* The way of a key: Keyboard and Interrupts together.  A byte goes from   *)
(* the keyboard to its controller, which holds one and raises its line for *)
(* it; the PIC and the processor take the interrupt when they can, and     *)
(* interrupt_dispatch calls keyboard_driver_irq_handler, which reads the   *)
(* byte.  What waits in Keyboard's port is the byte in the controller and  *)
(* those behind it.                                                        *)
(***************************************************************************)
EXTENDS Interrupts

CONSTANTS Letters, Others, MAX_KEYB_BUFFER_SIZE, PortSize

VARIABLES keyboard_buffer, buf_position, current_state, current_modifiers,
          port, down, both, recent

K == INSTANCE Keyboard

ASSUME InputAssumption == K!KeyboardAssumption

keyboardVars == <<keyboard_buffer, buf_position, current_state, current_modifiers,
                  port, down, both, recent>>

inputVars == <<vars, keyboardVars>>

InputInit == Init /\ K!Init

\* A key is pressed or let go; the keyboard keeps the bytes.
type(k) ==
  /\ phase # "halted"
  /\ K!press(k) \/ K!release(k)
  /\ UNCHANGED vars

\* The controller takes the next byte as soon as the one before it was read.
offer == key /\ port # << >> /\ UNCHANGED keyboardVars

handle == keyboard_driver_irq_handler /\ (K!prefix \/ K!keyboard_driver_irq_handler)

\* The other steps of interrupts leave the driver alone.
Beside(A) == A /\ UNCHANGED keyboardVars

HandlerSteps == handle \/ Beside(schelude) \/ Beside(end_of_interrupt)

InputNext ==
  \/ (\E k \in K!Keys : type(k)) \/ offer
  \/ Beside(tick) \/ (\E l \in Strangers : Beside(stranger(l)))
  \/ Beside(init_idt) \/ Beside(sti) \/ Beside(cli) \/ Beside(exception)
  \/ (\E l \in Lines : Beside(accept(l)))
  \/ HandlerSteps

\* The boot gets to init_idt, who switched interrupts off switches them on,
\* the controller takes the next byte, handlers run, and the processor takes
\* an interrupt that it keeps being able to take.
InputSpec ==
  /\ InputInit /\ [][InputNext]_inputVars
  /\ WF_inputVars(Beside(init_idt)) /\ WF_inputVars(Beside(sti))
  /\ WF_inputVars(offer) /\ WF_inputVars(HandlerSteps)
  /\ \A l \in {TIMER, KEYBOARD} : SF_inputVars(Beside(accept(l)))

----------------------------------------------------------------------------
(***************************************************************************)
(* Properties: those of the two components, and one of both.               *)
(***************************************************************************)
PrintsAsTyped == K!PrintsAsTyped

RingKeepsLatest == K!RingKeepsLatest

\* Each byte the controller holds is read, however the ticks fall, unless one
\* lay there when the PICs were reset: then none ever is.
KeysAreHandled ==
  (full /\ phase = "up" /\ ~deaf) ~> (~full \/ phase = "halted")
=============================================================================
