----------------------------- MODULE Interrupts ----------------------------
(***************************************************************************)
(* Interrupt delivery: the descriptor table and the PICs as init_idt sets  *)
(* them up, and the way of a vector through interrupt_dispatch and back,   *)
(* src/arch/x86_64/idt/idt.c.                                              *)
(*                                                                         *)
(* A line is a number as the PICs rank them, 0 the timer and 1 the         *)
(* keyboard.  All lines are unmasked, but init_idt has gates for the first *)
(* three only; the descriptor of any other line is zero, and an interrupt  *)
(* through it is a general protection fault, after which the kernel halts. *)
(* The second PIC has no gate at all, so that its EOI is never sent.  What *)
(* the handlers do to tasks and screen is in Scheduler and Console.        *)
(***************************************************************************)
EXTENDS Integers, Sequences

CONSTANTS Strangers   \* lines of devices the kernel does not know

ASSUME InterruptsAssumption == Strangers \subseteq 3 .. 15

TIMER == 0
KEYBOARD == 1

Lines == {TIMER, KEYBOARD} \cup Strangers

VARIABLES
  phase,      \* "boot" before init_idt, "up", or "halted"
  IF_flag,    \* the interrupt flag
  irr,        \* lines that have asked: the request registers
  isr,        \* lines that are being served: the service registers
  handlers,   \* the handlers on the stack, innermost last, with their progress
  full,       \* the keyboard controller holds a byte nobody has read
  deaf,       \* history: it held one when init_idt reset the PICs
  refused     \* history: lines whose vector turned out to have no gate

vars == <<phase, IF_flag, irr, isr, handlers, full, deaf, refused>>

Init ==
  /\ phase = "boot" /\ IF_flag = FALSE
  /\ irr = {} /\ isr = {} /\ handlers = << >>
  /\ full = FALSE /\ deaf = FALSE
  /\ refused = {}

----------------------------------------------------------------------------
(***************************************************************************)
(* The devices.  A line asks by rising, so the keyboard asks once for each *)
(* byte, and again when the byte before it was read.                       *)
(***************************************************************************)
\* The timer ticks every 55 ms, and a handler is through by then.
tick ==
  /\ phase # "halted" /\ TIMER \notin irr \cup isr
  /\ irr' = irr \cup {TIMER}
  /\ UNCHANGED <<phase, IF_flag, isr, handlers, full, deaf, refused>>

key ==
  /\ phase # "halted" /\ ~full
  /\ full' = TRUE /\ irr' = irr \cup {KEYBOARD}
  /\ UNCHANGED <<phase, IF_flag, isr, handlers, deaf, refused>>

\* A device the kernel does not know, or noise on the last line of a PIC.
stranger(l) ==
  /\ phase # "halted"
  /\ irr' = irr \cup {l}
  /\ UNCHANGED <<phase, IF_flag, isr, handlers, full, deaf, refused>>

----------------------------------------------------------------------------
(***************************************************************************)
(* The kernel's threads.                                                   *)
(***************************************************************************)
\* PIC_RESET forgets what was asked for; a line that is high must fall and
\* rise before it asks again.
init_idt ==
  /\ phase = "boot"
  /\ phase' = "up"
  /\ irr' = {} /\ isr' = {}
  /\ deaf' = full
  /\ UNCHANGED <<IF_flag, handlers, full, refused>>

OnThread == phase = "up" /\ handlers = << >>

\* idt_activate and the end of create_process.
sti ==
  /\ OnThread /\ ~IF_flag
  /\ IF_flag' = TRUE
  /\ UNCHANGED <<phase, irr, isr, handlers, full, deaf, refused>>

\* idt_deactivate and the start of create_process.
cli ==
  /\ OnThread /\ IF_flag
  /\ IF_flag' = FALSE
  /\ UNCHANGED <<phase, irr, isr, handlers, full, deaf, refused>>

\* A fault of the kernel itself: every exception prints and halts.
exception ==
  /\ phase = "up"
  /\ phase' = "halted" /\ IF_flag' = FALSE
  /\ UNCHANGED <<irr, isr, handlers, full, deaf, refused>>

----------------------------------------------------------------------------
(***************************************************************************)
(* The interrupt handlers.                                                 *)
(***************************************************************************)
\* Seeded fault, for OnlyStrangersHalt: the keyboard's gate is not set.
HasGate_Bad(l) == l \in {0, 2}

\* Vectors 0x20 to 0x22.
HasGate(l) == l \in 0 .. 2

Accepts(l) ==
  /\ phase = "up" /\ IF_flag /\ l \in irr
  /\ \A k \in irr : l <= k
  /\ \A k \in isr : l < k

accept(l) ==
  /\ Accepts(l)
  /\ irr' = irr \ {l} /\ isr' = isr \cup {l}
  /\ IF_flag' = FALSE
  /\ \/ /\ HasGate(l)
        /\ handlers' = Append(handlers, [line |-> l, at |-> "entry"])
        /\ UNCHANGED <<phase, refused>>
     \/ /\ ~HasGate(l)
        /\ phase' = "halted" /\ refused' = refused \cup {l}
        /\ UNCHANGED handlers
  /\ UNCHANGED <<full, deaf>>

Top == handlers[Len(handlers)]

In(line, at) == phase = "up" /\ handlers # << >> /\ Top = [line |-> line, at |-> at]

Reach(at) == handlers' = [handlers EXCEPT ![Len(handlers)].at = at]

\* Seeded fault, for KeysAreHandled: the code of a key that is let go is
\* thrown away in the controller.
keyboard_driver_irq_handler_Bad ==
  /\ In(KEYBOARD, "entry")
  /\ Reach("eoi")
  /\ UNCHANGED <<phase, IF_flag, irr, isr, full, deaf, refused>>

\* The byte is read first thing, on every path through the handler.
keyboard_driver_irq_handler ==
  /\ In(KEYBOARD, "entry")
  /\ full' = FALSE
  /\ Reach("eoi")
  /\ UNCHANGED <<phase, IF_flag, irr, isr, deaf, refused>>

\* schelude switches interrupts on again before the EOI.
schelude ==
  /\ In(TIMER, "entry")
  /\ IF_flag' = TRUE
  /\ Reach("eoi")
  /\ UNCHANGED <<phase, irr, isr, full, deaf, refused>>

Highest(S) == {l \in S : \A k \in S : l <= k}

\* Seeded fault, for InServiceIsRunning: only the timer's branch sends the EOI.
Ends_Bad == IF Top.line = TIMER THEN Highest(isr) ELSE {}

\* PIC_EOI names no line: it ends the highest one that is being served.
Ends == Highest(isr)

\* The EOI to the master and the way back to a thread, which runs with
\* interrupts on: the one that was interrupted, or another one.  A tick between
\* the two, which schelude's sti allows, finds nothing in service any more and
\* counts here as one on the thread; what it does to stacks is in Scheduler.
end_of_interrupt ==
  /\ \E l \in {TIMER, KEYBOARD} : In(l, "eoi")
  /\ isr' = isr \ Ends
  /\ handlers' = SubSeq(handlers, 1, Len(handlers) - 1)
  /\ IF_flag' = TRUE
  /\ UNCHANGED <<phase, irr, full, deaf, refused>>

----------------------------------------------------------------------------
Handler == keyboard_driver_irq_handler \/ schelude \/ end_of_interrupt

Next ==
  \/ tick \/ key \/ (\E l \in Strangers : stranger(l))
  \/ init_idt \/ sti \/ cli \/ exception
  \/ (\E l \in Lines : accept(l))
  \/ Handler

Spec == Init /\ [][Next]_vars

----------------------------------------------------------------------------
(***************************************************************************)
(* Properties.                                                             *)
(***************************************************************************)
\* A line in service has its handler on the stack, which will end it: no
\* line is ever blocked, by itself or by one above it, because an EOI went
\* to another line or was not sent.  There is never more than one, although
\* schelude switches interrupts on before the EOI.
InServiceIsRunning ==
  phase = "up" =>
    /\ isr = {handlers[i].line : i \in DOMAIN handlers}
    /\ Len(handlers) <= 1

\* All lines are unmasked and not all have a gate; timer and keyboard, whatever
\* they do, are not what halts the kernel for want of one.
OnlyStrangersHalt == refused \subseteq Strangers
=============================================================================
