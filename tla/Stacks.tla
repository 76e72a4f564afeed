------------------------------- MODULE Stacks ------------------------------
(***************************************************************************)
(* Where the stacks of tasks are: create_process and schelude of           *)
(* src/scheluding/scheluder.c on the heap of src/mem/kheap.c.              *)
(*                                                                         *)
(* create_process takes three blocks for a task: its record, its first     *)
(* context and its stack, and alloc_stack returns the low end of the third *)
(* as the stack pointer.  A stack grows down, so the task pushes over the  *)
(* three headers, the context and the record, and then into the unused     *)
(* block of the task before it.  schelude writes the context pointer and   *)
(* the status of a task that was interrupted into its record: into its     *)
(* stack.  What that hits depends on how deep the task was: the part of    *)
(* the stack below the frame, where the handler is running, the frame, or  *)
(* what the task itself has pushed.                                        *)
(*                                                                         *)
(* Addresses are bytes.  Task 0 is the slot the boot thread takes over,    *)
(* which has a stack elsewhere.  Ticks in the windows of Scheduler are     *)
(* left out here: the publication of a slot is part of create_process, and *)
(* a handler is not interrupted.                                           *)
(***************************************************************************)
EXTENDS Integers

CONSTANTS HDR,          \* sizeof(heap_node)
          TABLE,        \* bytes of the table of snapshots
          RECORD,       \* sizeof(process_t)
          CONTEXT_AT,   \* offsetof(process_t, context), a pointer
          FRAME,        \* sizeof(cpu_status)
          IRET_AT,      \* offsetof(cpu_status, iret_rip)
          STACK,        \* what alloc_stack asks for
          START,        \* heap_start
          NumTasks,     \* how many tasks the boot thread creates
          Depths,       \* bytes a task may have pushed when it is interrupted
          HANDLER       \* bytes a handler uses below the frame

POINTER == 8
STATUS == 4             \* the status is the first field of the record

ASSUME StacksAssumption ==
  /\ {HDR, TABLE, RECORD, CONTEXT_AT, FRAME, IRET_AT, STACK, START, HANDLER} \subseteq Nat
  /\ CONTEXT_AT >= STATUS /\ CONTEXT_AT + POINTER = RECORD /\ IRET_AT < FRAME
  /\ NumTasks \in Nat \ {0}
  /\ Depths \subseteq Nat
  /\ \A d \in Depths \cup {0} : d + 16 + FRAME + HANDLER <= STACK

Tasks == 0 .. NumTasks - 1

VARIABLES
  created,    \* numTasks
  current,    \* currentTask
  depth,      \* how many bytes each task has pushed
  low,        \* the lowest byte each task's stack has been to
  entered,    \* the tasks that have run
  damage,     \* what is damaged of each task that waits
  early,      \* history: a task ran before the last one was created
  stopped     \* how the kernel crashed, if it did

vars == <<created, current, depth, low, entered, damage, early, stopped>>

----------------------------------------------------------------------------
(***************************************************************************)
(* The blocks, in the order kmalloc appends them to an empty heap.         *)
(***************************************************************************)
\* Seeded fault, for StacksKeepApart: a stack of 16 bytes and not 16 K.
StackSize_Bad == STACK \div 1024

StackSize == STACK

PerTask == 3 * HDR + RECORD + FRAME + StackSize

RecordOf(t) == START + HDR + TABLE + t * PerTask + HDR

ContextOf(t) == RecordOf(t) + RECORD + HDR

StackOf(t) == ContextOf(t) + FRAME + HDR

HeadersOf(t) == {RecordOf(t) - HDR, ContextOf(t) - HDR, StackOf(t) - HDR}

Overlap(a, m, b, n) == a < b + n /\ b < a + m

\* kmalloc reaches the end of the chain through headers that are intact.
ChainHolds ==
  \A t \in 0 .. created - 1 : \A h \in HeadersOf(t) :
    ~Overlap(h, HDR, low[t], StackOf(t) - low[t])

NotStopped == [why |-> "none", depth |-> 0]

Stops(why, d) == stopped' = [why |-> why, depth |-> d]

Init ==
  /\ created = 0 /\ current = 0
  /\ depth = [t \in Tasks |-> 0]
  /\ low = [t \in Tasks |-> StackOf(t)]
  /\ entered = {} /\ damage = [t \in Tasks |-> {}]
  /\ early = FALSE
  /\ stopped = NotStopped

----------------------------------------------------------------------------
\* Three calls of kmalloc.
create_process ==
  /\ stopped = NotStopped /\ current = 0 /\ created < NumTasks
  /\ \/ ChainHolds /\ created' = created + 1 /\ UNCHANGED stopped
     \/ ~ChainHolds /\ Stops("heap", 0) /\ UNCHANGED created
  /\ UNCHANGED <<current, depth, low, entered, damage, early>>

Least(a, b) == IF a < b THEN a ELSE b

\* A task calls and returns: idle_process, processA, processB, processC.
run(t, d) ==
  /\ stopped = NotStopped /\ current = t /\ t # 0 /\ d # depth[t]
  /\ depth' = [depth EXCEPT ![t] = d]
  /\ low' = [low EXCEPT ![t] = Least(low[t], StackOf(t) - d)]
  /\ UNCHANGED <<created, current, entered, damage, early, stopped>>

----------------------------------------------------------------------------
(***************************************************************************)
(* A tick: the processor aligns the stack to 16 bytes, it and the stub     *)
(* push a frame, and the handler runs below it.                            *)
(***************************************************************************)
FrameOf(t) == LET sp == StackOf(t) - depth[t] IN sp - (sp % 16) - FRAME

\* Seeded fault, for DamageDependsOnDepth: schelude saves the frame of the
\* handler that is running, and not the one the stub has pushed.
ContextField_Bad(t) == RecordOf(t) + CONTEXT_AT - FRAME

ContextField(t) == RecordOf(t) + CONTEXT_AT

\* The parts of the stack of a task in a tick: the return addresses and locals
\* of interrupt_dispatch and schelude, the registers the stub has pushed, the
\* five words it returns through, and what the task has pushed itself.
From(t) ==
  [handler   |-> FrameOf(t) - HANDLER,
   registers |-> FrameOf(t),
   return    |-> FrameOf(t) + IRET_AT,
   data      |-> StackOf(t) - depth[t]]

Size(t) ==
  [handler |-> HANDLER, registers |-> IRET_AT, return |-> FRAME - IRET_AT, data |-> depth[t]]

Parts == {"handler", "registers", "return", "data"}

Hits(t, field, size) == {p \in Parts : Overlap(field, size, From(t)[p], Size(t)[p])}

\* schelude stores the context and the status of the current task, below whose
\* stack pointer it runs ...
BySave(t) ==
  IF t = 0 THEN {} ELSE Hits(t, ContextField(t), POINTER) \cup Hits(t, RecordOf(t), STATUS)

\* ... and the status of the next one: its first context is in a block of its
\* own, the others are frames on its stack, and nothing runs below them.
ByChoice(n) ==
  IF n \in entered THEN Hits(n, RecordOf(n), STATUS) \ {"handler"} ELSE {}

\* All of a store is in the address interrupt_dispatch returns to.  READY is
\* zero, the context is on a stack: neither leaves an address of the stub.
Misled(t) ==
  /\ t # 0
  /\ \E f \in {<<ContextField(t), POINTER>>, <<RecordOf(t), STATUS>>} :
       FrameOf(t) - POINTER <= f[1] /\ f[1] + f[2] <= FrameOf(t)

\* The context pointer is written below the frame, where stores of the handler
\* and calls that come after it, print_task among them, may go over it.
InHandler(t) == t # 0 /\ ContextField(t) < FrameOf(t)

\* Seeded fault, for HeapHolds: the boot thread goes on on the stack of its
\* slot.
Pushes_Bad(t) == low' = [low EXCEPT ![t] = Least(low[t], FrameOf(t) - HANDLER)]

Pushes(t) ==
  IF t = 0 THEN UNCHANGED low
  ELSE low' = [low EXCEPT ![t] = Least(low[t], FrameOf(t) - HANDLER)]

\* The handler of a tick returns into the next task.  A part that was hit may
\* be one that matters to nobody (a register or a local not in use); where it
\* does, the task may get on for a while, and is counted as lost at once.
schelude ==
  /\ stopped = NotStopped /\ created > 0
  /\ Pushes(current)
  /\ LET n == (current + 1) % created
         hurt == damage[n] \cup ByChoice(n)
     IN  /\ \E lost \in SUBSET {"context"} :
              /\ lost = {} \/ InHandler(current)
              /\ damage' = [damage EXCEPT
                   ![current] = (BySave(current) \ {"handler"}) \cup lost, ![n] = {}]
         /\ current' = n
         /\ entered' = entered \cup ({n} \ {0})
         /\ early' = (early \/ (n # 0 /\ created < NumTasks))
         /\ \/ "handler" \in BySave(current) /\ Stops("handler", depth[current])
            \/ ~Misled(current) /\ \E what \in hurt : Stops(what, depth[n])
            \/ ~Misled(current) /\ "context" \notin hurt /\ UNCHANGED stopped
  /\ UNCHANGED <<created, depth>>

----------------------------------------------------------------------------
Next ==
  \/ create_process
  \/ \E t \in Tasks, d \in Depths : run(t, d)
  \/ schelude

Spec == Init /\ [][Next]_vars

----------------------------------------------------------------------------
(***************************************************************************)
(* Properties.                                                             *)
(***************************************************************************)
\* From a task's first stack pointer down to a byte of its record.
DownTo(field) == HDR + FRAME + HDR + RECORD - field

\* How a tick can cost the kernel a task whose stack is where its record is
\* follows from how deep the task was.  Only a shallow one has the context
\* pointer, or also the status, below the frame: what the next turn takes for
\* the context is then no frame, or the handler itself goes astray.  Only in a
\* range in between do the stores fall on the saved registers, only in a range
\* further down on the words the task returns through, and only in a task that
\* has gone over the end of its record on what it has pushed itself.
DamageDependsOnDepth ==
  LET d == stopped.depth
  IN  /\ stopped.why = "context" => d < DownTo(CONTEXT_AT) - FRAME
      /\ stopped.why = "handler" => d < DownTo(0) - FRAME
      /\ stopped.why = "registers" =>
           DownTo(RECORD) - FRAME - 15 < d /\ d < DownTo(0) - (FRAME - IRET_AT)
      /\ stopped.why = "return" =>
           DownTo(RECORD) - (FRAME - IRET_AT) - 15 < d /\ d < DownTo(0)
      /\ stopped.why = "data" => DownTo(RECORD) < d

\* The chain of the heap is broken for create_process only if a task got the
\* processor before all were created: a tick while there are two or more.
HeapHolds == stopped.why = "heap" => early

\* No stack reaches the stack or the record of another task, nor the table of
\* records, whatever was pushed on it.
StacksKeepApart ==
  \A t \in entered :
    /\ \A u \in Tasks \ {t} :
         /\ ~Overlap(low[t], StackOf(t) - low[t], low[u], StackOf(u) - low[u])
         /\ ~Overlap(low[t], StackOf(t) - low[t], RecordOf(u), RECORD)
    /\ ~Overlap(low[t], StackOf(t) - low[t], START + HDR, TABLE)
=============================================================================
