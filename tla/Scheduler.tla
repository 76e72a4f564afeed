------------------------------ MODULE Scheduler ------------------------------
(***************************************************************************)
(* The preemptive scheduler: init_scheluder, create_process and schelude   *)
(* (src/scheluding/scheluder.c) driven by the timer interrupt              *)
(* (src/arch/x86_64/idt/idt.c, idt_stub.asm).                              *)
(*                                                                         *)
(* The boot thread creates the tasks while ticks already arrive.  What a   *)
(* thread computes, and process_status, which is only printed, are left    *)
(* out: what matters here is where the registers of each thread are saved, *)
(* and whether they still are what was saved.                              *)
(*                                                                         *)
(* A context is the address of a saved register frame: on which stack, how *)
(* deep, and at which of two offsets the code had its stack when the first *)
(* frame was pushed.  Frames above a restored one are dead: the thread     *)
(* pushes its calls over them.  Each stack is private here; that           *)
(* alloc_stack hands out the low end of its block is not modelled.         *)
(***************************************************************************)
EXTENDS Integers, Sequences

CONSTANTS N,         \* how many tasks init_scheluder creates: 4
          MaxDepth,  \* bound: frames on one stack
          Windows    \* the windows of the code that ticks do hit

Task == 0 .. N - 1   \* in the order of creation; 0 is the idle process
Boot == -1           \* the thread that runs kernel_main
Thread == Task \cup {Boot}
NULL == -1           \* the record at address 0, which is mapped and writable
Record == Task \cup {NULL}

AllWindows == {"memory", "publication", "nesting", "entry"}

ASSUME SchedulerAssumption ==
  /\ N \in Nat \ {0}
  /\ MaxDepth \in Nat \ {0}
  /\ Windows \subseteq AllWindows

VARIABLES
  bootpc,       \* where the boot thread is
  snapshots,    \* the process_t* of each slot
  proc,         \* the context field of each record
  currentTask,
  numTasks,
  stacks,       \* the frames saved on each stack, innermost last
  offset,       \* where the first of them is
  thread,       \* whose stack rsp points into
  mode,         \* what the processor executes: the thread's own code ("run"),
                \* the handler up to the EOI ("eoi"), from there to the load
                \* of rsp ("switch"), or the pops of a new task ("enter")
  rax,          \* the context the handler is about to switch to
  IF_flag,      \* interrupts enabled
  pending,      \* IRQ0 latched in the PIC
  in_service,   \* IRQ0 accepted and not yet acknowledged
  lost,         \* a register frame was loaded that is not one
  hit           \* history: the windows a tick has hit

table == <<snapshots, proc, currentTask, numTasks>>
cpu == <<stacks, offset, thread, mode, rax, IF_flag>>
pic == <<pending, in_service>>
vars == <<bootpc, table, cpu, pic, lost, hit>>

----------------------------------------------------------------------------
Context == [stack : Thread, depth : 0 .. MaxDepth, off : {"heap", "low", "high"}]

\* No frame is at depth 0: the context NULL.
NoContext == [stack |-> Boot, depth |-> 0, off |-> "heap"]

\* The cpu_status create_process fills in on the heap.
Fresh(t) == [stack |-> t, depth |-> 1, off |-> "heap"]

\* A frame says what was interrupted; a nested one continues its own switch.
Frame == [at : {"run", "enter", "switch"}, to : Context]

FrameAt(a, c) == [at |-> a, to |-> c]

\* The memory a context points to still holds the frame.
Intact(c) ==
  /\ c.depth \in DOMAIN stacks[c.stack]
  /\ c.off = offset[c.stack]

Init ==
  /\ bootpc = "init"
  /\ snapshots = [s \in Task |-> NULL]
  /\ proc = [r \in Record |-> NoContext]
  /\ currentTask = 0 /\ numTasks = 0
  /\ stacks = [t \in Thread |-> << >>]
  /\ offset = [t \in Thread |-> "heap"]
  /\ thread = Boot /\ mode = "run" /\ rax = NoContext
  /\ IF_flag = FALSE /\ pending = FALSE /\ in_service = FALSE
  /\ lost = FALSE /\ hit = {}

----------------------------------------------------------------------------
(***************************************************************************)
(* The boot thread.                                                        *)
(***************************************************************************)
BootRuns(pc) == ~lost /\ thread = Boot /\ mode = "run" /\ bootpc = pc

\* Variants named ..._Bad are seeded bugs: they belong to no specification and
\* show that a run would notice the mistake.  Here: interrupts left on.
init_scheluder_Bad ==
  /\ BootRuns("init")
  /\ snapshots' = [s \in Task |-> NULL]
  /\ proc' = [proc EXCEPT ![NULL] = NoContext]
  /\ numTasks' = 0
  /\ IF_flag' = TRUE
  /\ bootpc' = "create"
  /\ UNCHANGED <<currentTask, stacks, offset, thread, mode, rax, pic, lost, hit>>

\* The loop writes through pointers nobody has set: memory that was never
\* written reads as NULL, and the record at address 0 takes the writes.
init_scheluder ==
  /\ BootRuns("init")
  /\ snapshots' = [s \in Task |-> NULL]
  /\ proc' = [proc EXCEPT ![NULL] = NoContext]
  /\ numTasks' = 0
  /\ bootpc' = "create"
  /\ UNCHANGED <<currentTask, cpu, pic, lost, hit>>

\* Or it holds anything else, and the loop writes anywhere.
init_scheluder_wild ==
  /\ BootRuns("init")
  /\ "memory" \in Windows
  /\ lost' = TRUE
  /\ hit' = hit \cup {"memory"}
  /\ UNCHANGED <<bootpc, table, cpu, pic>>

\* From cli to sti: the record and its context are on the heap, the task
\* counts, but the slot, whose index is already chosen, is not written yet.
create_process ==
  /\ BootRuns("create")
  /\ proc' = [proc EXCEPT ![numTasks] = Fresh(numTasks)]
  /\ stacks' = [stacks EXCEPT ![numTasks] = << FrameAt("enter", NoContext) >>]
  /\ numTasks' = numTasks + 1
  /\ IF_flag' = TRUE
  /\ bootpc' = "store"
  /\ UNCHANGED <<snapshots, currentTask, offset, thread, mode, rax, pic, lost, hit>>

\* Seeded bug: the index is read after the call.
publish_BadIndex ==
  /\ BootRuns("store")
  /\ snapshots' = [snapshots EXCEPT ![numTasks] = numTasks - 1]
  /\ bootpc' = IF numTasks = N THEN "reset" ELSE "create"
  /\ UNCHANGED <<proc, currentTask, numTasks, cpu, pic, lost, hit>>

\* snapshots[numTasks] = ..., with the index read before the call.
publish ==
  /\ BootRuns("store")
  /\ snapshots' = [snapshots EXCEPT ![numTasks - 1] = numTasks - 1]
  /\ bootpc' = IF numTasks = N THEN "reset" ELSE "create"
  /\ UNCHANGED <<proc, currentTask, numTasks, cpu, pic, lost, hit>>

\* currentTask = 0, twice, with a printf in between.
reset_current ==
  /\ \/ BootRuns("reset") /\ bootpc' = "reset_again"
     \/ BootRuns("reset_again") /\ bootpc' = "activate"
  /\ currentTask' = 0
  /\ UNCHANGED <<snapshots, proc, numTasks, cpu, pic, lost, hit>>

\* kernel_main enables interrupts, which they are, and enters its loop.
idt_activate ==
  /\ BootRuns("activate")
  /\ IF_flag' = TRUE
  /\ bootpc' = "main"
  /\ UNCHANGED <<table, stacks, offset, thread, mode, rax, pic, lost, hit>>

BootStep ==
  \/ init_scheluder \/ create_process \/ publish
  \/ reset_current \/ idt_activate
----------------------------------------------------------------------------
(***************************************************************************)
(* The timer.                                                              *)
(***************************************************************************)
tick ==
  /\ ~lost /\ ~pending
  /\ pending' = TRUE
  /\ UNCHANGED <<bootpc, table, cpu, in_service, lost, hit>>

Accepts == ~lost /\ IF_flag /\ pending /\ ~in_service

\* The windows a tick accepted now would hit.  With one task there is no
\* other slot to go wrong.
WindowsHit ==
  {w \in {"publication", "nesting"} :
     /\ numTasks > 1
     /\ w = "publication" => bootpc = "store"
     /\ w = "nesting" => mode = "switch"}

\* Seeded bug: the slot is advanced before the context is saved.
schelude_BadOrder(context) ==
  LET next  == (currentTask + 1) % numTasks
      saved == [proc EXCEPT ![snapshots[next]] = context]
  IN  /\ proc' = saved
      /\ currentTask' = next
      /\ rax' = saved[snapshots[next]]
      /\ UNCHANGED <<snapshots, numTasks>>

\* Seeded bug: slot 0, the idle process by its name, is skipped.
schelude_BadSkip(context) ==
  LET next  == IF currentTask + 1 < numTasks THEN currentTask + 1
               ELSE IF numTasks > 1 THEN 1 ELSE 0
      saved == [proc EXCEPT ![snapshots[currentTask]] = context]
  IN  /\ proc' = saved
      /\ currentTask' = next
      /\ rax' = saved[snapshots[next]]
      /\ UNCHANGED <<snapshots, numTasks>>

\* Seeded bug: the ring is walked backwards.
schelude_BadDirection(context) ==
  LET next  == (currentTask + numTasks - 1) % numTasks
      saved == [proc EXCEPT ![snapshots[currentTask]] = context]
  IN  /\ proc' = saved
      /\ currentTask' = next
      /\ rax' = saved[snapshots[next]]
      /\ UNCHANGED <<snapshots, numTasks>>

\* schelude(context), after the stub has pushed the registers: save, advance,
\* and read the context of the next slot, which may be the one just saved.
schelude(context) ==
  LET next  == (currentTask + 1) % numTasks
      saved == [proc EXCEPT ![snapshots[currentTask]] = context]
  IN  /\ proc' = saved
      /\ currentTask' = next
      /\ rax' = saved[snapshots[next]]
      /\ UNCHANGED <<snapshots, numTasks>>

\* Accepted in a thread's own code, or after the EOI of an earlier tick but
\* before that one has switched stacks.
timer_interrupt ==
  /\ Accepts
  /\ mode \in {"run", "switch"}
  /\ WindowsHit \subseteq Windows
  /\ Len(stacks[thread]) < MaxDepth
  /\ \E off \in IF stacks[thread] = << >> THEN {"low", "high"} ELSE {offset[thread]} :
       /\ offset' = [offset EXCEPT ![thread] = off]
       /\ schelude([stack |-> thread, depth |-> Len(stacks[thread]) + 1, off |-> off])
  /\ stacks' = [stacks EXCEPT ![thread] =
                  Append(@, FrameAt(mode, IF mode = "run" THEN NoContext ELSE rax))]
  /\ mode' = "eoi"
  /\ pending' = FALSE /\ in_service' = TRUE
  /\ hit' = hit \cup WindowsHit
  /\ UNCHANGED <<bootpc, thread, IF_flag, lost>>

\* Accepted while the registers of a new task are popped from the heap: the
\* frame goes over the process record in front of them.  What is left of the
\* two is not modelled.
timer_interrupt_on_entry ==
  /\ Accepts
  /\ mode = "enter"
  /\ "entry" \in Windows
  /\ lost' = TRUE
  /\ hit' = hit \cup {"entry"}
  /\ UNCHANGED <<bootpc, table, cpu, pic>>

\* Seeded bug: the EOI is not sent.
end_of_interrupt_Bad ==
  /\ ~lost /\ mode = "eoi"
  /\ mode' = "switch"
  /\ UNCHANGED <<bootpc, table, stacks, offset, thread, rax, IF_flag, pic, lost, hit>>

\* outportb(PIC_MASTER_COMMAND, PIC_EOI): from here on the PIC delivers the
\* next tick, and interrupts are enabled since the sti of schelude.
end_of_interrupt ==
  /\ ~lost /\ mode = "eoi"
  /\ in_service' = FALSE
  /\ mode' = "switch"
  /\ UNCHANGED <<bootpc, table, stacks, offset, thread, rax, IF_flag, pending, lost, hit>>

\* mov rsp, rax; restore_context; iretq
restore_context ==
  /\ ~lost /\ mode = "switch"
  /\ Intact(rax)
  /\ thread' = rax.stack
  /\ LET f == stacks[rax.stack][rax.depth]
     IN  /\ mode' = f.at
         /\ rax' = f.to
  /\ stacks' = [stacks EXCEPT ![rax.stack] = SubSeq(@, 1, rax.depth - 1)]
  /\ UNCHANGED <<bootpc, table, offset, IF_flag, pic, lost, hit>>

\* The same instructions on anything that is not a frame.
restore_garbage ==
  /\ ~lost /\ mode = "switch"
  /\ ~Intact(rax)
  /\ lost' = TRUE
  /\ UNCHANGED <<bootpc, table, cpu, pic, hit>>

\* iretq of a new task: it starts on its own stack.
enter_task ==
  /\ ~lost /\ mode = "enter"
  /\ mode' = "run"
  /\ UNCHANGED <<bootpc, table, stacks, offset, thread, rax, IF_flag, pic, lost, hit>>

Handler == end_of_interrupt \/ restore_context \/ enter_task

Next ==
  \/ BootStep \/ init_scheluder_wild
  \/ tick \/ timer_interrupt \/ timer_interrupt_on_entry
  \/ Handler \/ restore_garbage

Spec == Init /\ [][Next]_vars

\* The handler gets back to what the first of some nested ticks interrupted.
Resume == restore_context /\ mode' = "run"

\* The PIT ticks for ever, the processor takes an interrupt that stays
\* pending and gets through the handler, which is shorter than the 55 ms to
\* the next tick often enough; and a time slice is long enough for a thread to
\* get further each time it has the processor often enough.
Fairness ==
  /\ WF_vars(tick) /\ WF_vars(timer_interrupt)
  /\ WF_vars(Handler) /\ SF_vars(Resume)
  /\ SF_vars(BootStep)

FairSpec == Spec /\ Fairness

----------------------------------------------------------------------------
(***************************************************************************)
(* Properties.                                                             *)
(***************************************************************************)
TypeOK ==
  /\ bootpc \in {"init", "create", "store", "reset", "reset_again",
                 "activate", "main"}
  /\ snapshots \in [Task -> Record]
  /\ proc \in [Record -> Context]
  /\ numTasks \in 0 .. N
  /\ currentTask \in Task
  /\ stacks \in [Thread -> Seq(Frame)]
  /\ \A t \in Thread : Len(stacks[t]) <= MaxDepth
  /\ offset \in [Thread -> {"heap", "low", "high"}]
  /\ thread \in Thread
  /\ mode \in {"run", "eoi", "switch", "enter"}
  /\ rax \in Context
  /\ IF_flag \in BOOLEAN /\ pending \in BOOLEAN /\ in_service \in BOOLEAN
  /\ lost \in BOOLEAN
  /\ hit \subseteq Windows

\* The thread that belongs in a slot.  The first tick saves the boot thread
\* into slot 0, over the context of the idle process, which never runs.
Owner(s) == IF s = 0 THEN Boot ELSE s

SlotOf(t) == IF t = Boot THEN 0 ELSE t

\* A tick may come between any two steps of the boot and of the handler: as
\* long as it hits none of the named windows, no register frame that has been
\* overwritten is ever loaded, and the thread on the processor is the one
\* whose slot is current -- so each save goes to the right record.
SoundOutsideWindows ==
  hit = {} => /\ ~lost
              /\ mode \in {"run", "enter"} => thread = Owner(currentTask)

\* Between ticks every other task that has its slot can be dispatched: its
\* record points to an intact frame on its own stack.
WaitingTasksAreSaved ==
  (hit = {} /\ mode \in {"run", "enter"}) =>
     \A s \in 0 .. numTasks - 1 :
        s # currentTask /\ snapshots[s] # NULL =>
           /\ proc[snapshots[s]].stack = Owner(s)
           /\ Intact(proc[snapshots[s]])

\* schelude divides by numTasks and follows snapshots[currentTask]: no
\* interrupt can be taken before there is something to divide by.
NoTickBeforeFirstTask == IF_flag => numTasks > 0

\* The inductive invariant behind the last three.  Whatever ticks do, the boot
\* program keeps the number of tasks in step with where it is.
BootInv ==
  /\ bootpc = "init" => ~IF_flag
  /\ bootpc = "create" => numTasks < N
  /\ bootpc = "store" => numTasks > 0
  /\ bootpc \notin {"init", "create"} => numTasks > 0
  /\ IF_flag => numTasks > 0
  /\ numTasks > 0 => IF_flag
  /\ numTasks = 0 => currentTask = 0 /\ thread = Boot /\ mode = "run"

\* Slots are published in order; only the last can lag behind.
Published == IF bootpc = "store" THEN numTasks - 1 ELSE numTasks

TableInv ==
  /\ \A s \in Task : snapshots[s] = IF s < Published THEN s ELSE NULL
  /\ currentTask = 0 \/ currentTask < Published
  /\ bootpc = "store" /\ numTasks > 1 =>
        thread = Boot /\ mode = "run" /\ currentTask = 0
  /\ bootpc \notin {"init", "create", "store"} => numTasks = N

\* The innermost frame of a stack.
Top(t) == [stack |-> t, depth |-> Len(stacks[t]), off |-> offset[t]]

\* A task that does not have the processor is one frame, to which its record
\* points.
Waits(s) ==
  /\ Len(stacks[Owner(s)]) = 1
  /\ stacks[Owner(s)][1].at \in {"run", "enter"}
  /\ proc[s] = Top(Owner(s))

StackInv ==
  /\ \A t \in Task : numTasks <= t => stacks[t] = << >> /\ offset[t] = "heap"
  /\ mode \in {"run", "enter"} =>
       /\ thread = Owner(currentTask)
       /\ stacks[thread] = << >>
       /\ \A s \in 0 .. numTasks - 1 : s # currentTask => Waits(s)
  /\ mode \in {"eoi", "switch"} =>
       /\ rax = Top(Owner(currentTask))
       /\ currentTask = (SlotOf(thread) + 1) % numTasks
       /\ numTasks > 1 => \A s \in 0 .. numTasks - 1 : Waits(s)
       /\ numTasks = 1 =>   \* ticks may nest: each continues the one outside it
            /\ thread = Boot /\ stacks[Boot] # << >>
            /\ stacks[Boot][1].at = "run"
            /\ \A k \in 2 .. Len(stacks[Boot]) :
                 stacks[Boot][k] =
                   FrameAt("switch", [stack |-> Boot, depth |-> k - 1, off |-> offset[Boot]])

Inv ==
  /\ TypeOK
  /\ BootInv
  /\ hit = {} => ~lost /\ TableInv /\ StackInv

\* As long as no window is hit the tasks share the processor as a ring: every
\* switch of stacks hands it to the next slot, and no other step does.
Ring == INSTANCE RoundRobin WITH
          members <- numTasks,
          on      <- SlotOf(thread)

ImplementsRing ==
  Ring!Init /\ [][hit' = {} => [Ring!Next]_(Ring!ringVars)]_vars

\* If none ever is, the boot gets through although it shares the processor ...
BootCompletes == [](hit = {}) => <>(bootpc = "main")

\* ... and every slot gets the processor again and again.
EveryTaskRuns ==
  [](hit = {}) => \A s \in Task : []<>(thread = Owner(s) /\ mode = "run")
=============================================================================
