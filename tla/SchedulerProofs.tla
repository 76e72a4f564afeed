-------------------------- MODULE SchedulerProofs --------------------------
(***************************************************************************)
(* The safety properties of Scheduler, proved for every number of tasks,   *)
(* every depth of nesting and every choice of windows.                     *)
(***************************************************************************)
EXTENDS Scheduler, SequenceTheorems, TLAPS

LEMMA FreshIsContext ==
  /\ NoContext \in Context
  /\ \A t \in Task : Fresh(t) \in Context /\ FrameAt("enter", NoContext) \in Frame
BY SchedulerAssumption DEF NoContext, Fresh, Context, FrameAt, Frame, Thread, Task, Boot

LEMMA NextSlot ==
  ASSUME NEW n \in Nat \ {0}, NEW c \in Nat
  PROVE  (c + 1) % n \in 0 .. n - 1
OBVIOUS

\* schelude keeps the table well typed.
LEMMA ScheludeType ==
  ASSUME TypeOK, numTasks > 0, NEW c \in Context, schelude(c)
  PROVE  /\ proc' \in [Record -> Context]
         /\ currentTask' \in 0 .. numTasks - 1
         /\ rax' \in Context
         /\ snapshots' = snapshots /\ numTasks' = numTasks
<1>1. (currentTask + 1) % numTasks \in 0 .. numTasks - 1
  <2>1. numTasks \in Nat \ {0} /\ currentTask \in Nat
    BY SchedulerAssumption DEF TypeOK, Task
  <2> QED
    BY <2>1, NextSlot
<1>2. numTasks \in 1 .. N /\ currentTask \in Task
  BY SchedulerAssumption DEF TypeOK
<1>3. (currentTask + 1) % numTasks \in Task
  BY <1>1, <1>2, SchedulerAssumption DEF Task
<1> QED
  BY <1>1, <1>2, <1>3 DEF schelude, TypeOK

LEMMA TypeInit == Init => TypeOK /\ BootInv
<1> SUFFICES ASSUME Init PROVE TypeOK /\ BootInv
  OBVIOUS
<1>1. \A t \in Thread : stacks[t] = << >>
  BY DEF Init
<1>2. stacks \in [Thread -> Seq(Frame)] /\ \A t \in Thread : Len(stacks[t]) <= MaxDepth
  BY <1>1, SchedulerAssumption DEF Init
<1>3. 0 \in Task /\ Boot \in Thread /\ NULL \in Record /\ 0 \in 0 .. N
  BY SchedulerAssumption DEF Task, Thread, Record
<1>4. snapshots \in [Task -> Record] /\ proc \in [Record -> Context]
      /\ offset \in [Thread -> {"heap", "low", "high"}]
  BY <1>3, FreshIsContext DEF Init
<1>5. IF_flag \in BOOLEAN /\ pending \in BOOLEAN /\ in_service \in BOOLEAN
      /\ lost \in BOOLEAN
  BY DEF Init
<1>6. TypeOK
  BY <1>2, <1>3, <1>4, <1>5, FreshIsContext DEF Init, TypeOK
<1>7. BootInv
  BY DEF Init, BootInv
<1> QED
  BY <1>6, <1>7

LEMMA TypeStep == TypeOK /\ BootInv /\ [Next]_vars => TypeOK' /\ BootInv'
<1> SUFFICES ASSUME TypeOK, BootInv, [Next]_vars PROVE TypeOK' /\ BootInv'
  OBVIOUS
<1> USE SchedulerAssumption DEF cpu, table, pic
<1>1. CASE init_scheluder
  <2>1. NULL \in Record
    BY DEF Record
  <2> QED
    BY <1>1, <2>1, FreshIsContext DEF init_scheluder, BootRuns, TypeOK, BootInv
<1>2. CASE create_process
  <2>1. numTasks \in Task /\ numTasks \in Nat /\ numTasks + 1 \in 0 .. N
    BY <1>2 DEF create_process, BootRuns, TypeOK, BootInv, Task
  <2>2. << FrameAt("enter", NoContext) >> \in Seq(Frame)
        /\ Len(<< FrameAt("enter", NoContext) >>) = 1
    BY <2>1, FreshIsContext
  <2> DEFINE fresh == << FrameAt("enter", NoContext) >>
  <2>3. stacks' \in [Thread -> Seq(Frame)] /\ \A t \in Thread : Len(stacks'[t]) <= MaxDepth
    <3>1. stacks' = [stacks EXCEPT ![numTasks] = fresh] /\ numTasks \in Thread
      BY <1>2, <2>1 DEF create_process, Thread
    <3> HIDE DEF fresh
    <3>2. fresh \in Seq(Frame) /\ Len(fresh) <= MaxDepth
      BY <2>2 DEF fresh
    <3> QED
      BY <3>1, <3>2 DEF TypeOK
  <2>4. proc' \in [Record -> Context]
    BY <1>2, <2>1, FreshIsContext DEF create_process, TypeOK, Record
  <2> QED
    BY <1>2, <2>1, <2>3, <2>4 DEF create_process, BootRuns, TypeOK, BootInv
<1>3. CASE publish
  <2>1. numTasks - 1 \in Task
    BY <1>3 DEF publish, BootRuns, TypeOK, BootInv, Task
  <2> QED
    BY <1>3, <2>1 DEF publish, BootRuns, TypeOK, BootInv, Record, Task
<1>4. CASE reset_current
  BY <1>4 DEF reset_current, BootRuns, TypeOK, BootInv, Task
<1>5. CASE idt_activate
  BY <1>5 DEF idt_activate, BootRuns, TypeOK, BootInv
<1>6. CASE init_scheluder_wild
  BY <1>6 DEF init_scheluder_wild, BootRuns, TypeOK, BootInv
<1>7. CASE tick
  BY <1>7 DEF tick, TypeOK, BootInv
<1>8. CASE timer_interrupt
  <2>1. numTasks > 0
    BY <1>8 DEF timer_interrupt, Accepts, BootInv
  <2> DEFINE d == Len(stacks[thread]) + 1
             fr == FrameAt(mode, IF mode = "run" THEN NoContext ELSE rax)
  <2>2. thread \in Thread /\ d \in 1 .. MaxDepth /\ stacks[thread] \in Seq(Frame)
    BY <1>8 DEF timer_interrupt, TypeOK
  <2>3. PICK off \in {"heap", "low", "high"} :
          /\ offset' = [offset EXCEPT ![thread] = off]
          /\ schelude([stack |-> thread, depth |-> d, off |-> off])
    BY <1>8, <2>2 DEF timer_interrupt, TypeOK
  <2>4. [stack |-> thread, depth |-> d, off |-> off] \in Context
    BY <2>2 DEF Context
  <2>5. /\ proc' \in [Record -> Context]
        /\ currentTask' \in 0 .. numTasks - 1
        /\ rax' \in Context
        /\ snapshots' = snapshots /\ numTasks' = numTasks
    BY <2>1, <2>3, <2>4, ScheludeType
  <2>6. fr \in Frame
    BY <1>8, FreshIsContext DEF timer_interrupt, TypeOK, FrameAt, Frame
  <2>7. stacks' = [stacks EXCEPT ![thread] = Append(stacks[thread], fr)]
    BY <1>8 DEF timer_interrupt
  <2>8. Append(stacks[thread], fr) \in Seq(Frame) /\ Len(Append(stacks[thread], fr)) = d
    BY <2>2, <2>6
  <2>9. stacks' \in [Thread -> Seq(Frame)] /\ \A t \in Thread : Len(stacks'[t]) <= MaxDepth
    <3> HIDE DEF d, fr
    <3> QED  BY <2>2, <2>7, <2>8 DEF TypeOK
  <2>10. offset' \in [Thread -> {"heap", "low", "high"}]
    BY <2>3 DEF TypeOK
  <2>11. currentTask' \in Task
    BY <2>5 DEF Task, TypeOK
  <2>12. hit' \subseteq Windows
    BY <1>8 DEF timer_interrupt, TypeOK
  <2> QED
    <3> HIDE DEF d, fr
    <3>1. /\ bootpc' = bootpc /\ thread' = thread /\ IF_flag' = IF_flag /\ lost' = lost
          /\ mode' = "eoi" /\ pending' = FALSE /\ in_service' = TRUE
      BY <1>8 DEF timer_interrupt
    <3>2. TypeOK'
      BY <2>5, <2>9, <2>10, <2>11, <2>12, <3>1 DEF TypeOK
    <3>3. BootInv'
      BY <2>1, <2>5, <3>1 DEF BootInv
    <3> QED
      BY <3>2, <3>3
<1>9. CASE timer_interrupt_on_entry
  BY <1>9 DEF timer_interrupt_on_entry, TypeOK, BootInv
<1>10. CASE end_of_interrupt
  BY <1>10 DEF end_of_interrupt, TypeOK, BootInv
<1>11. CASE restore_context
  <2>1. /\ rax.stack \in Thread /\ rax.depth \in 1 .. Len(stacks[rax.stack])
        /\ stacks[rax.stack] \in Seq(Frame) /\ rax.depth \in Nat
    BY <1>11 DEF restore_context, Intact, TypeOK, Context
  <2>2. stacks[rax.stack][rax.depth] \in Frame
    BY <2>1
  <2>3. /\ SubSeq(stacks[rax.stack], 1, rax.depth - 1) \in Seq(Frame)
        /\ Len(SubSeq(stacks[rax.stack], 1, rax.depth - 1)) = rax.depth - 1
    BY <2>1, SubSeqProperties
  <2>4. stacks' \in [Thread -> Seq(Frame)] /\ \A t \in Thread : Len(stacks'[t]) <= MaxDepth
    BY <1>11, <2>1, <2>3 DEF restore_context, TypeOK
  <2>5. mode' \in {"run", "eoi", "switch", "enter"} /\ rax' \in Context
    BY <1>11, <2>2 DEF restore_context, Frame
  <2>6. mode = "switch" /\ thread' \in Thread
    BY <1>11, <2>1 DEF restore_context
  <2> QED
    BY <1>11, <2>4, <2>5, <2>6 DEF restore_context, TypeOK, BootInv
<1>12. CASE restore_garbage
  BY <1>12 DEF restore_garbage, TypeOK, BootInv
<1>13. CASE enter_task
  BY <1>13 DEF enter_task, TypeOK, BootInv
<1>14. CASE UNCHANGED vars
  BY <1>14 DEF vars, TypeOK, BootInv
<1> QED
  BY <1>1, <1>2, <1>3, <1>4, <1>5, <1>6, <1>7, <1>8, <1>9, <1>10, <1>11, <1>12,
     <1>13, <1>14 DEF Next, BootStep, Handler

\* The variables of the scheduler keep their types.
THEOREM TypeCorrect == Spec => []TypeOK
BY TypeInit, TypeStep, PTL DEF Spec

\* No interrupt is taken before there is a task to divide by.
THEOREM NoEarlyTick == Spec => []NoTickBeforeFirstTask
<1>1. BootInv => NoTickBeforeFirstTask
  BY DEF BootInv, NoTickBeforeFirstTask
<1> QED
  BY <1>1, TypeInit, TypeStep, PTL DEF Spec
----------------------------------------------------------------------------
(***************************************************************************)
(* The inductive invariant.  Every lemma below speaks of a step that hits  *)
(* no window.                                                              *)
(***************************************************************************)
Quiet == TypeOK /\ BootInv /\ hit = {} /\ ~lost /\ TableInv /\ StackInv

LEMMA OwnerFacts ==
  /\ Owner(0) = Boot
  /\ \A s \in Nat : Owner(s) = Boot => s = 0
  /\ \A s, u \in Nat : Owner(s) = Owner(u) => s = u
  /\ \A s \in Nat : s # 0 => Owner(s) = s
  /\ \A s \in Task : Owner(s) \in Thread
BY SchedulerAssumption DEF Owner, Boot, Task, Thread

LEMMA NumberFacts ==
  ASSUME TypeOK
  PROVE  /\ N \in Nat \ {0} /\ numTasks \in Nat /\ numTasks <= N
         /\ currentTask \in Nat
         /\ \A s \in 0 .. numTasks - 1 : s \in Task /\ s \in Nat
         /\ \A t \in Task : t \in Nat /\ t \in Thread /\ t \in Record /\ t # Boot
         /\ Boot \in Thread
         /\ \A t \in Thread : Len(stacks[t]) \in Nat
         /\ 0 \in Task
BY SchedulerAssumption DEF TypeOK, Task, Thread, Record, Boot

\* The boot thread runs only while slot 0 is current.
LEMMA BootIsSlotZero ==
  ASSUME Quiet, thread = Boot, mode = "run"
  PROVE  /\ currentTask = 0 /\ stacks[Boot] = << >>
         /\ \A s \in 0 .. numTasks - 1 : s # 0 => Waits(s)
BY NumberFacts, OwnerFacts DEF Quiet, StackInv

LEMMA CreateStep ==
  ASSUME Quiet, create_process
  PROVE  TableInv' /\ StackInv'
<1>1. /\ bootpc = "create" /\ bootpc' = "store" /\ thread = Boot /\ mode = "run"
      /\ numTasks' = numTasks + 1 /\ currentTask' = currentTask
      /\ thread' = thread /\ mode' = mode /\ snapshots' = snapshots
      /\ offset' = offset
      /\ proc' = [proc EXCEPT ![numTasks] = Fresh(numTasks)]
      /\ stacks' = [stacks EXCEPT ![numTasks] = << FrameAt("enter", NoContext) >>]
  BY DEF create_process, BootRuns
<1>2. TypeOK /\ numTasks \in Nat /\ numTasks < N /\ numTasks \in Task
  BY <1>1, NumberFacts DEF Quiet, BootInv, Task
<1>3. /\ currentTask = 0 /\ stacks[Boot] = << >>
      /\ \A s \in 0 .. numTasks - 1 : s # 0 => Waits(s)
  BY <1>1, BootIsSlotZero
<1>4. Published = numTasks /\ Published' = numTasks
  BY <1>1, <1>2 DEF Published
<1>5. TableInv'
  BY <1>1, <1>2, <1>3, <1>4 DEF Quiet, TableInv
<1>6. \A t \in Task : numTasks' <= t => stacks'[t] = << >> /\ offset'[t] = "heap"
  BY <1>1, <1>2, NumberFacts DEF Quiet, StackInv, TypeOK
<1>7. stacks'[Boot] = << >>
  BY <1>1, <1>2, <1>3, NumberFacts DEF TypeOK
<1>8. ASSUME NEW s \in 0 .. numTasks' - 1, s # 0
      PROVE  Waits(s)'
  <2>1. Owner(s) = s /\ s \in Task /\ s \in Thread /\ s \in Record
    BY <1>1, <1>2, <1>8, OwnerFacts, NumberFacts DEF Task
  <2>2. CASE s = numTasks
    <3>1. stacks'[s] = << FrameAt("enter", NoContext) >> /\ proc'[s] = Fresh(s)
      BY <1>1, <2>1, <2>2, <1>2 DEF TypeOK
    <3>2. offset'[s] = "heap"
      BY <1>1, <1>2, <2>1, <2>2 DEF Quiet, StackInv
    <3> QED
      BY <2>1, <3>1, <3>2 DEF Waits, Top, Fresh, FrameAt
  <2>3. CASE s # numTasks
    <3>1. s \in 0 .. numTasks - 1 /\ Waits(s)
      BY <1>1, <1>2, <1>3, <1>8, <2>3
    <3>2. stacks'[s] = stacks[s] /\ proc'[s] = proc[s]
      BY <1>1, <1>2, <2>1, <2>3 DEF TypeOK
    <3> QED
      BY <1>1, <2>1, <3>1, <3>2 DEF Waits, Top
  <2> QED
    BY <2>2, <2>3
<1>9. StackInv'
  BY <1>1, <1>3, <1>6, <1>7, <1>8, OwnerFacts DEF StackInv
<1> QED
  BY <1>5, <1>9

LEMMA InitStep ==
  ASSUME Quiet, init_scheluder
  PROVE  TableInv' /\ StackInv'
<1>1. /\ bootpc = "init" /\ bootpc' = "create" /\ numTasks' = 0
      /\ thread' = thread /\ mode' = mode /\ stacks' = stacks /\ offset' = offset
      /\ currentTask' = currentTask /\ rax' = rax
      /\ snapshots' = [s \in Task |-> NULL] /\ thread = Boot /\ mode = "run"
  BY DEF init_scheluder, BootRuns, cpu
<1>2. numTasks = 0 /\ currentTask = 0
  BY <1>1, NumberFacts DEF Quiet, BootInv
<1>3. TableInv'
  BY <1>1, <1>2, SchedulerAssumption DEF TableInv, Published, Task
<1>4. StackInv'
  BY <1>1, <1>2, SchedulerAssumption DEF Quiet, StackInv, Owner
<1> QED
  BY <1>3, <1>4

LEMMA PublishStep ==
  ASSUME Quiet, publish
  PROVE  TableInv' /\ StackInv'
<1>1. /\ bootpc = "store" /\ bootpc' = IF numTasks = N THEN "reset" ELSE "create"
      /\ thread = Boot /\ mode = "run"
      /\ snapshots' = [snapshots EXCEPT ![numTasks - 1] = numTasks - 1]
      /\ numTasks' = numTasks /\ currentTask' = currentTask /\ proc' = proc
      /\ thread' = thread /\ mode' = mode /\ stacks' = stacks /\ offset' = offset
      /\ rax' = rax
  BY DEF publish, BootRuns, cpu
<1>2. TypeOK /\ numTasks \in Nat /\ numTasks > 0 /\ numTasks - 1 \in Task
  BY <1>1, NumberFacts DEF Quiet, BootInv, Task
<1>3. currentTask = 0
  BY <1>1, BootIsSlotZero
<1>4. Published = numTasks - 1 /\ Published' = numTasks
  BY <1>1, <1>2 DEF Published
<1>5. TableInv'
  BY <1>1, <1>2, <1>3, <1>4, NumberFacts DEF Quiet, TableInv, TypeOK
<1>6. StackInv'
  BY <1>1 DEF Quiet, StackInv, Waits, Top
<1> QED
  BY <1>5, <1>6

LEMMA ResetStep ==
  ASSUME Quiet, reset_current
  PROVE  TableInv' /\ StackInv'
<1>1. /\ bootpc \in {"reset", "reset_again"} /\ bootpc' \in {"reset_again", "activate"}
      /\ thread = Boot /\ mode = "run" /\ currentTask' = 0
      /\ numTasks' = numTasks /\ snapshots' = snapshots /\ proc' = proc
      /\ thread' = thread /\ mode' = mode /\ stacks' = stacks /\ offset' = offset
      /\ rax' = rax
  BY DEF reset_current, BootRuns, cpu
<1>2. currentTask = 0
  BY <1>1, BootIsSlotZero
<1>3. Published' = Published
  BY <1>1 DEF Published
<1>4. TableInv'
  BY <1>1, <1>2, <1>3 DEF Quiet, TableInv
<1>5. StackInv'
  BY <1>1, <1>2 DEF Quiet, StackInv, Waits, Top
<1> QED
  BY <1>4, <1>5

LEMMA UnchangedStep ==
  ASSUME Quiet, UNCHANGED <<snapshots, proc, currentTask, numTasks, stacks, offset, thread, rax>>,
         \/ bootpc' = bootpc
         \/ bootpc = "activate" /\ bootpc' = "main",
         \/ mode' = mode
         \/ mode = "eoi" /\ mode' = "switch"
         \/ mode = "enter" /\ mode' = "run"
  PROVE  TableInv' /\ StackInv'
<1>1. Published' = Published
  BY DEF Published
<1>2. TableInv'
  BY <1>1 DEF Quiet, TableInv
<1>3. StackInv'
  BY DEF Quiet, StackInv, Waits, Top
<1> QED
  BY <1>2, <1>3

\* A tick with several tasks: the running one becomes a waiting one.
LEMMA TickStepMany ==
  ASSUME Quiet, timer_interrupt, WindowsHit = {}, numTasks > 1
  PROVE  TableInv' /\ StackInv'
<1>1. TypeOK /\ bootpc # "store" /\ mode = "run"
  <2>1. "publication" \notin WindowsHit /\ "nesting" \notin WindowsHit
    OBVIOUS
  <2> QED
    BY <2>1 DEF WindowsHit, timer_interrupt, Quiet
<1>2. /\ Published = numTasks /\ currentTask \in 0 .. numTasks - 1
      /\ \A s \in 0 .. numTasks - 1 : snapshots[s] = s
  BY <1>1, NumberFacts DEF Published, Quiet, TableInv
<1>3. /\ thread = Owner(currentTask) /\ stacks[thread] = << >> /\ thread \in Thread
      /\ \A s \in 0 .. numTasks - 1 : s # currentTask => Waits(s)
  BY <1>1 DEF Quiet, StackInv, TypeOK
<1> DEFINE next == (currentTask + 1) % numTasks
           f == FrameAt("run", NoContext)
<1>4. PICK off \in {"low", "high"} :
        /\ offset' = [offset EXCEPT ![thread] = off]
        /\ schelude([stack |-> thread, depth |-> 1, off |-> off])
  <2>1. Len(stacks[thread]) + 1 = 1
    BY <1>3
  <2> QED
    BY <1>3, <2>1 DEF timer_interrupt
<1> DEFINE c == [stack |-> thread, depth |-> 1, off |-> off]
<1>5. /\ stacks' = [stacks EXCEPT ![thread] = << f >>]
      /\ mode' = "eoi" /\ thread' = thread /\ bootpc' = bootpc
  BY <1>1, <1>3 DEF timer_interrupt
<1>6. next \in 0 .. numTasks - 1 /\ next \in Task
  <2>1. numTasks \in Nat \ {0} /\ currentTask \in Nat
    BY <1>1, NumberFacts
  <2> QED
    BY <1>1, <2>1, NextSlot, NumberFacts
<1>7. /\ proc' = [proc EXCEPT ![currentTask] = c]
      /\ currentTask' = next /\ numTasks' = numTasks /\ snapshots' = snapshots
      /\ rax' = proc'[next]
  BY <1>2, <1>4, <1>6 DEF schelude
<1>8. ASSUME NEW s \in 0 .. numTasks - 1 PROVE Waits(s)'
  <2>1. s \in Nat /\ s \in Record /\ Owner(s) \in Thread /\ currentTask \in Nat
    BY <1>1, NumberFacts, OwnerFacts
  <2>2. CASE s = currentTask
    <3>1. stacks'[Owner(s)] = << f >> /\ offset'[Owner(s)] = off /\ proc'[s] = c
      BY <1>1, <1>3, <1>4, <1>5, <1>7, <2>1, <2>2 DEF TypeOK
    <3>2. Len(<< f >>) = 1 /\ << f >>[1] = f /\ f.at = "run"
      BY DEF FrameAt
    <3> QED
      BY <1>3, <2>2, <3>1, <3>2 DEF Waits, Top
  <2>3. CASE s # currentTask
    <3>1. Owner(s) # thread
      BY <1>3, <2>1, <2>3, OwnerFacts
    <3>2. /\ stacks'[Owner(s)] = stacks[Owner(s)]
          /\ offset'[Owner(s)] = offset[Owner(s)]
          /\ proc'[s] = proc[s]
      <4> HIDE DEF c, f
      <4> QED
        BY <1>1, <1>4, <1>5, <1>7, <2>1, <2>3, <3>1 DEF TypeOK
    <3> QED
      BY <1>3, <2>3, <3>2 DEF Waits, Top
  <2> QED
    BY <2>2, <2>3
<1>9. TableInv'
  <2> HIDE DEF next, c, f
  <2>1. Published' = Published /\ Published = numTasks
    BY <1>1, <1>2, <1>5, <1>7 DEF Published
  <2>2. currentTask' < Published'
    BY <1>1, <1>6, <1>7, <2>1, NumberFacts
  <2> QED
    BY <1>1, <1>5, <1>7, <2>1, <2>2 DEF Quiet, TableInv
<1>10. ASSUME NEW t \in Task, numTasks <= t
       PROVE  stacks'[t] = << >> /\ offset'[t] = "heap"
  <2>1. t # thread /\ t \in Thread
    BY <1>1, <1>2, <1>3, <1>10, NumberFacts, OwnerFacts DEF Owner
  <2>2. stacks[t] = << >> /\ offset[t] = "heap"
    BY <1>10 DEF Quiet, StackInv
  <2> QED
    BY <1>1, <1>4, <1>5, <2>1, <2>2 DEF TypeOK
<1>11. rax' = Top(Owner(currentTask))'
  BY <1>6, <1>7, <1>8 DEF Waits
<1>12. currentTask' = (SlotOf(thread') + 1) % numTasks'
  <2>1. SlotOf(thread) = currentTask
    BY <1>1, <1>3, NumberFacts DEF SlotOf, Owner, Boot
  <2> QED
    BY <1>5, <1>7, <2>1
<1>13. StackInv'
  <2> HIDE DEF next, c, f
  <2> QED
    BY <1>5, <1>7, <1>8, <1>10, <1>11, <1>12 DEF StackInv
<1> QED
  BY <1>9, <1>13

\* A tick with one task: slot 0 is saved and dispatched at once, even while
\* an earlier tick has not switched stacks yet.
LEMMA TickStepOne ==
  ASSUME Quiet, timer_interrupt, numTasks = 1
  PROVE  TableInv' /\ StackInv'
<1> DEFINE d == Len(stacks[Boot]) + 1
           f == FrameAt(mode, IF mode = "run" THEN NoContext ELSE rax)
<1>1. TypeOK /\ currentTask = 0 /\ mode \in {"run", "switch"}
      /\ stacks[Boot] \in Seq(Frame) /\ d \in Nat /\ d >= 1
  <2>1. Published <= 1
    BY DEF Published
  <2>2. currentTask = 0
    BY <2>1, NumberFacts DEF Quiet, TableInv, Published
  <2>3. stacks[Boot] \in Seq(Frame) /\ d \in Nat /\ d >= 1
    BY NumberFacts DEF Quiet, TypeOK
  <2> QED
    BY <2>2, <2>3 DEF Quiet, timer_interrupt
<1>2. thread = Boot
  BY <1>1, OwnerFacts DEF Quiet, StackInv
<1>3. PICK off \in {"heap", "low", "high"} :
        /\ stacks[Boot] # << >> => off = offset[Boot]
        /\ offset' = [offset EXCEPT ![Boot] = off]
        /\ schelude([stack |-> Boot, depth |-> d, off |-> off])
  BY <1>1, <1>2, NumberFacts DEF timer_interrupt, TypeOK
<1>4. /\ stacks' = [stacks EXCEPT ![Boot] = Append(stacks[Boot], f)]
      /\ mode' = "eoi" /\ thread' = Boot /\ bootpc' = bootpc
  BY <1>2 DEF timer_interrupt
<1>5. (currentTask + 1) % numTasks = 0
  BY <1>1
<1>6. /\ currentTask' = 0 /\ numTasks' = 1 /\ snapshots' = snapshots
      /\ rax' = [stack |-> Boot, depth |-> d, off |-> off]
  <2>1. 0 \in Task /\ snapshots[0] \in Record
    BY <1>1, NumberFacts DEF TypeOK
  <2> QED
    BY <1>1, <1>3, <1>5, <2>1 DEF schelude, TypeOK
<1>7. TableInv'
  BY <1>1, <1>4, <1>6 DEF Quiet, TableInv, Published
<1>8. /\ offset'[Boot] = off /\ Len(stacks'[Boot]) = d /\ stacks'[Boot] # << >>
      /\ stacks'[Boot][d] = f
      /\ \A k \in 1 .. d - 1 : stacks'[Boot][k] = stacks[Boot][k]
  <2>1. f \in Frame
    BY <1>1, FreshIsContext DEF TypeOK, FrameAt, Frame
  <2>2. stacks'[Boot] = Append(stacks[Boot], f) /\ offset'[Boot] = off
    BY <1>1, <1>3, <1>4, NumberFacts DEF TypeOK
  <2> HIDE DEF f
  <2> QED
    BY <1>1, <2>1, <2>2
<1>9. rax' = Top(Owner(currentTask))'
  BY <1>6, <1>8, OwnerFacts DEF Top
<1>9a. currentTask' = (SlotOf(thread') + 1) % numTasks'
  BY <1>4, <1>6 DEF SlotOf
<1>10. \A t \in Task : numTasks <= t => stacks'[t] = << >> /\ offset'[t] = "heap"
  <2> HIDE DEF f, d
  <2> QED
    BY <1>1, <1>3, <1>4, NumberFacts DEF Quiet, StackInv, TypeOK
<1>11. CASE mode = "run"
  <2>1. stacks[Boot] = << >> /\ d = 1
    BY <1>1, <1>2, <1>11 DEF Quiet, StackInv
  <2>2. stacks'[Boot][1].at = "run"
    BY <1>8, <1>11, <2>1 DEF FrameAt
  <2> HIDE DEF f, d
  <2>3. StackInv'
    BY <1>4, <1>6, <1>8, <1>9, <1>9a, <1>10, <2>1, <2>2 DEF StackInv
  <2> QED
    BY <1>7, <2>3
<1>12. CASE mode = "switch"
  <2>1. /\ stacks[Boot] # << >> /\ stacks[Boot][1].at = "run"
        /\ rax = Top(Boot)
        /\ \A k \in 2 .. Len(stacks[Boot]) :
             stacks[Boot][k] =
               FrameAt("switch", [stack |-> Boot, depth |-> k - 1, off |-> offset[Boot]])
    BY <1>1, <1>12, OwnerFacts DEF Quiet, StackInv
  <2>2. d >= 2 /\ off = offset[Boot]
    BY <1>1, <1>3, <2>1
  <2>3. f = FrameAt("switch", [stack |-> Boot, depth |-> d - 1, off |-> off])
    BY <1>1, <1>12, <2>1, <2>2 DEF Top
  <2>4. \A k \in 2 .. d :
          stacks'[Boot][k] = FrameAt("switch", [stack |-> Boot, depth |-> k - 1, off |-> off])
    <3> HIDE DEF f
    <3>1. \A k \in 2 .. d - 1 : k \in 2 .. Len(stacks[Boot]) /\ k \in 1 .. d - 1
      BY <1>1
    <3> HIDE DEF d
    <3>2. TAKE k \in 2 .. d
    <3>3. CASE k = d
      BY <1>8, <2>3, <3>3
    <3>4. CASE k # d
      <4>1. k \in 2 .. d - 1
        BY <1>1, <3>4
      <4> QED
        BY <1>8, <2>1, <2>2, <3>1, <4>1
    <3> QED
      BY <3>3, <3>4
  <2>5. stacks'[Boot][1].at = "run"
    <3> HIDE DEF f, d
    <3> QED  BY <1>1, <1>8, <2>1, <2>2
  <2> HIDE DEF f, d
  <2>6. StackInv'
    BY <1>4, <1>6, <1>8, <1>9, <1>9a, <1>10, <2>4, <2>5 DEF StackInv
  <2> QED
    BY <1>7, <2>6
<1> QED
  BY <1>1, <1>11, <1>12

\* What is loaded into rsp is a frame: the innermost one of the thread whose
\* slot is current.
LEMMA SwitchIsSafe ==
  ASSUME Quiet, mode = "switch"
  PROVE  /\ numTasks > 0
         /\ rax = Top(Owner(currentTask))
         /\ Owner(currentTask) \in Thread
         /\ Len(stacks[Owner(currentTask)]) >= 1
         /\ Intact(rax)
<1>1. TypeOK /\ numTasks > 0 /\ rax = Top(Owner(currentTask)) /\ numTasks \in Nat
  BY NumberFacts DEF Quiet, BootInv, StackInv
<1>2. /\ Owner(currentTask) \in Thread /\ currentTask \in Nat
      /\ stacks[Owner(currentTask)] \in Seq(Frame)
  BY <1>1, OwnerFacts, NumberFacts DEF TypeOK
<1>3. Len(stacks[Owner(currentTask)]) >= 1
  <2>1. CASE numTasks = 1
    <3>1. currentTask = 0
      BY <1>1, <2>1, NumberFacts DEF Quiet, TableInv, Published
    <3>2. stacks[Boot] # << >>
      BY <2>1 DEF Quiet, StackInv
    <3> QED
      BY <1>2, <3>1, <3>2, OwnerFacts
  <2>2. CASE numTasks > 1
    <3>1. currentTask \in 0 .. numTasks - 1
      BY <1>1, <2>2, NumberFacts DEF Quiet, TableInv, Published
    <3> QED
      BY <2>2, <3>1 DEF Quiet, StackInv, Waits
  <2> QED
    BY <1>1, <2>1, <2>2
<1>4. Intact(rax)
  BY <1>1, <1>2, <1>3 DEF Intact, Top
<1> QED
  BY <1>1, <1>2, <1>3, <1>4

LEMMA FrontOfStack ==
  ASSUME NEW S, NEW q \in Seq(S), NEW d \in 1 .. Len(q)
  PROVE  /\ Len(SubSeq(q, 1, d - 1)) = d - 1
         /\ \A k \in 1 .. d - 1 : SubSeq(q, 1, d - 1)[k] = q[k]
         /\ d = 1 => SubSeq(q, 1, d - 1) = << >>
<1>1. Len(q) \in Nat /\ d \in Nat /\ 1 \in 1 .. Len(q) + 1 /\ d - 1 \in 0 .. Len(q)
  OBVIOUS
<1>2. /\ Len(SubSeq(q, 1, d - 1)) = IF 1 <= d - 1 THEN (d - 1) - 1 + 1 ELSE 0
      /\ \A k \in 1 .. (d - 1) - 1 + 1 : SubSeq(q, 1, d - 1)[k] = q[1 + k - 1]
      /\ SubSeq(q, 1, d - 1) \in Seq(S)
  BY <1>1, SubSeqProperties
<1>3. (d - 1) - 1 + 1 = d - 1 /\ \A k \in 1 .. d - 1 : 1 + k - 1 = k
  BY <1>1
<1>4. Len(SubSeq(q, 1, d - 1)) = d - 1
  BY <1>1, <1>2
<1>5. \A k \in 1 .. d - 1 : SubSeq(q, 1, d - 1)[k] = q[k]
  BY <1>2, <1>3
<1>6. d = 1 => SubSeq(q, 1, d - 1) = << >>
  BY <1>2, <1>4
<1> QED
  BY <1>4, <1>5, <1>6

LEMMA RestoreStep ==
  ASSUME Quiet, restore_context
  PROVE  TableInv' /\ StackInv'
<1> DEFINE o == Owner(currentTask)
           d == Len(stacks[o])
<1>1. /\ mode = "switch" /\ numTasks > 0 /\ rax = Top(o) /\ o \in Thread
      /\ d \in Nat /\ d >= 1 /\ stacks[o] \in Seq(Frame) /\ TypeOK
  BY SwitchIsSafe, NumberFacts DEF restore_context, Quiet, TypeOK
<1>2. /\ thread' = o /\ mode' = stacks[o][d].at /\ rax' = stacks[o][d].to
      /\ stacks' = [stacks EXCEPT ![o] = SubSeq(stacks[o], 1, d - 1)]
      /\ snapshots' = snapshots /\ proc' = proc /\ numTasks' = numTasks
      /\ currentTask' = currentTask /\ offset' = offset /\ bootpc' = bootpc
  BY <1>1 DEF restore_context, Top, table
<1>3. /\ Len(SubSeq(stacks[o], 1, d - 1)) = d - 1
      /\ \A k \in 1 .. d - 1 : SubSeq(stacks[o], 1, d - 1)[k] = stacks[o][k]
      /\ d = 1 => SubSeq(stacks[o], 1, d - 1) = << >>
  <2>1. d \in 1 .. Len(stacks[o])
    BY <1>1
  <2> HIDE DEF d, o
  <2> QED
    BY <1>1, <2>1, FrontOfStack
<1>4. stacks'[o] = SubSeq(stacks[o], 1, d - 1)
      /\ \A t \in Thread : t # o => stacks'[t] = stacks[t]
  <2> HIDE DEF o, d
  <2> QED  BY <1>1, <1>2 DEF TypeOK
<1>5. TableInv'
  <2>1. /\ Published' = Published
    BY <1>2 DEF Published
  <2> QED
    BY <1>1, <1>2, <2>1 DEF Quiet, TableInv
<1>6. CASE numTasks = 1
  <2>1. currentTask = 0 /\ o = Boot
    BY <1>1, <1>6, NumberFacts, OwnerFacts DEF Quiet, TableInv, Published
  <2>2. /\ stacks[Boot][1].at = "run"
        /\ \A k \in 2 .. d :
             stacks[Boot][k] =
               FrameAt("switch", [stack |-> Boot, depth |-> k - 1, off |-> offset[Boot]])
    BY <1>1, <1>6, <2>1 DEF Quiet, StackInv
  <2>3. \A t \in Task : numTasks <= t => stacks'[t] = << >> /\ offset'[t] = "heap"
    BY <1>1, <1>2, <1>4, <2>1, NumberFacts DEF Quiet, StackInv
  <2>4. CASE d = 1
    <3>1. mode' = "run" /\ thread' = Boot /\ stacks'[Boot] = << >>
      BY <1>2, <1>3, <1>4, <2>1, <2>2, <2>4
    <3>2. StackInv'
      BY <1>2, <1>6, <2>1, <2>3, <3>1, OwnerFacts DEF StackInv
    <3> QED
      BY <1>5, <3>2
  <2>5. CASE d > 1
    <3>1. /\ mode' = "switch" /\ thread' = Boot
          /\ rax' = [stack |-> Boot, depth |-> d - 1, off |-> offset[Boot]]
      <4> HIDE DEF d, o
      <4>1. stacks[o][d] =
              FrameAt("switch", [stack |-> Boot, depth |-> d - 1, off |-> offset[Boot]])
        BY <1>1, <2>1, <2>2, <2>5
      <4> QED
        BY <1>2, <2>1, <4>1 DEF FrameAt
    <3>2. Len(stacks'[Boot]) = d - 1 /\ stacks'[Boot] # << >>
      BY <1>1, <1>3, <1>4, <2>1, <2>5
    <3>3. rax' = Top(Owner(currentTask))'
      BY <1>2, <2>1, <3>1, <3>2, OwnerFacts DEF Top
    <3>4. \A k \in 1 .. d - 1 : stacks'[Boot][k] = stacks[Boot][k]
      BY <1>3, <1>4, <2>1
    <3>5. stacks'[Boot][1].at = "run"
      BY <1>1, <2>2, <2>5, <3>4
    <3>6. \A k \in 2 .. Len(stacks'[Boot]) :
            stacks'[Boot][k] =
              FrameAt("switch", [stack |-> Boot, depth |-> k - 1, off |-> offset'[Boot]])
      BY <1>1, <1>2, <2>2, <3>2, <3>4
    <3>6a. currentTask' = (SlotOf(thread') + 1) % numTasks'
      BY <1>2, <1>6, <2>1, <3>1 DEF SlotOf
    <3>7. StackInv'
      BY <1>2, <1>6, <2>3, <3>1, <3>2, <3>3, <3>5, <3>6, <3>6a DEF StackInv
    <3> QED
      BY <1>5, <3>7
  <2> HIDE DEF d
  <2> QED
    BY <1>1, <2>4, <2>5
<1>7. CASE numTasks > 1
  <2>1. /\ currentTask \in 0 .. numTasks - 1
        /\ \A s \in 0 .. numTasks - 1 : Waits(s)
    BY <1>1, <1>7, NumberFacts DEF Quiet, TableInv, StackInv, Published
  <2>2. d = 1 /\ stacks[o][1].at \in {"run", "enter"}
    BY <2>1 DEF Waits
  <2>3. mode' \in {"run", "enter"} /\ stacks'[o] = << >>
    BY <1>2, <1>3, <1>4, <2>2
  <2>4. ASSUME NEW s \in 0 .. numTasks - 1, s # currentTask PROVE Waits(s)'
    <3>1. Owner(s) # o /\ Owner(s) \in Thread
      BY <1>1, <2>1, <2>4, NumberFacts, OwnerFacts
    <3>2. stacks'[Owner(s)] = stacks[Owner(s)]
      BY <1>4, <3>1
    <3> QED
      BY <1>2, <2>1, <3>2 DEF Waits, Top
  <2>5. \A t \in Task : numTasks <= t => stacks'[t] = << >> /\ offset'[t] = "heap"
    <3> TAKE t \in Task
    <3> HAVE numTasks <= t
    <3>1. t # o /\ t \in Thread
      BY <1>1, <2>1, NumberFacts, OwnerFacts DEF Owner
    <3> QED
      BY <1>2, <1>4, <3>1 DEF Quiet, StackInv
  <2>6. StackInv'
    <3> HIDE DEF d
    <3> QED  BY <1>2, <2>3, <2>4, <2>5 DEF StackInv
  <2> QED
    BY <1>5, <2>6
<1> QED
  BY <1>1, <1>6, <1>7, NumberFacts

LEMMA InvInit == Init => Inv
<1> SUFFICES ASSUME Init PROVE Inv
  OBVIOUS
<1>1. TypeOK /\ BootInv
  BY TypeInit
<1>2. TableInv
  BY SchedulerAssumption DEF Init, TableInv, Published, Task
<1>3. StackInv
  <2>1. 0 \in Task /\ Boot \in Thread /\ Task \subseteq Thread
    BY SchedulerAssumption DEF Task, Thread
  <2> QED
    BY <2>1, OwnerFacts DEF Init, StackInv
<1> QED
  BY <1>1, <1>2, <1>3 DEF Init, Inv

LEMMA InvStep == Inv /\ [Next]_vars => Inv'
<1> SUFFICES ASSUME Inv, [Next]_vars PROVE Inv'
  OBVIOUS
<1>1. TypeOK' /\ BootInv'
  BY TypeStep DEF Inv
<1>2. SUFFICES ASSUME hit' = {} PROVE ~lost' /\ TableInv' /\ StackInv'
  BY <1>1 DEF Inv
<1>3. hit = {}
  BY <1>2 DEF Next, BootStep, Handler, init_scheluder, init_scheluder_wild,
              create_process, publish, reset_current, idt_activate, tick,
              timer_interrupt, timer_interrupt_on_entry, end_of_interrupt,
              restore_context, restore_garbage, enter_task, vars
<1>4. Quiet
  BY <1>3 DEF Inv, Quiet
<1>5. CASE init_scheluder
  BY <1>4, <1>5, InitStep DEF Quiet, init_scheluder
<1>6. CASE create_process
  BY <1>4, <1>6, CreateStep DEF Quiet, create_process
<1>7. CASE publish
  BY <1>4, <1>7, PublishStep DEF Quiet, publish
<1>8. CASE reset_current
  BY <1>4, <1>8, ResetStep DEF Quiet, reset_current
<1>9. CASE idt_activate
  BY <1>4, <1>9, UnchangedStep DEF Quiet, idt_activate, BootRuns, table
<1>10. CASE init_scheluder_wild
  BY <1>2, <1>10 DEF init_scheluder_wild
<1>11. CASE tick
  BY <1>4, <1>11, UnchangedStep DEF Quiet, tick, table, cpu
<1>12. CASE timer_interrupt
  <2>1. WindowsHit = {} /\ lost' = lost
    BY <1>2, <1>12 DEF timer_interrupt
  <2>2. numTasks > 0 /\ numTasks \in Nat
    BY <1>4, <1>12, NumberFacts DEF timer_interrupt, Accepts, Quiet, BootInv
  <2>3. CASE numTasks = 1
    BY <1>4, <1>12, <2>1, <2>3, TickStepOne DEF Quiet
  <2>4. CASE numTasks > 1
    BY <1>4, <1>12, <2>1, <2>4, TickStepMany DEF Quiet
  <2> QED
    BY <2>2, <2>3, <2>4
<1>13. CASE timer_interrupt_on_entry
  BY <1>2, <1>13 DEF timer_interrupt_on_entry
<1>14. CASE end_of_interrupt
  BY <1>4, <1>14, UnchangedStep DEF Quiet, end_of_interrupt, table
<1>15. CASE restore_context
  BY <1>4, <1>15, RestoreStep DEF Quiet, restore_context
<1>16. CASE restore_garbage
  BY <1>4, <1>16, SwitchIsSafe DEF restore_garbage
<1>17. CASE enter_task
  BY <1>4, <1>17, UnchangedStep DEF Quiet, enter_task, table
<1>18. CASE UNCHANGED vars
  BY <1>4, <1>18, UnchangedStep DEF Quiet, vars, table, cpu
<1> QED
  BY <1>5, <1>6, <1>7, <1>8, <1>9, <1>10, <1>11, <1>12, <1>13, <1>14, <1>15,
     <1>16, <1>17, <1>18 DEF Next, BootStep, Handler

LEMMA Invariance == Spec => []Inv
BY InvInit, InvStep, PTL DEF Spec

\* As long as no tick hits a window, only frames are loaded into rsp, and the
\* current slot is the one of the thread on the processor.
THEOREM Soundness == Spec => []SoundOutsideWindows
<1>1. Inv => SoundOutsideWindows
  BY DEF Inv, SoundOutsideWindows, StackInv
<1> QED
  BY <1>1, Invariance, PTL

\* ... and every waiting task can be dispatched.
THEOREM Waiting == Spec => []WaitingTasksAreSaved
<1>1. ASSUME Inv PROVE WaitingTasksAreSaved
  <2>1. SUFFICES ASSUME hit = {}, mode \in {"run", "enter"},
                        NEW s \in 0 .. numTasks - 1, s # currentTask,
                        snapshots[s] # NULL
                 PROVE  /\ proc[snapshots[s]].stack = Owner(s)
                        /\ Intact(proc[snapshots[s]])
    BY DEF WaitingTasksAreSaved
  <2>2. TypeOK /\ s \in Task /\ Waits(s)
    BY <1>1, <2>1, NumberFacts DEF Inv, StackInv
  <2>3. snapshots[s] = s
    BY <1>1, <2>1, <2>2 DEF Inv, TableInv
  <2> QED
    BY <2>2, <2>3 DEF Waits, Top, Intact
<1> QED
  BY <1>1, Invariance, PTL

----------------------------------------------------------------------------
(***************************************************************************)
(* As long as no window is hit, the tasks are a ring.                      *)
(***************************************************************************)
LEMMA RingStep ==
  Inv /\ [Next]_vars => (hit' = {} => [Ring!Next]_(Ring!ringVars))
<1> SUFFICES ASSUME Inv, [Next]_vars, hit' = {}
             PROVE  Ring!Next \/ UNCHANGED Ring!ringVars
  OBVIOUS
<1>0. hit = {}   \* no step takes a window back
  BY DEF Next, BootStep, Handler, create_process, init_scheluder,
         init_scheluder_wild, publish, reset_current,
         idt_activate, tick, timer_interrupt, timer_interrupt_on_entry,
         end_of_interrupt, restore_context, restore_garbage, enter_task, vars
<1>1. Quiet
  BY <1>0 DEF Inv, Quiet, TypeOK
<1>2. CASE create_process
  BY <1>2 DEF create_process, Ring!Next, Ring!Join
<1>3. CASE init_scheluder
  <2>1. numTasks = 0
    BY <1>1, <1>3, NumberFacts DEF Quiet, BootInv, init_scheluder, BootRuns
  <2> QED
    BY <1>3, <2>1 DEF init_scheluder, cpu, Ring!ringVars
<1>4. CASE restore_context
  <2>1. /\ numTasks > 0 /\ rax = Top(Owner(currentTask)) /\ mode = "switch"
        /\ currentTask \in Nat
    BY <1>1, <1>4, SwitchIsSafe, NumberFacts DEF restore_context, Quiet
  <2>2. thread' = Owner(currentTask) /\ numTasks' = numTasks
    BY <1>4, <2>1 DEF restore_context, Top, table
  <2>3. SlotOf(thread') = currentTask
    BY <2>1, <2>2 DEF SlotOf, Owner, Boot
  <2>4. currentTask = (SlotOf(thread) + 1) % numTasks
    BY <1>1, <2>1 DEF Quiet, StackInv
  <2> QED
    BY <2>1, <2>2, <2>3, <2>4 DEF Ring!Next, Ring!Pass
<1>5. CASE UNCHANGED <<numTasks, thread>>
  BY <1>5 DEF Ring!ringVars
<1> QED
  BY <1>2, <1>3, <1>4, <1>5
     DEF Next, BootStep, Handler, init_scheluder_wild, publish, reset_current,
         idt_activate, tick, timer_interrupt, timer_interrupt_on_entry,
         end_of_interrupt, restore_garbage, enter_task, vars, table, cpu, schelude

\* Each switch of stacks passes the processor to the next slot of the ring.
THEOREM RingImplementation == Spec => ImplementsRing
<1>1. Init => Ring!Init
  BY DEF Init, Ring!Init, SlotOf
<1>2. Inv /\ [Next]_vars => (hit' = {} => [Ring!Next]_(Ring!ringVars))
  BY RingStep
<1> QED
  BY <1>1, <1>2, Invariance, PTL DEF Spec, ImplementsRing
=============================================================================
