------------------------------ MODULE Scheduler ------------------------------
(***************************************************************************)
(* Processes and their preemptive switching: spawn and                     *)
(* process_scheduler_start (src/c/process.c) build the circular            *)
(* *RUN-QUEUE* and a stack per process; c_timer_switch (src/c/interrupt.c) *)
(* saves the interrupted stack pointer in the PCB of *CURRENT-PROCESS* and *)
(* resumes the next one in the ring, after checking the stacks.            *)
(*                                                                         *)
(* The cell of *RUN-QUEUE* that holds the PCB of process i is named i.     *)
(* Stack addresses are integers, one word per unit; the idle loop of the   *)
(* kernel runs on a stack outside the area (KernelStack).  The handlers    *)
(* run with interrupts off and are one step each.                          *)
(***************************************************************************)
EXTENDS Integers

CONSTANTS
  PROCESS_COUNT,
  stack_usable_base,    \* i -> lowest address of the stack of process i
  STACK_SIZE,           \* words of a stack
  STACK_GUARD_MARGIN,   \* words above the base that must stay free
  FRAME                 \* words of the register frame spawn builds

Procs == 0..(PROCESS_COUNT - 1)
Nil == -1
KernelStack == -1

ASSUME SchedulerAssumption ==
  /\ PROCESS_COUNT \in Nat \ {0}
  /\ stack_usable_base \in [Procs -> Nat]
  /\ STACK_SIZE \in Nat /\ STACK_GUARD_MARGIN \in Nat \ {0} /\ FRAME \in Nat
  /\ STACK_GUARD_MARGIN + FRAME <= STACK_SIZE
  /\ \A i, j \in Procs : i < j => stack_usable_base[i] + STACK_SIZE < stack_usable_base[j]

VARIABLES
  spawned,     \* processes spawned so far
  cdr,         \* cell -> next cell of the ring
  run_queue,   \* *RUN-QUEUE*
  current,     \* *CURRENT-PROCESS*: a cell or Nil
  saved_rsp,   \* word 2 of the PCBs
  rsp,         \* the processor's stack pointer
  canary,      \* i -> is the canary of stack i intact?
  stack_low,   \* the base os_za_set_stack_low was given
  timer_on,    \* IRQ0 unmasked
  stopped      \* panic, or a fault on a guard page

vars == <<spawned, cdr, run_queue, current, saved_rsp, rsp, canary, stack_low, timer_on, stopped>>

(***************************************************************************)
(* The stacks.                                                             *)
(***************************************************************************)
InStack(i, a) == stack_usable_base[i] <= a /\ a <= stack_usable_base[i] + STACK_SIZE

\* os_process_stack_low_for: 0 when the address is in no process stack.
os_process_stack_low_for(a) ==
  IF \E i \in Procs : InStack(i, a)
  THEN stack_usable_base[CHOOSE i \in Procs : InStack(i, a)]
  ELSE 0

\* Mutant: only the canaries are looked at.
StackCheckCanaryOnly(a) == \A i \in Procs : canary[i]

\* os_process_stack_check
os_process_stack_check(a) ==
  /\ \A i \in Procs : canary[i]
  /\ \A i \in Procs : InStack(i, a) => a >= stack_usable_base[i] + STACK_GUARD_MARGIN

-----------------------------------------------------------------------------
\* Before spawn, PCBs and cells do not exist; canaries are written by spawn,
\* and until the timer is on nothing looks at them.
Init ==
  /\ spawned = 0
  /\ cdr = [i \in Procs |-> Nil]
  /\ run_queue = Nil /\ current = Nil
  /\ saved_rsp = [i \in Procs |-> 0]
  /\ rsp = KernelStack
  /\ canary = [i \in Procs |-> FALSE]
  /\ stack_low = 0
  /\ timer_on = FALSE /\ stopped = FALSE

\* Mutant: the new cell is linked to the anchor, not to the anchor's successor.
SpawnShortRing ==
  /\ ~timer_on /\ spawned < PROCESS_COUNT
  /\ spawned' = spawned + 1
  /\ canary' = [canary EXCEPT ![spawned] = TRUE]
  /\ saved_rsp' = [saved_rsp EXCEPT ![spawned] = stack_usable_base[spawned] + STACK_SIZE - FRAME]
  /\ IF run_queue = Nil
     THEN cdr' = [cdr EXCEPT ![spawned] = spawned] /\ run_queue' = spawned
     ELSE cdr' = [cdr EXCEPT ![spawned] = run_queue, ![run_queue] = spawned]
          /\ UNCHANGED run_queue
  /\ UNCHANGED <<current, rsp, stack_low, timer_on, stopped>>

\* spawn(i) for i = 0, 1, ...: the first cell refers to itself, later ones
\* are inserted after the anchor.
spawn ==
  /\ ~timer_on /\ spawned < PROCESS_COUNT
  /\ spawned' = spawned + 1
  /\ canary' = [canary EXCEPT ![spawned] = TRUE]
  /\ saved_rsp' = [saved_rsp EXCEPT ![spawned] = stack_usable_base[spawned] + STACK_SIZE - FRAME]
  /\ IF run_queue = Nil
     THEN cdr' = [cdr EXCEPT ![spawned] = spawned] /\ run_queue' = spawned
     ELSE cdr' = [cdr EXCEPT ![spawned] = cdr[run_queue], ![run_queue] = spawned]
          /\ UNCHANGED run_queue
  /\ UNCHANGED <<current, rsp, stack_low, timer_on, stopped>>

\* process_scheduler_start: enable_timer_irq, then the idle loop.
enable_timer_irq ==
  /\ ~timer_on /\ spawned = PROCESS_COUNT
  /\ timer_on' = TRUE
  /\ UNCHANGED <<spawned, cdr, run_queue, current, saved_rsp, rsp, canary, stack_low, stopped>>

\* The running process pushes a word: on the canary, it destroys it; below
\* the base, it faults on the guard page and the machine stops.
Push ==
  /\ ~stopped /\ current # Nil
  /\ rsp' = rsp - 1
  /\ canary' = IF rsp - 1 = stack_usable_base[current]
               THEN [canary EXCEPT ![current] = FALSE] ELSE canary
  /\ stopped' = (rsp - 1 < stack_usable_base[current])
  /\ UNCHANGED <<spawned, cdr, run_queue, current, saved_rsp, stack_low, timer_on>>

Pop ==
  /\ ~stopped /\ current # Nil
  /\ rsp < stack_usable_base[current] + STACK_SIZE
  /\ rsp' = rsp + 1
  /\ UNCHANGED <<spawned, cdr, run_queue, current, saved_rsp, canary, stack_low, timer_on, stopped>>

\* Mutant: the JIT threshold keeps the base of the process that was interrupted.
TimerSwitchStaleLow ==
  /\ timer_on /\ ~stopped
  /\ os_process_stack_check(rsp)
  /\ LET next == IF current = Nil THEN run_queue ELSE cdr[current]
         saved == IF current = Nil THEN saved_rsp ELSE [saved_rsp EXCEPT ![current] = rsp]
     IN  /\ saved_rsp' = saved
         /\ current' = next
         /\ rsp' = saved[next]
         /\ stack_low' = os_process_stack_low_for(rsp)
  /\ UNCHANGED <<spawned, cdr, run_queue, canary, timer_on, stopped>>

\* Mutant: the first process is resumed for ever.
TimerSwitchNotAdvancing ==
  /\ timer_on /\ ~stopped
  /\ os_process_stack_check(rsp)
  /\ LET next == run_queue
         saved == IF current = Nil THEN saved_rsp ELSE [saved_rsp EXCEPT ![current] = rsp]
     IN  /\ saved_rsp' = saved
         /\ current' = next
         /\ rsp' = saved[next]
         /\ stack_low' = os_process_stack_low_for(saved[next])
  /\ UNCHANGED <<spawned, cdr, run_queue, canary, timer_on, stopped>>

\* c_timer_switch when the stacks are in order.
c_timer_switch ==
  /\ timer_on /\ ~stopped
  /\ os_process_stack_check(rsp)
  /\ LET next == IF current = Nil THEN run_queue ELSE cdr[current]
         saved == IF current = Nil THEN saved_rsp ELSE [saved_rsp EXCEPT ![current] = rsp]
     IN  /\ saved_rsp' = saved
         /\ current' = next
         /\ rsp' = saved[next]
         /\ stack_low' = os_process_stack_low_for(saved[next])
  /\ UNCHANGED <<spawned, cdr, run_queue, canary, timer_on, stopped>>

\* c_timer_switch when they are not: os_panic_stack_overflow.
os_panic_stack_overflow ==
  /\ timer_on /\ ~stopped
  /\ ~os_process_stack_check(rsp)
  /\ stopped' = TRUE
  /\ UNCHANGED <<spawned, cdr, run_queue, current, saved_rsp, rsp, canary, stack_low, timer_on>>

Next ==
  \/ spawn \/ enable_timer_irq
  \/ Push \/ Pop
  \/ c_timer_switch \/ os_panic_stack_overflow

\* The PIT keeps interrupting (100 Hz), and boot goes on.
Spec ==
  /\ Init /\ [][Next]_vars
  /\ WF_vars(spawn \/ enable_timer_irq)
  /\ WF_vars(c_timer_switch \/ os_panic_stack_overflow)

-----------------------------------------------------------------------------
\* Type invariant.
TypeOK ==
  /\ spawned \in 0..PROCESS_COUNT
  /\ cdr \in [Procs -> Procs \cup {Nil}]
  /\ run_queue \in Procs \cup {Nil} /\ current \in Procs \cup {Nil}
  /\ saved_rsp \in [Procs -> Int] /\ rsp \in Int
  /\ canary \in [Procs -> BOOLEAN] /\ stack_low \in Int
  /\ timer_on \in BOOLEAN /\ stopped \in BOOLEAN

\* The ring spawn builds: 0 is followed by the last process spawned and every
\* other process by the one spawned before it.
RingShape ==
  /\ run_queue = IF spawned = 0 THEN Nil ELSE 0
  /\ \A i \in Procs :
       cdr[i] = IF i >= spawned THEN Nil
                ELSE IF i = 0 THEN spawned - 1 ELSE i - 1

\* A process runs on its own stack and will be resumed on its own stack,
\* above the margin: a stack that overflowed into the margin is never
\* switched away from (c_timer_switch, os_process_stack_check).
SuspendedStacksSound ==
  /\ current # Nil /\ ~stopped => InStack(current, rsp)
  /\ \A i \in Procs : i < spawned /\ i # current =>
       /\ InStack(i, saved_rsp[i])
       /\ saved_rsp[i] >= stack_usable_base[i] + STACK_GUARD_MARGIN

\* The threshold of the JIT's stack check belongs to the process that runs
\* (os_za_set_stack_low in c_timer_switch, issue #110).
StackLowIsCurrents ==
  current # Nil => stack_low = stack_usable_base[current]

\* Every process is scheduled again and again, unless the machine stops.
EveryProcessRuns == \A i \in Procs : []<>(current = i \/ stopped)

=============================================================================
