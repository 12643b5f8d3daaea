--------------------------- MODULE SchedulerProofs ---------------------------
(***************************************************************************)
(* Proofs about Scheduler for every number of processes and every layout   *)
(* of the stacks that keeps them apart.                                    *)
(***************************************************************************)
EXTENDS Scheduler, TLAPS

\* The inductive invariant: the three properties need each other, the types,
\* and the fact that no process runs before all of them are in the ring.
IInv ==
  /\ TypeOK
  /\ RingShape
  /\ SuspendedStacksSound
  /\ StackLowIsCurrents
  /\ current # Nil \/ timer_on => spawned = PROCESS_COUNT

\* An address lies in at most one process stack, so os_process_stack_low_for
\* returns the base of the stack it lies in.
LEMMA StackLowFor ==
  ASSUME NEW i \in Procs, NEW a \in Int, InStack(i, a)
  PROVE  os_process_stack_low_for(a) = stack_usable_base[i]
<1>1. stack_usable_base \in [Procs -> Nat] /\ STACK_SIZE \in Nat
  BY SchedulerAssumption
<1>2. ASSUME NEW j \in Procs, InStack(j, a) PROVE j = i
  <2>1. stack_usable_base[i] \in Int /\ stack_usable_base[j] \in Int
    BY <1>1
  <2>2. i \in Int /\ j \in Int
    BY SchedulerAssumption DEF Procs
  <2>3. CASE i < j
    <3>1. stack_usable_base[i] + STACK_SIZE < stack_usable_base[j]
      BY <2>3, SchedulerAssumption
    <3> QED BY <1>1, <1>2, <2>1, <3>1 DEF InStack
  <2>4. CASE j < i
    <3>1. stack_usable_base[j] + STACK_SIZE < stack_usable_base[i]
      BY <2>4, SchedulerAssumption
    <3> QED BY <1>1, <1>2, <2>1, <3>1 DEF InStack
  <2> QED BY <2>2, <2>3, <2>4
<1>3. (CHOOSE k \in Procs : InStack(k, a)) = i
  BY <1>2
<1> QED BY <1>3 DEF os_process_stack_low_for

\* The invariant holds when nothing is spawned yet.
LEMMA InitInv == Init => IInv
<1> SUFFICES ASSUME Init PROVE IInv
  OBVIOUS
<1>1. TypeOK
  <2>1. 0 \in 0..PROCESS_COUNT /\ KernelStack \in Int /\ 0 \in Int
    BY SchedulerAssumption DEF KernelStack
  <2>2. saved_rsp \in [Procs -> Int] /\ cdr \in [Procs -> Procs \cup {Nil}]
        /\ canary \in [Procs -> BOOLEAN]
    BY DEF Init
  <2> QED BY <2>1, <2>2 DEF Init, TypeOK
<1>2. RingShape
  <2>1. ASSUME NEW i \in Procs PROVE i >= spawned /\ cdr[i] = Nil
    BY SchedulerAssumption DEF Init, Procs
  <2> QED BY <2>1 DEF Init, RingShape
<1>3. SuspendedStacksSound
  <2>1. ASSUME NEW i \in Procs PROVE ~(i < spawned)
    BY SchedulerAssumption DEF Init, Procs
  <2> QED BY <2>1 DEF Init, SuspendedStacksSound
<1> QED BY <1>1, <1>2, <1>3 DEF Init, IInv, StackLowIsCurrents

\* Spawning, the start, running and every switch keep it.
LEMMA StepInv == IInv /\ [Next]_vars => IInv'
<1> SUFFICES ASSUME IInv, [Next]_vars PROVE IInv'
  OBVIOUS
<1> USE SchedulerAssumption
<1>t. TypeOK /\ RingShape /\ SuspendedStacksSound /\ StackLowIsCurrents
      /\ (current # Nil \/ timer_on => spawned = PROCESS_COUNT)
  BY DEF IInv
<1>n. /\ PROCESS_COUNT \in Nat /\ PROCESS_COUNT > 0 /\ Procs \subseteq Int /\ Nil \notin Procs
      /\ 0 \in Procs
  BY DEF Procs, Nil
<1>1. CASE spawn
  <2>1. spawned \in Procs /\ current = Nil /\ ~timer_on
    BY <1>1, <1>t, <1>n DEF spawn, TypeOK, Procs
  <2>2. TypeOK'
    <3>1. saved_rsp'[spawned] \in Int /\ saved_rsp' \in [Procs -> Int]
      BY <1>1, <1>t, <2>1 DEF spawn, TypeOK
    <3>2. cdr' \in [Procs -> Procs \cup {Nil}] /\ run_queue' \in Procs \cup {Nil}
      BY <1>1, <1>t, <2>1, <1>n DEF spawn, TypeOK, RingShape
    <3> QED BY <1>1, <1>t, <2>1, <1>n, <3>1, <3>2 DEF spawn, TypeOK, Procs
  <2>3. RingShape'
    <3>1. CASE spawned = 0
      BY <1>1, <1>t, <2>1, <1>n, <3>1 DEF spawn, TypeOK, RingShape, Procs, Nil
    <3>2. CASE spawned # 0
      <4>1. run_queue = 0 /\ cdr[0] = spawned - 1
        BY <1>t, <1>n, <2>1, <3>2 DEF RingShape, Procs
      <4>2. cdr' = [cdr EXCEPT ![spawned] = spawned - 1, ![0] = spawned] /\ run_queue' = 0
        BY <1>1, <4>1, <1>n DEF spawn
      <4>3. ASSUME NEW i \in Procs
            PROVE  cdr'[i] = IF i >= spawned' THEN Nil
                             ELSE IF i = 0 THEN spawned' - 1 ELSE i - 1
        <5>1. spawned' = spawned + 1 /\ spawned \in Int /\ i \in Int /\ 0 <= i /\ 0 < spawned
          BY <1>1, <1>n, <2>1, <3>2 DEF spawn, Procs
        <5>2. DOMAIN cdr = Procs
          BY <1>t DEF TypeOK
        <5>3. CASE i = 0
          BY <4>2, <5>1, <5>2, <5>3, <2>1
        <5>4. CASE i = spawned
          BY <4>2, <5>1, <5>2, <5>4, <2>1
        <5>5. CASE i # 0 /\ i # spawned
          <6>1. cdr'[i] = cdr[i]
            BY <4>2, <5>2, <5>5
          <6>2. cdr[i] = IF i >= spawned THEN Nil ELSE i - 1
            BY <1>t, <5>5 DEF RingShape
          <6> QED BY <5>1, <5>5, <6>1, <6>2
        <5> QED BY <5>3, <5>4, <5>5
      <4>4. spawned' # 0
        BY <1>1, <1>n, <2>1 DEF spawn, Procs
      <4> QED BY <4>2, <4>3, <4>4 DEF RingShape
    <3> QED BY <3>1, <3>2
  <2>4. SuspendedStacksSound'
    <3> SUFFICES ASSUME NEW i \in Procs, i < spawned'
                 PROVE  /\ InStack(i, saved_rsp'[i])
                        /\ saved_rsp'[i] >= stack_usable_base[i] + STACK_GUARD_MARGIN
      BY <1>1, <2>1 DEF spawn, SuspendedStacksSound, InStack
    <3>1. stack_usable_base[i] \in Nat
      OBVIOUS
    <3>2. CASE i = spawned
      <4>1. saved_rsp'[i] = stack_usable_base[i] + STACK_SIZE - FRAME
        BY <1>1, <1>t, <2>1, <3>2 DEF spawn, TypeOK
      <4> QED BY <3>1, <4>1 DEF InStack
    <3>3. CASE i # spawned
      <4>1. saved_rsp'[i] = saved_rsp[i] /\ i < spawned
        BY <1>1, <1>t, <2>1, <3>3, <1>n DEF spawn, TypeOK
      <4> QED BY <1>t, <2>1, <4>1, <1>n DEF SuspendedStacksSound
    <3> QED BY <3>2, <3>3
  <2> QED BY <1>1, <2>1, <2>2, <2>3, <2>4 DEF spawn, IInv, StackLowIsCurrents
<1>2. CASE enable_timer_irq
  BY <1>2, <1>t DEF enable_timer_irq, IInv, TypeOK, RingShape, SuspendedStacksSound,
     StackLowIsCurrents, InStack
<1>3. CASE Push
  <2>1. current \in Procs /\ rsp \in Int /\ stack_usable_base[current] \in Nat
    BY <1>3, <1>t DEF Push, TypeOK
  <2>2. InStack(current, rsp)
    BY <1>3, <1>t DEF Push, SuspendedStacksSound
  <2>3. ~stopped' => InStack(current, rsp - 1)
    <3>1. ~stopped' => ~(rsp - 1 < stack_usable_base[current])
      BY <1>3, Zenon DEF Push
    <3> QED BY <2>1, <2>2, <3>1 DEF InStack
  <2>4. TypeOK'
    BY <1>3, <1>t, <2>1 DEF Push, TypeOK
  <2>5. SuspendedStacksSound'
    BY <1>3, <1>t, <2>3 DEF Push, SuspendedStacksSound, InStack
  <2> QED BY <1>3, <1>t, <2>4, <2>5 DEF Push, IInv, RingShape, StackLowIsCurrents
<1>4. CASE Pop
  <2>1. current \in Procs /\ rsp \in Int /\ stack_usable_base[current] \in Nat
    BY <1>4, <1>t DEF Pop, TypeOK
  <2>2. InStack(current, rsp + 1)
    BY <1>4, <1>t, <2>1 DEF Pop, SuspendedStacksSound, InStack
  <2>3. TypeOK'
    BY <1>4, <1>t, <2>1 DEF Pop, TypeOK
  <2>4. SuspendedStacksSound'
    BY <1>4, <1>t, <2>2 DEF Pop, SuspendedStacksSound, InStack
  <2> QED BY <1>4, <1>t, <2>3, <2>4 DEF Pop, IInv, RingShape, StackLowIsCurrents
<1>5. CASE c_timer_switch
  <2> DEFINE nx == IF current = Nil THEN run_queue ELSE cdr[current]
             sv == IF current = Nil THEN saved_rsp ELSE [saved_rsp EXCEPT ![current] = rsp]
  <2>1. /\ spawned = PROCESS_COUNT /\ ~stopped /\ os_process_stack_check(rsp)
        /\ saved_rsp' = sv /\ current' = nx /\ rsp' = sv[nx]
        /\ stack_low' = os_process_stack_low_for(sv[nx])
        /\ UNCHANGED <<spawned, cdr, run_queue, canary, timer_on, stopped>>
    BY <1>5, <1>t DEF c_timer_switch
  <2>2. nx \in Procs
    <3>1. CASE current = Nil
      BY <1>t, <1>n, <2>1, <3>1 DEF RingShape
    <3>2. CASE current # Nil
      <4>1. current \in Procs /\ current < spawned /\ current >= 0 /\ current \in Int
        BY <1>t, <1>n, <2>1, <3>2 DEF TypeOK, Procs
      <4>2. nx = IF current = 0 THEN spawned - 1 ELSE current - 1
        BY <1>t, <3>2, <4>1, <1>n, <2>1 DEF RingShape
      <4> QED BY <1>n, <2>1, <4>1, <4>2 DEF Procs
    <3> QED BY <3>1, <3>2
  <2>3. sv \in [Procs -> Int]
    BY <1>t DEF TypeOK
  <2>4. ASSUME NEW i \in Procs
        PROVE  InStack(i, sv[i]) /\ sv[i] >= stack_usable_base[i] + STACK_GUARD_MARGIN
    <3>1. CASE i = current
      <4>1. sv[i] = rsp /\ InStack(i, rsp)
        BY <1>t, <1>n, <2>1, <3>1 DEF TypeOK, SuspendedStacksSound
      <4> QED BY <2>1, <4>1 DEF os_process_stack_check
    <3>2. CASE i # current
      <4>1. sv[i] = saved_rsp[i] /\ i < spawned
        BY <1>t, <1>n, <2>1, <3>2 DEF TypeOK, Procs
      <4> QED BY <1>t, <3>2, <4>1 DEF SuspendedStacksSound
    <3> QED BY <3>1, <3>2
  <2> HIDE DEF nx, sv
  <2>5. stack_low' = stack_usable_base[nx]
    BY <2>1, <2>2, <2>3, <2>4, StackLowFor
  <2>6. TypeOK'
    BY <1>t, <2>1, <2>2, <2>3, <2>5 DEF TypeOK
  <2>7. SuspendedStacksSound' /\ StackLowIsCurrents'
    BY <2>1, <2>2, <2>4, <2>5 DEF SuspendedStacksSound, StackLowIsCurrents, InStack
  <2> QED BY <1>t, <2>1, <2>6, <2>7 DEF IInv, RingShape
<1>6. CASE os_panic_stack_overflow
  BY <1>6, <1>t DEF os_panic_stack_overflow, IInv, TypeOK, RingShape, SuspendedStacksSound,
     StackLowIsCurrents, InStack
<1>7. CASE UNCHANGED vars
  BY <1>7, <1>t DEF vars, IInv, TypeOK, RingShape, SuspendedStacksSound,
     StackLowIsCurrents, InStack
<1> QED BY <1>1, <1>2, <1>3, <1>4, <1>5, <1>6, <1>7 DEF Next

\* The run queue is one ring through all processes, whatever their number
\* (spawn): the successor map is the rotation that takes every process to the
\* one spawned before it.
THEOREM RingIsRotation == Spec => []RingShape
  BY InitInv, StepInv, PTL DEF Spec, IInv

\* No process is ever resumed on another one's stack or on a stack that has
\* reached its margin (c_timer_switch, os_process_stack_check).
THEOREM StacksSound == Spec => []SuspendedStacksSound
  BY InitInv, StepInv, PTL DEF Spec, IInv

\* The limit with which compiled code checks its stack (g_za_stack_low) is that
\* of the process that runs, across every switch.
THEOREM LimitIsCurrents == Spec => []StackLowIsCurrents
  BY InitInv, StepInv, PTL DEF Spec, IInv

=============================================================================
