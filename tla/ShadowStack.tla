----------------------------- MODULE ShadowStack -----------------------------
(***************************************************************************)
(* The shadow stack: the lists of gc_rootnode records through which        *)
(* GC_PROTECT makes C locals known to the collector (src/c/runtime.h), the *)
(* scheduler's preemption and the display focus.                           *)
(*                                                                         *)
(* A node lives in the C frame of the function that protects a variable:   *)
(* it is named <<p, d>>, process p and depth d of p's C stack, and the     *)
(* same memory serves the next function called at that depth.  GC_PROTECT  *)
(* and its cleanup go through get_current_process(), which returns the     *)
(* process shown on the screen (g_current_process_index), not the one that *)
(* runs.  Every process evaluates, the running one changes at any step     *)
(* (c_timer_switch) and the focus moves at any F-key                       *)
(* (switch_active_process).                                                *)
(*                                                                         *)
(* The lists of this design can break, and two variables say where: the    *)
(* audit of the cleanup, which is the code's own, and the history variable *)
(* lost.  The properties say that nothing else breaks them.                *)
(***************************************************************************)
EXTENDS Integers, FiniteSets

CONSTANTS
  Procs,      \* indices of g_processes
  MaxDepth    \* bound: nested GC_PROTECTs of a process

ASSUME ShadowStackAssumption ==
  IsFiniteSet(Procs) /\ 0 \in Procs /\ MaxDepth \in Nat \ {0}

None == <<>>                       \* the null pointer
Nodes == Procs \X (1..MaxDepth)

VARIABLES
  focus,     \* g_current_process_index
  gc_roots,  \* process -> first node of its list, or None
  next,      \* node -> the node after it
  depth,     \* process -> number of protected variables in scope
  loaded,    \* process -> is it between the two halves of GC_PROTECT?
  audited,   \* has the audit of the cleanup counted (g_gc_lifo_violations > 0)?
  lost       \* history: has a node been linked to what was no longer the head?

vars == <<focus, gc_roots, next, depth, loaded, audited, lost>>

Init ==
  /\ focus = 0
  /\ gc_roots = [q \in Procs |-> None]
  /\ next = [n \in Nodes |-> None]
  /\ depth = [p \in Procs |-> 0]
  /\ loaded = [p \in Procs |-> FALSE]
  /\ audited = FALSE
  /\ lost = FALSE

Top(p) == <<p, depth[p]>>         \* the innermost protected variable of p
Fresh(p) == <<p, depth[p] + 1>>   \* the node of the next one

\* Mutant: the node is linked before it is initialised, so it is its own successor.
ProtectLinksFirst(p) ==
  /\ ~loaded[p] /\ depth[p] < MaxDepth
  /\ gc_roots' = [gc_roots EXCEPT ![focus] = Fresh(p)]
  /\ next' = [next EXCEPT ![Fresh(p)] = Fresh(p)]
  /\ loaded' = [loaded EXCEPT ![p] = TRUE]
  /\ UNCHANGED <<focus, depth, audited, lost>>

\* GC_PROTECT, first half: the node is initialised with the head of the
\* focused process's list.
ProtectInit(p) ==
  /\ ~loaded[p] /\ depth[p] < MaxDepth
  /\ next' = [next EXCEPT ![Fresh(p)] = gc_roots[focus]]
  /\ loaded' = [loaded EXCEPT ![p] = TRUE]
  /\ UNCHANGED <<focus, gc_roots, depth, audited, lost>>

\* GC_PROTECT, second half: the node becomes the head of the list of the
\* process that is focused by now.
ProtectLink(p) ==
  /\ loaded[p]
  /\ gc_roots' = [gc_roots EXCEPT ![focus] = Fresh(p)]
  /\ depth' = [depth EXCEPT ![p] = @ + 1]
  /\ loaded' = [loaded EXCEPT ![p] = FALSE]
  /\ lost' = (lost \/ gc_roots[focus] # next[Fresh(p)])
  /\ UNCHANGED <<focus, next, audited>>

\* Mutant: the cleanup leaves the node in the list.
GcUnprotectNotUnlinked(p) ==
  /\ ~loaded[p] /\ depth[p] > 0
  /\ audited' = (audited \/ gc_roots[focus] # Top(p))
  /\ depth' = [depth EXCEPT ![p] = @ - 1]
  /\ UNCHANGED <<focus, gc_roots, next, loaded, lost>>

\* Mutant: the cleanup restores an empty list, not the one it found.
GcUnprotectEmpties(p) ==
  /\ ~loaded[p] /\ depth[p] > 0
  /\ audited' = (audited \/ gc_roots[focus] # Top(p))
  /\ gc_roots' = [gc_roots EXCEPT ![focus] = None]
  /\ depth' = [depth EXCEPT ![p] = @ - 1]
  /\ UNCHANGED <<focus, next, loaded, lost>>

\* The cleanup of the innermost protected variable.  In a build with
\* ISIKIOS_GC_DEBUG it first counts a node that is not the head.
gc_unprotect_node(p) ==
  /\ ~loaded[p] /\ depth[p] > 0
  /\ audited' = (audited \/ gc_roots[focus] # Top(p))
  /\ gc_roots' = [gc_roots EXCEPT ![focus] = next[Top(p)]]
  /\ depth' = [depth EXCEPT ![p] = @ - 1]
  /\ UNCHANGED <<focus, next, loaded, lost>>

\* An F-key: switch_active_process.
switch_active_process(i) ==
  /\ i # focus
  /\ focus' = i
  /\ UNCHANGED <<gc_roots, next, depth, loaded, audited, lost>>

Next ==
  \/ \E p \in Procs : ProtectInit(p) \/ ProtectLink(p) \/ gc_unprotect_node(p)
  \/ \E i \in Procs : switch_active_process(i)

Spec == Init /\ [][Next]_vars

-----------------------------------------------------------------------------
\* The nodes within k steps of the heads of the lists.
Within ==
  LET within[k \in Nat] ==
        IF k = 0 THEN {gc_roots[q] : q \in Procs} \ {None}
        ELSE LET seen == within[k-1] IN seen \cup ({next[n] : n \in seen} \ {None})
  IN  within

\* The nodes os_gc_collect_body visits, following every list.
Visited == Within[Cardinality(Nodes)]

\* The k-th node of the list of q, or None.
Walk(q) ==
  LET at[k \in Nat] == IF k = 0 THEN gc_roots[q]
                       ELSE LET n == at[k-1] IN IF n = None THEN None ELSE next[n]
  IN  at

\* The walk along every list comes to an end.
WalksEnd == \A q \in Procs : Walk(q)[Cardinality(Nodes)] = None

\* The variables in the scope of their GC_PROTECT.
Live == {n \in Nodes : n[2] <= depth[n[1]]}

\* So far every link and every cleanup found its list as it assumed.
Undisturbed == ~audited /\ ~lost

\* "Links var at the head of the current process's shadow stack and adds it to
\* the root set; it leaves the shadow stack when the scope ends" (GC_PROTECT):
\* whatever the order in which the processes protect, clean up and lose the
\* focus, a variable in scope is missed by a collection only after a node was
\* linked to an old head or a cleanup found another node than its own.
ProtectedAreRoots == Undisturbed => Live \subseteq Visited

\* In no order of these steps, and up to the same moment, does the collector
\* visit a variable whose scope has ended: it would overwrite whatever the
\* frame's memory holds by then (gc_unprotect_node).
NoDeadRoots == Undisturbed => Visited \subseteq Live

\* In no order of these steps, and up to the same moment, does a list come
\* back to itself: os_gc_collect_body follows it with interrupts off, so a
\* cycle stops the machine.
ListsEnd == Undisturbed => WalksEnd

\* "With preemptive switching, processes that use the same list are bound to
\* break the order here" (the audit in gc_unprotect_node): a list that does
\* not end has been counted.
AuditCountsFirst == audited \/ WalksEnd
=============================================================================
