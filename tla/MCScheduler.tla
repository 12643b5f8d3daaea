---------------------------- MODULE MCScheduler ----------------------------
(* Scheduler with four processes and stacks of a few words, one word of    *)
(* guard between them.                                                     *)
EXTENDS Scheduler

MCStackBase == [i \in 0..3 |-> 10 + 5 * i]
=============================================================================
