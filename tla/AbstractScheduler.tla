------------------------- MODULE AbstractScheduler --------------------------
(***************************************************************************)
(* What scheduling promises to the rest of the kernel, on one hart: a task *)
(* is waiting, or runs, or is neither; one task runs at a time; a waiting  *)
(* task runs only through a dispatch from idle and is dispatched           *)
(* eventually.  Process (task states) and StrideScheduler (the ready       *)
(* queue) implement it.                                                    *)
(***************************************************************************)
CONSTANTS Tasks, NoTask

VARIABLES ready,     \* tasks waiting for the hart
          running    \* the task on the hart, NoTask in the idle loop

vars == <<ready, running>>

Init == \E t \in Tasks : ready = {t} /\ running = NoTask

Dispatch(t) == /\ running = NoTask
               /\ t \in ready
               /\ ready' = ready \ {t}
               /\ running' = t

Preempt == /\ running # NoTask
           /\ ready' = ready \cup {running}
           /\ running' = NoTask

Leave == /\ running # NoTask
         /\ running' = NoTask
         /\ UNCHANGED ready

\* The running task creates another one.
Join(t) == /\ running # NoTask
           /\ t \notin ready \cup {running}
           /\ ready' = ready \cup {t}
           /\ UNCHANGED running

Next == \/ Preempt
        \/ Leave
        \/ \E t \in Tasks : Dispatch(t) \/ Join(t)

SafeSpec == Init /\ [][Next]_vars

\* No waiting task is passed over for ever.
Spec == SafeSpec /\ \A t \in Tasks : SF_vars(Dispatch(t))
=============================================================================
