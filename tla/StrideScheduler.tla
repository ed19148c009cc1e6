--------------------------- MODULE StrideScheduler --------------------------
(***************************************************************************)
(* TaskManager (task/manager.rs): the ready queue and stride scheduling.   *)
(* fetch takes the first task of least stride and charges it               *)
(* pass = BIG_STRIDE / prio; add pushes at the back; a new task starts     *)
(* with stride 0, which is not relative to the others.                     *)
(*                                                                         *)
(* Strides only grow.  A behaviour ends at the horizon: when the task that *)
(* fetch would choose passes MaxStride, nothing is dispatched any more.    *)
(* A task is created once; Tasks bounds how many ever are.                 *)
(***************************************************************************)
EXTENDS Naturals, Sequences, SequencesExt

CONSTANTS Tasks,
          InitProc,      \* the task of add_initproc
          NoTask,
          BigStride,     \* BIG_STRIDE, 250
          DefaultPrio,   \* 16
          Prios,         \* arguments of set_prio
          UsizeMax,      \* usize::MAX, what fetch compares with first
          MaxStride      \* bound: the horizon

ASSUME StrideAssumption == /\ InitProc \in Tasks /\ NoTask \notin Tasks
                           /\ BigStride \in Nat \ {0}
                           /\ DefaultPrio \in Nat \ {0, 1}
                           /\ Prios \subseteq Nat
                           /\ MaxStride \in Nat /\ UsizeMax \in Nat
                           /\ MaxStride < UsizeMax

VARIABLES ready_queue,   \* Vec<Arc<TaskControlBlock>>
          stride, prio,  \* fields of the TCBs
          current,       \* the running task
          born,          \* tasks created so far
          seen           \* history: the tasks queued when t was last fetched

vars == <<ready_queue, stride, prio, current, born, seen>>

TypeOK == /\ ready_queue \in Seq(Tasks)
          /\ stride \in [Tasks -> 0..MaxStride]
          /\ prio \in [Tasks -> Nat \ {0, 1}]
          /\ current \in Tasks \cup {NoTask}
          /\ born \subseteq Tasks
          /\ seen \in [Tasks -> SUBSET Tasks]

Queued == {ready_queue[i] : i \in 1..Len(ready_queue)}
MaxPass == BigStride \div 2     \* set_prio refuses priorities below 2

-----------------------------------------------------------------------------
\* Mutant: the comparison is the wrong way round.
fetch_index_most ==
    {i \in 1..Len(ready_queue) :
        \A j \in 1..Len(ready_queue) : stride[ready_queue[i]] >= stride[ready_queue[j]]}

\* The index fetch ends with: the first of the least strides below MAX.
fetch_index ==
    {i \in 1..Len(ready_queue) :
        /\ stride[ready_queue[i]] < UsizeMax
        /\ \A j \in 1..Len(ready_queue) :
              /\ stride[ready_queue[i]] <= stride[ready_queue[j]]
              /\ j < i => stride[ready_queue[i]] < stride[ready_queue[j]]}

\* Mutant: the stride is charged with the priority itself.
update_stride_prio(t) == stride[t] + prio[t]

\* TaskControlBlock::update_stride.
update_stride(t) == stride[t] + (BigStride \div prio[t])

Init == /\ ready_queue = <<InitProc>>
        /\ stride = [t \in Tasks |-> 0]
        /\ prio = [t \in Tasks |-> DefaultPrio]
        /\ current = NoTask
        /\ born = {InitProc}
        /\ seen = [t \in Tasks |-> {}]

\* Mutant: the chosen task stays in the queue.
fetch_at_kept(i) ==
    LET t == ready_queue[i]
    IN  /\ update_stride(t) <= MaxStride
        /\ stride' = [stride EXCEPT ![t] = update_stride(t)]
        /\ current' = t
        /\ seen' = [seen EXCEPT ![t] = Queued]
        /\ UNCHANGED ready_queue

\* The task at index i is charged, removed and becomes current.
fetch_at(i) ==
    LET t == ready_queue[i]
    IN  /\ update_stride(t) <= MaxStride
        /\ stride' = [stride EXCEPT ![t] = update_stride(t)]
        /\ ready_queue' = RemoveAt(ready_queue, i)
        /\ current' = t
        /\ seen' = [seen EXCEPT ![t] = Queued]

\* One turn of run_tasks that finds a task.
run_tasks ==
    /\ current = NoTask
    /\ \E i \in fetch_index : fetch_at(i)
    /\ UNCHANGED <<prio, born>>

\* suspend_current_and_run_next: the task goes to the back of the queue.
suspend ==
    /\ current # NoTask
    /\ ready_queue' = Append(ready_queue, current)
    /\ current' = NoTask
    /\ UNCHANGED <<stride, prio, born, seen>>

\* exit_current_and_run_next.
exit ==
    /\ current # NoTask
    /\ current # InitProc
    /\ current' = NoTask
    /\ UNCHANGED <<ready_queue, stride, prio, born, seen>>

\* A new TCB: stride 0; fork inherits the priority, spawn does not.
add_new(c, p) ==
    /\ current # NoTask
    /\ c \notin born
    /\ born' = born \cup {c}
    /\ prio' = [prio EXCEPT ![c] = p]
    /\ ready_queue' = Append(ready_queue, c)
    /\ UNCHANGED <<stride, current, seen>>

fork(c) == add_new(c, prio[current])
spawn(c) == add_new(c, DefaultPrio)

\* Mutant: a priority of 1 is accepted.
sys_set_prio_one(p) ==
    /\ current # NoTask
    /\ p >= 1
    /\ prio' = [prio EXCEPT ![current] = p]
    /\ UNCHANGED <<ready_queue, stride, current, born, seen>>

\* sys_set_prio answers -1 to a priority below 2, and takes any other one.
sys_set_prio(p) ==
    /\ current # NoTask
    /\ prio' = [prio EXCEPT ![current] = IF p <= 1 THEN @ ELSE p]
    /\ UNCHANGED <<ready_queue, stride, current, born, seen>>

Next == \/ run_tasks
        \/ suspend
        \/ exit
        \/ \E c \in Tasks : fork(c) \/ spawn(c)
        \/ \E p \in Prios : sys_set_prio(p)

SafeSpec == Init /\ [][Next]_vars

\* The idle loop keeps fetching and the timer keeps interrupting.
Spec == SafeSpec /\ WF_vars(run_tasks) /\ WF_vars(suspend)

-----------------------------------------------------------------------------
\* A task is never ahead, by more than one pass, of a task that was waiting
\* when it was last chosen: fetch, update_stride and set_prio keep the lag
\* bounded by BIG_STRIDE / 2 whatever priorities are set in between.
StrideLag ==
    \A a \in Tasks : \A b \in seen[a] : stride[a] <= stride[b] + MaxPass

\* A waiting task is dispatched before the horizon stops the scheduler: as
\* long as every dispatch costs something nobody is passed over for ever,
\* although new tasks start with stride 0 (suspend_current_and_run_next:
\* "suspend the current process, run another one").
NoStarvation ==
    \A t \in Tasks :
       (t \in Queued /\ stride[t] + MaxPass <= MaxStride) ~> (current = t)

\* The queue of TaskManager implements the abstract scheduler: it holds every
\* waiting task and gives each to the processor by removing it.
Sched == INSTANCE AbstractScheduler WITH ready <- Queued, running <- current

ImplementsScheduler == Sched!SafeSpec
=============================================================================
