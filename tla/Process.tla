------------------------------- MODULE Process ------------------------------
(***************************************************************************)
(* The life of processes: TaskControlBlock's status, its parent and child  *)
(* links, the ready queue and the processor (task/task.rs, task/mod.rs,    *)
(* task/processor.rs), and the system calls that change them               *)
(* (syscall/process.rs, the stdin loop of fs/stdio.rs).                    *)
(*                                                                         *)
(* One hart; the kernel runs with interrupts off, so a system call is one  *)
(* step unless it gives up the hart: suspend_current_and_run_next and      *)
(* exit_current_and_run_next end a step, run_tasks starts the next one.    *)
(* A TCB is named by its pid: PidAllocator shows that no two TCBs share    *)
(* one.  Strong references (Arc) to a TCB are held by child vectors, by    *)
(* the ready queue, by the processor, and by the stack of a task inside    *)
(* sys_read; sys_waitpid asserts that it took the last one.                *)
(* The order of the ready queue is StrideScheduler's subject: fetch may    *)
(* yield any queued task here.                                             *)
(***************************************************************************)
EXTENDS Naturals, Sequences, SequencesExt, FiniteSets

CONSTANTS Tasks,         \* names (pids) of the TCBs that can exist
          InitProc,      \* INITPROC
          NoTask,        \* Processor.current = None, a parent of None
          AnyPid,        \* the argument -1 of waitpid
          ExitCodes,     \* values of exit_code, Zero among them
          Zero,
          InitProcExits  \* may INITPROC's program call exit?

ASSUME ProcessAssumption == /\ InitProc \in Tasks
                            /\ NoTask \notin Tasks
                            /\ AnyPid \notin Tasks
                            /\ Zero \in ExitCodes
                            /\ InitProcExits \in BOOLEAN

VARIABLES status,     \* task_status; "none" when no TCB has this pid
          parent,     \* the Weak link to the parent
          child,      \* the vector of Arcs to the children
          exit_code,
          queued,     \* Arcs in the ready queue, per task
          prio,       \* "free": above BIG_STRIDE, a dispatch costs nothing;
                      \* else "charged"
          at,         \* "stdin": suspended inside Stdin::read; else "user"
          current,    \* Processor.current
          fault       \* the panic that stopped the kernel

vars == <<status, parent, child, exit_code, queued, prio, at, current, fault>>

TypeOK == /\ status \in [Tasks -> {"none", "Ready", "Running", "Zombie"}]
          /\ parent \in [Tasks -> Tasks \cup {NoTask}]
          /\ child \in [Tasks -> Seq(Tasks)]
          /\ exit_code \in [Tasks -> ExitCodes]
          /\ queued \in [Tasks -> Nat]
          /\ prio \in [Tasks -> {"charged", "free"}]
          /\ at \in [Tasks -> {"user", "stdin"}]
          /\ current \in Tasks \cup {NoTask}
          /\ fault \in {"none", "strong_count", "borrow"}

Live == {t \in Tasks : status[t] # "none"}
Kids(p) == {child[p][i] : i \in 1..Len(child[p])}

-----------------------------------------------------------------------------
\* INITPROC in the ready queue (add_initproc), nothing else.
Init == /\ status = [t \in Tasks |-> IF t = InitProc THEN "Ready" ELSE "none"]
        /\ parent = [t \in Tasks |-> NoTask]
        /\ child = [t \in Tasks |-> <<>>]
        /\ exit_code = [t \in Tasks |-> Zero]
        /\ queued = [t \in Tasks |-> IF t = InitProc THEN 1 ELSE 0]
        /\ prio = [t \in Tasks |-> "charged"]
        /\ at = [t \in Tasks |-> "user"]
        /\ current = NoTask
        /\ fault = "none"

\* Mutant: the queue is not searched for a task before one is taken.
run_tasks_unchecked(t) ==
    /\ fault = "none"
    /\ current = NoTask
    /\ status[t] # "none"
    /\ queued' = [queued EXCEPT ![t] = @ - 1]
    /\ status' = [status EXCEPT ![t] = "Running"]
    /\ current' = t
    /\ UNCHANGED <<parent, child, exit_code, prio, at, fault>>

\* One turn of the idle loop: fetch_task, mark Running, make it current.
run_tasks(t) ==
    /\ fault = "none"
    /\ current = NoTask
    /\ queued[t] > 0
    /\ queued' = [queued EXCEPT ![t] = @ - 1]
    /\ status' = [status EXCEPT ![t] = "Running"]
    /\ current' = t
    /\ UNCHANGED <<parent, child, exit_code, prio, at, fault>>

\* Mutant: the task is put into the queue twice.
suspend_current_and_run_next_twice ==
    /\ status' = [status EXCEPT ![current] = "Ready"]
    /\ queued' = [queued EXCEPT ![current] = @ + 2]
    /\ current' = NoTask

\* Mutant: the task is not put back into the queue.
suspend_current_and_run_next_lost ==
    /\ status' = [status EXCEPT ![current] = "Ready"]
    /\ current' = NoTask
    /\ UNCHANGED queued

\* take_current_task, Ready, back into the queue, then the idle loop.
suspend_current_and_run_next ==
    /\ status' = [status EXCEPT ![current] = "Ready"]
    /\ queued' = [queued EXCEPT ![current] = @ + 1]
    /\ current' = NoTask

InUser == fault = "none" /\ current # NoTask /\ at[current] = "user"

\* SupervisorTimer interrupts the user program.
TimerInterrupt ==
    /\ InUser
    /\ suspend_current_and_run_next
    /\ UNCHANGED <<parent, child, exit_code, prio, at, fault>>

sys_yield ==
    /\ InUser
    /\ suspend_current_and_run_next
    /\ UNCHANGED <<parent, child, exit_code, prio, at, fault>>

\* Stdin::read finds no character: the task leaves the hart inside sys_read,
\* whose stack keeps an Arc of its TCB.  (With a character nothing changes.)
\* INITPROC's program never reads stdin.
sys_read_stdin ==
    /\ InUser
    /\ current # InitProc
    /\ at' = [at EXCEPT ![current] = "stdin"]
    /\ suspend_current_and_run_next
    /\ UNCHANGED <<parent, child, exit_code, prio, fault>>

\* Back in the loop of Stdin::read, with a character or without.
stdin_read_again ==
    /\ fault = "none"
    /\ current # NoTask
    /\ at[current] = "stdin"
    /\ \/ /\ at' = [at EXCEPT ![current] = "user"]
          /\ UNCHANGED <<status, queued, current>>
       \/ /\ suspend_current_and_run_next
          /\ UNCHANGED at
    /\ UNCHANGED <<parent, child, exit_code, prio, fault>>

\* Mutant: the new task is not put into the parent's child vector.
new_task_unlinked(c, p) ==
    /\ status[c] = "none"
    /\ status' = [status EXCEPT ![c] = "Ready"]
    /\ parent' = [parent EXCEPT ![c] = current]
    /\ queued' = [queued EXCEPT ![c] = @ + 1]
    /\ exit_code' = [exit_code EXCEPT ![c] = Zero]
    /\ prio' = [prio EXCEPT ![c] = p]
    /\ UNCHANGED <<child, at, current, fault>>

\* A new TCB: Ready, child of the current task, in the ready queue, with
\* priority p.
new_task(c, p) ==
    /\ status[c] = "none"
    /\ status' = [status EXCEPT ![c] = "Ready"]
    /\ parent' = [parent EXCEPT ![c] = current]
    /\ child' = [child EXCEPT ![current] = Append(@, c), ![c] = <<>>]
    /\ exit_code' = [exit_code EXCEPT ![c] = Zero]
    /\ queued' = [queued EXCEPT ![c] = @ + 1]
    /\ prio' = [prio EXCEPT ![c] = p]
    /\ UNCHANGED <<at, current, fault>>

\* The child inherits the priority.
sys_fork(c) == InUser /\ new_task(c, prio[current])

\* The path names an existing program; otherwise nothing changes.
sys_spawn(c) == InUser /\ new_task(c, "charged")

\* sys_set_prio takes any priority above 1, those above BIG_STRIDE too.
sys_set_prio(p) ==
    /\ InUser
    /\ prio' = [prio EXCEPT ![current] = p]
    /\ UNCHANGED <<status, parent, child, exit_code, queued, at, current, fault>>

\* Mutant: the children of the dying task are left to it.
adopt_children_none(t) == UNCHANGED <<parent, child>>

\* The children of t become INITPROC's: their parent link, then the vectors.
adopt_children(t) ==
    /\ parent' = [c \in Tasks |-> IF c \in Kids(t) THEN InitProc ELSE parent[c]]
    /\ child' = [child EXCEPT ![InitProc] = @ \o child[t], ![t] = <<>>]

\* Mutant: the dying task is queued once more.
exit_current_requeued(code) ==
    /\ status' = [status EXCEPT ![current] = "Zombie"]
    /\ exit_code' = [exit_code EXCEPT ![current] = code]
    /\ adopt_children(current)
    /\ queued' = [queued EXCEPT ![current] = @ + 1]
    /\ current' = NoTask
    /\ UNCHANGED <<prio, at, fault>>

\* exit_current_and_run_next.  The inner cell of the current task is borrowed
\* while INITPROC's is: when they are the same cell the second borrow panics.
exit_current_and_run_next(code) ==
    /\ status' = [status EXCEPT ![current] = "Zombie"]
    /\ exit_code' = [exit_code EXCEPT ![current] = code]
    /\ IF current = InitProc
       THEN /\ fault' = "borrow"
            /\ UNCHANGED <<parent, child>>
       ELSE /\ adopt_children(current)
            /\ UNCHANGED fault
    /\ current' = NoTask
    /\ UNCHANGED <<queued, prio, at>>

\* sys_exit, or a fault of the user program (codes -2 and -3).
Exit(code) ==
    /\ InUser
    /\ current = InitProc => InitProcExits
    /\ exit_current_and_run_next(code)

\* Mutant: waitpid looks at the first child only.
ZombieAt_first(pid) == {i \in 1..Len(child[current]) :
                           /\ i = 1
                           /\ status[child[current][i]] = "Zombie"
                           /\ pid \in {AnyPid, child[current][i]}}

\* Indices of the children that waitpid(pid) may take.
ZombieAt(pid) == {i \in 1..Len(child[current]) :
                     /\ status[child[current][i]] = "Zombie"
                     /\ pid \in {AnyPid, child[current][i]}}

\* Nobody but the local variable of sys_waitpid has an Arc of c.
LastArc(c, children) ==
    /\ \A p \in Tasks : \A i \in 1..Len(children[p]) : children[p][i] # c
    /\ queued[c] = 0
    /\ current # c
    /\ at[c] # "stdin"

\* Mutant: the child is read through its index and left in the vector.
reap_kept(pid) ==
    \E i \in ZombieAt(pid) :
       /\ \A j \in ZombieAt(pid) : i <= j
       /\ LET c == child[current][i]
          IN  /\ UNCHANGED child
              /\ IF LastArc(c, child')
                 THEN status' = [status EXCEPT ![c] = "none"] /\ UNCHANGED fault
                 ELSE fault' = "strong_count" /\ UNCHANGED status
    /\ UNCHANGED <<parent, exit_code, queued, prio, at, current>>

\* The first zombie that matches leaves the vector and its TCB is dropped.
reap(pid) ==
    \E i \in ZombieAt(pid) :
       /\ \A j \in ZombieAt(pid) : i <= j
       /\ LET c == child[current][i]
          IN  /\ child' = [child EXCEPT ![current] = RemoveAt(@, i)]
              /\ IF LastArc(c, child')
                 THEN /\ status' = [status EXCEPT ![c] = "none"]
                      /\ exit_code' = [exit_code EXCEPT ![c] = Zero]
                      /\ prio' = [prio EXCEPT ![c] = "charged"]
                      /\ UNCHANGED fault
                 ELSE /\ fault' = "strong_count"
                      /\ UNCHANGED <<status, exit_code, prio>>
    /\ UNCHANGED <<parent, queued, at, current>>

\* sys_waitpid: -1 (no such child) and -2 (none is a zombie) change nothing.
sys_waitpid(pid) ==
    /\ InUser
    /\ IF ZombieAt(pid) = {} THEN UNCHANGED vars ELSE reap(pid)

Next == \/ TimerInterrupt
        \/ sys_yield
        \/ sys_read_stdin
        \/ stdin_read_again
        \/ \E t \in Tasks : run_tasks(t)
        \/ \E c \in Tasks : sys_fork(c) \/ sys_spawn(c)
        \/ \E p \in {"charged", "free"} : sys_set_prio(p)
        \/ \E code \in ExitCodes : Exit(code)
        \/ \E pid \in Tasks \cup {AnyPid} : sys_waitpid(pid)

SafeSpec == Init /\ [][Next]_vars

\* No task in the queue or on the processor is dispatched for nothing.
AllCharged == \A t \in Tasks : status[t] \in {"Ready", "Running"} => prio[t] = "charged"

\* The timer fires and a polling reader leaves the hart again; while every
\* dispatch is charged the scheduler passes no task over (StrideScheduler);
\* INITPROC's program calls waitpid(-1) whenever it has run for a while.
Fairness ==
    /\ WF_vars(TimerInterrupt)
    /\ WF_vars(stdin_read_again)
    /\ WF_vars(\E t \in Tasks : run_tasks(t))
    /\ \A t \in Tasks : SF_vars(AllCharged /\ run_tasks(t))
    /\ SF_vars(current = InitProc /\ sys_waitpid(AnyPid))

Spec == SafeSpec /\ Fairness

-----------------------------------------------------------------------------
\* A task has one Arc in the ready queue when it is Ready and none otherwise,
\* and it is current exactly when it is Running: no suspend, fork or exit
\* leaves a task queued twice, forgotten, or running after its death.
QueuedIffReady ==
    \A t \in Tasks : /\ queued[t] = IF status[t] = "Ready" THEN 1 ELSE 0
                     /\ status[t] = "Running" <=> current = t

\* Every process but INITPROC is in exactly one child vector, once, and that
\* of the process its parent link names, which is alive and no zombie: the
\* adoption in exit_current_and_run_next loses and doubles nobody.
OneParent ==
    /\ \A p \in Tasks : \A i, j \in 1..Len(child[p]) : child[p][i] = child[p][j] => i = j
    /\ \A p \in Tasks : \A c \in Kids(p) :
          c \in Live /\ parent[c] = p /\ status[p] \in {"Ready", "Running"}
    /\ \A c \in Live \ {InitProc} : parent[c] \in Tasks /\ c \in Kids(parent[c])

\* Parent links lead to INITPROC: no group of processes is cut off, so every
\* zombie has somebody who can reap it.
RootedTree ==
    \A S \in SUBSET (Live \ {InitProc}) : S # {} => \E c \in S : parent[c] \notin S

\* Neither the strong_count assertion of sys_waitpid nor the double borrow in
\* exit_current_and_run_next is reached.
NoPanic == fault = "none"

\* In the idle loop some task is ready: a kernel that waits only by polling
\* never waits for nothing (interrupts are off in run_tasks).
IdleHasWork == current = NoTask => \E t \in Tasks : queued[t] > 0

ZombieKept == \A c \in Tasks : status[c] = "Zombie" =>
                 \/ status'[c] = "Zombie" /\ exit_code'[c] = exit_code[c]
                 \/ status'[c] = "none" /\ current = parent[c]

\* A zombie never runs again, keeps its exit code, and disappears only when
\* its parent, running, reaps it.
ZombieIsFinal == [][ZombieKept]_vars

\* A zombie that INITPROC has, by birth or by adoption, is reaped in the
\* end, provided that from some time on no process has a priority above
\* BIG_STRIDE: with one, INITPROC may never be dispatched again.
OrphansReaped ==
    <>[]AllCharged =>
       \A c \in Tasks : (status[c] = "Zombie" /\ parent[c] = InitProc) ~> (status[c] = "none")

\* The states of processes follow the abstract scheduler.
Sched == INSTANCE AbstractScheduler
            WITH ready <- {t \in Tasks : status[t] = "Ready"}, running <- current

ImplementsScheduler == Sched!SafeSpec
=============================================================================
