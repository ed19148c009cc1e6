---------------------------- MODULE TrapContext ----------------------------
(***************************************************************************)
(* From user code into the kernel and back: __alltraps, trap_handler,      *)
(* trap_return and __restore (trap/), the trap context page of each        *)
(* process, and the calls that build or replace one: fork, spawn, exec     *)
(* (task/task.rs).  A process may be switched out in the middle of its     *)
(* trap (yield, read, timer) while others trap, fork, exec and exit.       *)
(*                                                                         *)
(* The kernel reaches the context through trap_cx_ppn; the assembly        *)
(* reaches it through the page the user's table maps at TRAP_CONTEXT_BASE; *)
(* the frame belongs to a MapArea like any other and goes with it when the *)
(* process exits, or unmaps the page itself, while the others stay.  All   *)
(* three are kept here, as frames.  Of the registers, sepc and x10 are     *)
(* modelled: the trap handler changes no other.  A kernel stack is named   *)
(* by the process it belongs to.                                           *)
(***************************************************************************)
EXTENDS Naturals, FiniteSets

CONSTANTS Procs, InitProc,
          Frames,     \* frames for trap context pages
          Pcs,        \* addresses of user instructions
          Entry,      \* entry point of a program
          ArgA0,      \* what user code may have in a0
          Pid,        \* a0 of a fork that created a child
          Failed,     \* -1
          None

ASSUME Registers == /\ InitProc \in Procs
                    /\ Pcs \subseteq Nat /\ Entry \in Pcs
                    /\ 0 \in ArgA0
                    /\ None \notin Procs /\ None \notin Frames

VARIABLES mode,      \* "user", "handler", "result", "restore", "idle", "hung"
          current,   \* the process on the processor
          regs,      \* sepc and a0 while it runs
          cause,     \* why it trapped
          local,     \* trap_handler's cx, as fetched before the call
          result,    \* syscall()'s value
          sp,        \* the kernel stack in use
          saved,     \* task_cx of every process that is not running
          cx,        \* contents of the trap context frames
          ppn,       \* trap_cx_ppn
          page,      \* the frame mapped at TRAP_CONTEXT_BASE
          area,      \* the frame the area of that page holds
          expect     \* history: registers user code must see next

vars == <<mode, current, regs, cause, local, result, sp, saved, cx, ppn, page, area, expect>>

Causes == {"syscall", "suspend", "fork", "spawn", "exec", "exit", "timer", "fault"}

Regs(pc, a0) == [pc |-> pc, a0 |-> a0]

\* What a switched-out process has on its kernel stack.
Cont(phase, stack, l, r) == [phase |-> phase, stack |-> stack, local |-> l, result |-> r]
Dead == Cont("dead", None, None, 0)
Zombie == Cont("zombie", None, None, 0)
Running == Cont("running", None, None, 0)

\* TaskContext::goto_trap_return, on the process's own kernel stack.
goto_trap_return(p) == Cont("restore", p, None, 0)

\* TrapContext::app_init_context
app_init_context(p) == [sepc |-> Entry, a0 |-> 0, kernel_sp |-> p]

\* What a frame holds before it is used.
NoCx == [sepc |-> 0, a0 |-> Failed, kernel_sp |-> None]

Free == {f \in Frames : \A p \in Procs : area[p] # f}

Init == /\ mode = "idle" /\ current = None
        /\ regs = Regs(Entry, 0) /\ cause = "timer" /\ result = 0
        /\ local = None /\ sp = None
        /\ \E f \in Frames :
             /\ page = [p \in Procs |-> IF p = InitProc THEN f ELSE None]
             /\ ppn = page /\ area = page
             /\ cx = [g \in Frames |-> IF g = f THEN app_init_context(InitProc) ELSE NoCx]
        /\ saved = [p \in Procs |-> IF p = InitProc THEN goto_trap_return(p) ELSE Dead]
        /\ expect = [p \in Procs |-> Regs(Entry, 0)]

-----------------------------------------------------------------------------
(* User code and the trampoline.                                           *)

UserRun(pc, a0) ==
    /\ mode = "user"
    /\ regs' = Regs(pc, a0)
    /\ expect' = [expect EXCEPT ![current] = Regs(pc, a0)]
    /\ UNCHANGED <<mode, current, cause, local, result, sp, saved, cx, ppn, page, area>>

\* __alltraps: the registers go to the mapped page, the kernel stack comes
\* from it; trap_handler fetches cx.  INITPROC does not exit; a fork with no
\* frame left is a panic (FrameAllocator) and left out.
alltraps(why) ==
    /\ mode = "user"
    /\ why \notin {"timer", "fault"} => regs.pc + 4 \in Pcs
    /\ current = InitProc => why \notin {"exit", "fault"}
    /\ why = "fork" => Free # {} /\ \E c \in Procs : saved[c] = Dead
    /\ cx' = [cx EXCEPT ![page[current]].sepc = regs.pc, ![page[current]].a0 = regs.a0]
    /\ sp' = cx[page[current]].kernel_sp
    /\ local' = ppn[current]
    /\ cause' = why
    /\ mode' = "handler"
    /\ UNCHANGED <<current, regs, result, saved, ppn, page, area, expect>>

\* trap_return and __restore.
trap_return ==
    /\ mode = "restore"
    /\ page[current] # None
    /\ regs' = Regs(cx[page[current]].sepc, cx[page[current]].a0)
    /\ mode' = "user"
    /\ sp' = None
    /\ UNCHANGED <<current, cause, local, result, saved, cx, ppn, page, area, expect>>

\* Without the page __restore faults on its first load, stvec points at
\* __alltraps, which faults on its first store, and so for ever.
restore_fault ==
    /\ mode = "restore"
    /\ page[current] = None
    /\ mode' = "hung"
    /\ UNCHANGED <<current, regs, cause, local, result, sp, saved, cx, ppn, page, area, expect>>

-----------------------------------------------------------------------------
(* The processor: suspend_current_and_run_next, exit, run_tasks.           *)

SwitchOut(cont) ==
    /\ saved' = [saved EXCEPT ![current] = cont]
    /\ mode' = "idle"
    /\ current' = None
    /\ sp' = None

run_tasks(p) ==
    /\ mode = "idle"
    /\ saved[p].phase \in {"restore", "result"}
    /\ current' = p
    /\ mode' = saved[p].phase
    /\ sp' = saved[p].stack
    /\ result' = saved[p].result
    /\ local' = saved[p].local
    /\ saved' = [saved EXCEPT ![p] = Running]
    /\ UNCHANGED <<regs, cause, cx, ppn, page, area, expect>>

-----------------------------------------------------------------------------
(* trap_handler.                                                           *)

\* Mutant: the program counter stays on the ecall.
NextPc_same(pc) == pc

NextPc(pc) == pc + 4

\* cx.sepc += 4 before the call is dispatched.
Advanced == [cx EXCEPT ![ppn[current]].sepc = NextPc(@)]

Handling(why) == mode = "handler" /\ cause = why

\* What the caller must find: the next instruction, and the call's value.
Expect(p, a0) == [expect EXCEPT ![p] = Regs(regs.pc + 4, a0)]

\* A call that returns at once; exec and spawn of an unknown file return -1.
syscall(r) ==
    /\ mode = "handler"
    /\ cause = "syscall" \/ (cause \in {"exec", "spawn"} /\ r = Failed)
    /\ cx' = Advanced
    /\ result' = r
    /\ mode' = "result"
    /\ expect' = Expect(current, r)
    /\ UNCHANGED <<current, regs, cause, local, sp, saved, ppn, page, area>>

\* munmap(TRAP_CONTEXT_BASE, PAGE_SIZE), which no check refuses: the area is
\* dropped with its frame and the entry is cleared; trap_cx_ppn stays.
sys_munmap ==
    /\ Handling("syscall")
    /\ cx' = Advanced
    /\ page' = [page EXCEPT ![current] = None]
    /\ area' = [area EXCEPT ![current] = None]
    /\ result' = 0
    /\ mode' = "result"
    /\ expect' = Expect(current, 0)
    /\ UNCHANGED <<current, regs, cause, local, sp, saved, ppn>>

\* waitpid: the zombie's task control block and page table are dropped.
sys_waitpid(c) ==
    /\ Handling("syscall")
    /\ saved[c] = Zombie
    /\ cx' = Advanced
    /\ saved' = [saved EXCEPT ![c] = Dead]
    /\ page' = [page EXCEPT ![c] = None]
    /\ ppn' = [ppn EXCEPT ![c] = None]
    /\ result' = Pid
    /\ mode' = "result"
    /\ expect' = Expect(current, Pid)
    /\ UNCHANGED <<current, regs, cause, local, sp, area>>

\* A call that suspends before it returns r: yield (0), and a read of the
\* console that finds no character (1).
sys_suspend(r) ==
    /\ Handling("suspend")
    /\ cx' = Advanced
    /\ SwitchOut(Cont("result", sp, local, r))
    /\ expect' = Expect(current, r)
    /\ UNCHANGED <<regs, cause, local, result, ppn, page, area>>

\* The parent's page copied, then kernel_sp (fork) and x10 (sys_fork) set.
ChildCx(c) == [Advanced[ppn[current]] EXCEPT !.kernel_sp = c, !.a0 = 0]

NewChild(c, f, context) ==
    /\ saved[c] = Dead
    /\ f \in Free
    /\ cx' = [Advanced EXCEPT ![f] = context]
    /\ page' = [page EXCEPT ![c] = f]
    /\ ppn' = [ppn EXCEPT ![c] = f]
    /\ area' = [area EXCEPT ![c] = f]
    /\ saved' = [saved EXCEPT ![c] = goto_trap_return(c)]
    /\ result' = Pid
    /\ mode' = "result"
    /\ UNCHANGED <<current, regs, cause, local, sp>>

sys_fork(c, f) ==
    /\ Handling("fork")
    /\ NewChild(c, f, ChildCx(c))
    /\ expect' = [Expect(current, Pid) EXCEPT ![c] = Regs(regs.pc + 4, 0)]

sys_spawn(c, f) ==
    /\ Handling("spawn")
    /\ NewChild(c, f, app_init_context(c))
    /\ expect' = [Expect(current, Pid) EXCEPT ![c] = Regs(Entry, 0)]

\* TaskControlBlock::exec: a new memory set with a new context page; the old
\* frames are freed.
sys_exec(f) ==
    /\ Handling("exec")
    /\ f \in Free
    /\ cx' = [Advanced EXCEPT ![f] = app_init_context(current)]
    /\ page' = [page EXCEPT ![current] = f]
    /\ ppn' = [ppn EXCEPT ![current] = f]
    /\ area' = [area EXCEPT ![current] = f]
    /\ result' = 0
    /\ mode' = "result"
    /\ expect' = [expect EXCEPT ![current] = Regs(Entry, 0)]
    /\ UNCHANGED <<current, regs, cause, local, sp, saved>>

\* Mutant: the context that was fetched before the call is used again.
ResultFrame_stale == local

\* cx = current_trap_cx(), fetched again after the call.
ResultFrame == ppn[current]

\* cx.x[10] = result
WriteResult ==
    /\ mode = "result"
    /\ cx' = [cx EXCEPT ![ResultFrame].a0 = result]
    /\ mode' = "restore"
    /\ local' = None
    /\ UNCHANGED <<current, regs, cause, result, sp, saved, ppn, page, area, expect>>

\* SupervisorTimer: set_next_trigger and suspend, nothing else.
timer ==
    /\ Handling("timer")
    /\ SwitchOut(Cont("restore", sp, local, 0))
    /\ UNCHANGED <<regs, cause, local, result, cx, ppn, page, area, expect>>

\* sys_exit and the faults: exit_current_and_run_next.  The areas are cleared,
\* the frame of the context page is free; the zombie's trap_cx_ppn and the
\* entry of its page table still name it until it is waited for.
exit_current ==
    /\ mode = "handler" /\ cause \in {"exit", "fault"}
    /\ current # InitProc
    /\ cx' = IF cause = "exit" THEN Advanced ELSE cx
    /\ area' = [area EXCEPT ![current] = None]
    /\ SwitchOut(Zombie)
    /\ UNCHANGED <<regs, cause, local, result, ppn, page, expect>>

Halted == mode = "hung" /\ UNCHANGED vars

Next == \/ \E pc \in Pcs, a0 \in ArgA0 : UserRun(pc, a0)
        \/ \E why \in Causes : alltraps(why)
        \/ trap_return
        \/ restore_fault
        \/ \E p \in Procs : run_tasks(p)
        \/ \E r \in {0, Failed} : syscall(r)
        \/ sys_munmap
        \/ \E c \in Procs : sys_waitpid(c)
        \/ \E r \in {0, 1} : sys_suspend(r)
        \/ \E c \in Procs, f \in Frames : sys_fork(c, f) \/ sys_spawn(c, f)
        \/ \E f \in Frames : sys_exec(f)
        \/ WriteResult
        \/ timer
        \/ exit_current
        \/ Halted

Spec == Init /\ [][Next]_vars

-----------------------------------------------------------------------------
(* Properties.                                                             *)

\* User code resumes with exactly the registers it is owed: after a call the
\* next instruction and the value of its own call, after a timer interrupt
\* what it had, a forked child its parent's next instruction and 0, a new
\* program its entry, however the traps of the processes interleave.
ResumeExact == mode = "user" => regs = expect[current]

Alive(p) == saved[p].phase \notin {"dead", "zombie"}

\* The kernel's pointer to a context, the page the assembly uses and the frame
\* of the area are one, of that process alone, as long as it has the area.  A
\* process that has unmapped the page gets no further than the rest of that
\* trap, and trap_cx_ppn then names a frame that nobody has.
ContextPages ==
    /\ \A p \in Procs : Alive(p) =>
          IF area[p] # None
          THEN ppn[p] = area[p] /\ page[p] = area[p]
          ELSE /\ p = current /\ mode \in {"result", "restore", "hung"}
               /\ page[p] = None /\ ppn[p] \in Free
    /\ \A p, q \in Procs : area[p] # None /\ area[p] = area[q] => p = q

\* The value of a call goes to the caller's context, or to no one's.
ResultTarget ==
    mode = "result" => \/ ResultFrame = area[current]
                       \/ area[current] = None /\ ResultFrame \in Free

\* Every process traps onto its own kernel stack and is switched out on it.
OwnKernelStack ==
    /\ mode \in {"handler", "result", "restore"} => sp = current
    /\ \A p \in Procs : saved[p].phase \in {"result", "restore"} => saved[p].stack = p

\* Entering and leaving the kernel is sound: fork and exec give a process a
\* context page and a kernel stack that are its own, the handler never writes
\* to a context it fetched before exec replaced it, and never, through the
\* trap_cx_ppn of a zombie or of a process that unmapped its context page,
\* into a frame that somebody else has got since.
KernelEntrySound == ContextPages /\ ResultTarget /\ OwnKernelStack
=============================================================================
