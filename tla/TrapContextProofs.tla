------------------------- MODULE TrapContextProofs -------------------------
(***************************************************************************)
(* Proofs about TrapContext, for any number of processes, frames and       *)
(* instructions: user code always resumes with the registers it is owed,   *)
(* on a context page and a kernel stack of its own.                        *)
(***************************************************************************)
EXTENDS TrapContext, TLAPS

A0s == ArgA0 \cup {0, 1, Pid, Failed}
Cxs == [sepc : Nat, a0 : A0s, kernel_sp : Procs \cup {None}]
Conts == [phase : {"restore", "result", "running", "zombie", "dead"},
          stack : Procs \cup {None}, local : Frames \cup {None}, result : A0s]

\* The types of the variables.
Types == /\ mode \in {"user", "handler", "result", "restore", "idle", "hung"}
         /\ current \in Procs \cup {None}
         /\ regs \in [pc : Nat, a0 : A0s]
         /\ cause \in Causes
         /\ local \in Frames \cup {None}
         /\ result \in A0s
         /\ sp \in Procs \cup {None}
         /\ saved \in [Procs -> Conts]
         /\ cx \in [Frames -> Cxs]
         /\ ppn \in [Procs -> Frames \cup {None}]
         /\ page \in [Procs -> Frames \cup {None}]
         /\ area \in [Procs -> Frames \cup {None}]
         /\ expect \in [Procs -> [pc : Nat, a0 : A0s]]

\* Who is on the hart, who is switched out, who exists: neither a zombie nor
\* a process that was waited for has a frame.
Roles == /\ (mode = "idle") = (current = None)
         /\ \A p \in Procs : /\ (saved[p].phase = "running") = (p = current)
                             /\ ~ Alive(p) => area[p] = None

\* The context of a process names its own kernel stack.
OwnStackInCx == \A p \in Procs : area[p] # None => cx[area[p]].kernel_sp = p

\* What user code is owed is, in each phase of a trap, where that phase keeps
\* it: the registers, the context, or the context with the value of the call.
Owed == /\ mode \in {"user", "handler"} => regs = expect[current]
        /\ mode \in {"handler", "restore"} /\ area[current] # None =>
              Regs(cx[area[current]].sepc, cx[area[current]].a0) = expect[current]
        /\ mode = "result" /\ area[current] # None =>
              Regs(cx[area[current]].sepc, result) = expect[current]

OwedSaved ==
    \A p \in Procs :
       /\ saved[p].phase = "restore" =>
             Regs(cx[area[p]].sepc, cx[area[p]].a0) = expect[p]
       /\ saved[p].phase = "result" =>
             Regs(cx[area[p]].sepc, saved[p].result) = expect[p]

IInv == Types /\ Roles /\ ContextPages /\ OwnKernelStack /\ OwnStackInCx /\ Owed /\ OwedSaved

-----------------------------------------------------------------------------
\* The first process is ready to enter its program.
LEMMA InitIInv == Init => IInv
<1> SUFFICES ASSUME Init PROVE IInv
    OBVIOUS
<1>1. PICK f \in Frames :
         /\ page = [p \in Procs |-> IF p = InitProc THEN f ELSE None]
         /\ cx = [g \in Frames |-> IF g = f THEN app_init_context(InitProc) ELSE NoCx]
    BY DEF Init
<1>2. Types
    BY <1>1, Registers DEF Init, Types, Regs, Causes, Cxs, Conts, A0s, Cont, Dead,
       goto_trap_return, app_init_context, NoCx
<1>3. Roles /\ ContextPages /\ OwnKernelStack /\ OwnStackInCx
  <2>1. area = [p \in Procs |-> IF p = InitProc THEN f ELSE None] /\ ppn = area /\ page = area
      BY <1>1 DEF Init
  <2>2. /\ mode = "idle" /\ current = None
        /\ saved = [p \in Procs |-> IF p = InitProc THEN goto_trap_return(p) ELSE Dead]
      BY DEF Init
  <2>3. Roles
      BY <2>1, <2>2, Registers DEF Roles, Alive, Cont, Dead, goto_trap_return
  <2>4. ContextPages
      BY <2>1, <2>2, Registers DEF ContextPages, Alive, Cont, Dead, goto_trap_return
  <2>5. OwnKernelStack
      BY <2>2 DEF OwnKernelStack, Cont, Dead, goto_trap_return
  <2>6. OwnStackInCx
      BY <1>1, <2>1 DEF OwnStackInCx, app_init_context
  <2> QED
      BY <2>3, <2>4, <2>5, <2>6
<1>4. Owed /\ OwedSaved
  <2>1. area = [p \in Procs |-> IF p = InitProc THEN f ELSE None]
      BY <1>1 DEF Init
  <2> QED
      BY <1>1, <2>1, Registers DEF Init, Owed, OwedSaved, Regs, Cont, Dead, goto_trap_return,
         app_init_context
<1> QED
    BY <1>2, <1>3, <1>4 DEF IInv

\* The process on the hart is alive; unless it unmapped its context page in
\* this trap, it has it, and it is the one the kernel knows.
LEMMA HartHasContext ==
    ASSUME IInv, mode # "idle"
    PROVE  /\ current \in Procs /\ saved[current].phase = "running"
           /\ area[current] # None =>
                 area[current] \in Frames /\ ppn[current] = area[current] /\ page[current] = area[current]
           /\ mode \in {"user", "handler"} => area[current] # None
<1>1. current \in Procs /\ saved[current].phase = "running"
    BY Registers DEF IInv, Types, Roles
<1>2. Alive(current)
    BY <1>1 DEF Alive
<1> QED
    BY <1>1, <1>2 DEF IInv, Types, ContextPages

\* A process that is switched out has its context.
LEMMA SavedHasContext ==
    ASSUME IInv, NEW p \in Procs, saved[p].phase \in {"restore", "result"}
    PROVE  area[p] \in Frames /\ p # current /\ ppn[p] = area[p] /\ page[p] = area[p]
<1>1. Alive(p) /\ p # current
    BY DEF Alive, IInv, Roles
<1> QED
    BY <1>1 DEF IInv, Types, ContextPages

\* What a switched-out process is owed is kept by a step that leaves it, what
\* it is owed and its context alone.
Undisturbed(p) == /\ saved'[p] = saved[p] /\ expect'[p] = expect[p] /\ area'[p] = area[p]
                  /\ cx'[area[p]] = cx[area[p]]

LEMMA OwedStill ==
    ASSUME IInv, NEW p \in Procs, Undisturbed(p)
    PROVE  /\ saved'[p].phase = "restore" =>
                 Regs(cx'[area'[p]].sepc, cx'[area'[p]].a0) = expect'[p]
           /\ saved'[p].phase = "result" =>
                 Regs(cx'[area'[p]].sepc, saved'[p].result) = expect'[p]
    BY DEF Undisturbed, IInv, OwedSaved

\* Moving the program counter past the ecall changes the caller's context and
\* no other one.
LEMMA AdvancedCx ==
    ASSUME IInv, mode = "handler"
    PROVE  /\ Advanced \in [Frames -> Cxs]
           /\ Advanced[area[current]].sepc = regs.pc + 4
           /\ Advanced[area[current]].kernel_sp = current
           /\ \A g \in Frames : g # area[current] => Advanced[g] = cx[g]
<1> current \in Procs /\ area[current] \in Frames /\ ppn[current] = area[current]
    BY HartHasContext
<1>1. cx \in [Frames -> Cxs] /\ regs \in [pc : Nat, a0 : A0s]
    BY DEF IInv, Types
<1>2. /\ Regs(cx[area[current]].sepc, cx[area[current]].a0) = regs
      /\ cx[area[current]].kernel_sp = current
    BY Registers DEF IInv, Owed, OwnStackInCx, Types, Roles
<1>3. cx[area[current]].sepc = regs.pc
    BY <1>2 DEF Regs
<1>4. /\ Advanced[area[current]] = [cx[area[current]] EXCEPT !.sepc = regs.pc + 4]
      /\ \A g \in Frames : g # area[current] => Advanced[g] = cx[g]
      /\ Advanced = [g \in Frames |-> Advanced[g]]
    BY <1>1, <1>3 DEF Advanced, NextPc
<1>5. /\ Advanced[area[current]] \in Cxs
      /\ Advanced[area[current]].sepc = regs.pc + 4
      /\ Advanced[area[current]].kernel_sp = current
    BY <1>1, <1>2, <1>4 DEF Cxs
<1>6. \A g \in Frames : Advanced[g] \in Cxs
    BY <1>1, <1>4, <1>5
<1> QED
    BY <1>4, <1>5, <1>6

\* A new process gets a context page nobody has; only it and the caller's
\* context change.
LEMMA ChildContext ==
    ASSUME IInv, mode = "handler", NEW c \in Procs, NEW f \in Frames, NEW context \in Cxs,
           NewChild(c, f, context)
    PROVE  /\ c # current /\ f # area[current]
           /\ \A p \in Procs : area[p] # f
           /\ cx' \in [Frames -> Cxs]
           /\ cx'[f] = context
           /\ cx'[area[current]] = Advanced[area[current]]
           /\ \A g \in Frames : g # f /\ g # area[current] => cx'[g] = cx[g]
<1>1. /\ current \in Procs /\ area[current] \in Frames
      /\ saved[current].phase = "running"
    BY HartHasContext
<1>2. c # current /\ \A p \in Procs : area[p] # f
    BY <1>1 DEF NewChild, Free, Dead, Cont
<1>3. cx' = [Advanced EXCEPT ![f] = context]
    BY DEF NewChild
<1> QED
    BY <1>1, <1>2, <1>3, AdvancedCx

\* fork and spawn keep the invariant: the child is owed what its new context
\* holds, the caller the next instruction and the child's pid.
LEMMA NewChildIInv ==
    ASSUME IInv, mode = "handler", NEW c \in Procs, NEW f \in Frames, NEW context \in Cxs,
           NewChild(c, f, context), context.kernel_sp = c,
           expect' = [Expect(current, Pid) EXCEPT ![c] = Regs(context.sepc, context.a0)]
    PROVE  IInv'
<1>1. /\ current \in Procs /\ area[current] \in Frames
      /\ saved[current].phase = "running"
    BY HartHasContext
<1>2. /\ c # current /\ f # area[current]
      /\ \A p \in Procs : area[p] # f
      /\ cx' \in [Frames -> Cxs]
      /\ cx'[f] = context
      /\ cx'[area[current]].sepc = regs.pc + 4
      /\ cx'[area[current]].kernel_sp = current
      /\ \A g \in Frames : g # f /\ g # area[current] => cx'[g] = cx[g]
    BY ChildContext, AdvancedCx
<1>3. Types
    BY DEF IInv
<1>4. /\ page' = [page EXCEPT ![c] = f] /\ ppn' = [ppn EXCEPT ![c] = f] /\ area' = [area EXCEPT ![c] = f]
      /\ saved' = [saved EXCEPT ![c] = goto_trap_return(c)]
      /\ result' = Pid /\ mode' = "result" /\ f \in Free
      /\ saved[c] = Dead
      /\ UNCHANGED <<current, regs, cause, local, sp>>
    BY DEF NewChild
<1>5. /\ area'[c] = f /\ \A p \in Procs : p # c => area'[p] = area[p]
      /\ area' \in [Procs -> Frames \cup {None}]
      /\ page' \in [Procs -> Frames \cup {None}]
      /\ ppn' \in [Procs -> Frames \cup {None}]
      /\ page'[c] = f /\ ppn'[c] = f
      /\ \A p \in Procs : p # c => page'[p] = page[p] /\ ppn'[p] = ppn[p]
    BY <1>3, <1>4 DEF Types
<1>6. /\ saved'[c] = goto_trap_return(c) /\ \A p \in Procs : p # c => saved'[p] = saved[p]
    BY <1>3, <1>4 DEF Types
<1>7. /\ goto_trap_return(c) \in Conts
      /\ goto_trap_return(c).phase = "restore" /\ goto_trap_return(c).stack = c
    BY DEF goto_trap_return, Cont, Conts, A0s
<1>8. saved' \in [Procs -> Conts]
    BY <1>3, <1>4, <1>7 DEF Types
<1>9. /\ Regs(regs.pc + 4, Pid) \in [pc : Nat, a0 : A0s]
      /\ Regs(context.sepc, context.a0) \in [pc : Nat, a0 : A0s]
    BY <1>3 DEF Types, Regs, Cxs, A0s
<1>10. /\ expect'[c] = Regs(context.sepc, context.a0)
       /\ expect'[current] = Regs(regs.pc + 4, Pid)
       /\ \A p \in Procs : p # c /\ p # current => expect'[p] = expect[p]
       /\ expect' \in [Procs -> [pc : Nat, a0 : A0s]]
    BY <1>1, <1>2, <1>3, <1>9 DEF Types, Expect
<1>11. Pid \in A0s
    BY DEF A0s
<1>12. Types'
    BY <1>2, <1>3, <1>4, <1>5, <1>8, <1>10, <1>11 DEF Types
<1>13. Roles'
    BY <1>1, <1>2, <1>4, <1>5, <1>6, <1>7, Registers DEF IInv, Roles, Alive
<1>14. ContextPages'
  <2>1. ASSUME NEW p \in Procs, Alive(p)'
        PROVE  area'[p] # None /\ ppn'[p] = area'[p] /\ page'[p] = area'[p]
    <3>1. CASE p = c
        BY <1>5, <3>1, Registers
    <3>2. CASE p # c
      <4>1. Alive(p)
          BY <1>6, <2>1, <3>2 DEF Alive
      <4>2. area[p] # None /\ ppn[p] = area[p] /\ page[p] = area[p]
          BY <4>1 DEF IInv, ContextPages
      <4> QED
          BY <1>5, <3>2, <4>2
    <3> QED
        BY <3>1, <3>2
  <2>2. (\A p, q \in Procs : area[p] # None /\ area[p] = area[q] => p = q)'
      BY <1>2, <1>5 DEF IInv, ContextPages
  <2> QED
      BY <2>1, <2>2 DEF ContextPages
<1>15. OwnKernelStack'
    BY <1>4, <1>6, <1>7 DEF IInv, OwnKernelStack
<1>16. \A p \in Procs : p # c /\ p # current /\ area[p] # None => cx'[area'[p]] = cx[area[p]]
  <2> SUFFICES ASSUME NEW p \in Procs, p # c, p # current, area[p] # None
               PROVE  cx'[area'[p]] = cx[area[p]]
      OBVIOUS
  <2>1. area[p] \in Frames /\ area[p] # f /\ area[p] # area[current]
      BY <1>1, <1>2, <1>3 DEF IInv, Types, ContextPages
  <2> QED
      BY <1>2, <1>5, <2>1
<1>17. OwnStackInCx'
  <2> SUFFICES ASSUME NEW p \in Procs, area'[p] # None PROVE cx'[area'[p]].kernel_sp = p
      BY DEF OwnStackInCx
  <2>1. CASE p = c
      BY <1>2, <1>5, <2>1
  <2>2. CASE p = current
      BY <1>2, <1>5, <2>2
  <2>3. CASE p # c /\ p # current
      BY <1>5, <1>16, <2>3 DEF IInv, OwnStackInCx
  <2> QED
      BY <2>1, <2>2, <2>3
<1>18. Owed'
    BY <1>1, <1>2, <1>4, <1>5, <1>10 DEF Owed
<1>19. OwedSaved'
  <2> SUFFICES ASSUME NEW p \in Procs
               PROVE  /\ saved'[p].phase = "restore" =>
                            Regs(cx'[area'[p]].sepc, cx'[area'[p]].a0) = expect'[p]
                      /\ saved'[p].phase = "result" =>
                            Regs(cx'[area'[p]].sepc, saved'[p].result) = expect'[p]
      BY DEF OwedSaved
  <2>1. CASE p = c
      BY <1>2, <1>5, <1>6, <1>7, <1>10, <2>1
  <2>2. CASE p = current
      BY <1>1, <1>2, <1>6, <2>2
  <2>3. CASE p # c /\ p # current
    <3>1. saved[p].phase \in {"restore", "result"} => area[p] # None
        BY SavedHasContext, Registers
    <3> QED
        BY <1>6, <1>10, <1>16, <2>3, <3>1 DEF IInv, OwedSaved
  <2> QED
      BY <2>1, <2>2, <2>3
<1> QED
    BY <1>12, <1>13, <1>14, <1>15, <1>17, <1>18, <1>19 DEF IInv

\* Every step keeps the invariant: one case for each action.
LEMMA NextIInv == IInv /\ [Next]_vars => IInv'
<1> SUFFICES ASSUME IInv, [Next]_vars PROVE IInv'
    OBVIOUS
<1>1. ASSUME NEW pc \in Pcs, NEW a0 \in ArgA0, UserRun(pc, a0) PROVE IInv'
  <2>1. Types'
      BY <1>1, Registers DEF IInv, UserRun, Types, Regs, A0s
  <2>2. Roles'
      BY <1>1 DEF IInv, UserRun, Roles, Alive
  <2>3. ContextPages'
      BY <1>1 DEF IInv, UserRun, ContextPages, Alive, Free
  <2>4. OwnKernelStack'
      BY <1>1, Registers DEF IInv, UserRun, Types, Roles, OwnKernelStack,
         OwnStackInCx, Cont, Dead, Running
  <2>5. OwnStackInCx'
      BY <1>1 DEF IInv, UserRun, OwnStackInCx
  <2>6. Owed'
      BY <1>1 DEF IInv, UserRun, Types, Roles, Owed
  <2>7. OwedSaved'
      BY <1>1 DEF IInv, UserRun, Roles, OwedSaved
  <2> QED
      BY <2>1, <2>2, <2>3, <2>4, <2>5, <2>6, <2>7 DEF IInv
<1>2. ASSUME NEW why \in Causes, alltraps(why) PROVE IInv'
  <2>1. Types'
      BY <1>2, HartHasContext DEF IInv, alltraps, Types, Cxs
  <2>2. Roles'
      BY <1>2 DEF IInv, alltraps, Roles, Alive
  <2>3. ContextPages'
      BY <1>2, HartHasContext DEF IInv, alltraps, Types, ContextPages, Alive, Free
  <2>4. OwnKernelStack'
      BY <1>2, HartHasContext, Registers DEF IInv, alltraps, OwnKernelStack,
         OwnStackInCx
  <2>5. OwnStackInCx'
      BY <1>2 DEF IInv, alltraps, Types, OwnStackInCx
  <2>6. Owed'
      BY <1>2, HartHasContext DEF IInv, alltraps, Types, Owed, Regs
  <2>k. /\ current \in Procs /\ page[current] = area[current]
        /\ UNCHANGED <<saved, area, expect>>
        /\ \A g \in Frames : g # area[current] => cx'[g] = cx[g]
      BY <1>2, HartHasContext DEF alltraps, IInv, Types
  <2>7. OwedSaved'
    <3> SUFFICES ASSUME NEW p \in Procs, saved[p].phase \in {"restore", "result"}
                 PROVE  /\ saved'[p].phase = "restore" =>
                              Regs(cx'[area'[p]].sepc, cx'[area'[p]].a0) = expect'[p]
                        /\ saved'[p].phase = "result" =>
                              Regs(cx'[area'[p]].sepc, saved'[p].result) = expect'[p]
        BY <2>k DEF OwedSaved
    <3>1. p # current /\ area[p] \in Frames /\ area[p] # None
        BY SavedHasContext, Registers
    <3>2. area[p] # area[current]
        BY <2>k, <3>1 DEF IInv, ContextPages
    <3>3. Undisturbed(p)
        BY <2>k, <3>1, <3>2 DEF Undisturbed
    <3> QED
        BY <3>3, OwedStill
  <2> QED
      BY <2>1, <2>2, <2>3, <2>4, <2>5, <2>6, <2>7 DEF IInv
<1>3. CASE trap_return
  <2>1. Types'
      BY <1>3, HartHasContext DEF IInv, trap_return, Types, Regs, Cxs
  <2>2. Roles'
      BY <1>3 DEF IInv, trap_return, Roles, Alive
  <2>3. ContextPages'
      BY <1>3 DEF IInv, trap_return, ContextPages, Alive, Free
  <2>4. OwnKernelStack'
      BY <1>3 DEF IInv, trap_return, OwnKernelStack
  <2>5. OwnStackInCx'
      BY <1>3 DEF IInv, trap_return, OwnStackInCx
  <2>6. Owed'
    <3>1. mode = "restore" /\ current \in Procs /\ page[current] # None /\ Alive(current)
        BY <1>3, HartHasContext DEF trap_return, Alive
    <3>2. area[current] # None /\ page[current] = area[current]
        BY <3>1 DEF IInv, ContextPages
    <3>3. Regs(cx[area[current]].sepc, cx[area[current]].a0) = expect[current]
        BY <3>1, <3>2 DEF IInv, Owed
    <3> QED
        BY <1>3, <3>2, <3>3 DEF trap_return, Owed
  <2>7. OwedSaved'
      BY <1>3 DEF IInv, trap_return, OwedSaved
  <2> QED
      BY <2>1, <2>2, <2>3, <2>4, <2>5, <2>6, <2>7 DEF IInv
<1>4. ASSUME NEW p \in Procs, run_tasks(p) PROVE IInv'
  <2>1. Types'
      BY <1>4 DEF IInv, run_tasks, Types, Conts, A0s, Cont, Running
  <2>2. Roles'
      BY <1>4, Registers DEF IInv, run_tasks, Types, Roles, Alive, Cont, Running
  <2>3. ContextPages'
      BY <1>4 DEF IInv, run_tasks, ContextPages, Alive, Free
  <2>4. OwnKernelStack'
      BY <1>4 DEF IInv, run_tasks, OwnKernelStack, Cont, Running
  <2>5. OwnStackInCx'
      BY <1>4 DEF IInv, run_tasks, OwnStackInCx
  <2>6. Owed'
      BY <1>4 DEF IInv, run_tasks, Owed, OwedSaved
  <2>7. OwedSaved'
      BY <1>4 DEF IInv, run_tasks, OwedSaved, Cont, Running
  <2> QED
      BY <2>1, <2>2, <2>3, <2>4, <2>5, <2>6, <2>7 DEF IInv
<1>5. ASSUME NEW r \in {0, Failed}, syscall(r) PROVE IInv'
  <2>1. Types'
      BY <1>5, HartHasContext, AdvancedCx DEF IInv, syscall, Expect, Types, Regs, A0s
  <2>2. Roles'
      BY <1>5 DEF IInv, syscall, Roles, Alive
  <2>3. ContextPages'
      BY <1>5, HartHasContext, AdvancedCx DEF IInv, syscall, ContextPages, Alive, Free
  <2>4. OwnKernelStack'
      BY <1>5 DEF IInv, syscall, OwnKernelStack
  <2>5. OwnStackInCx'
      BY <1>5, HartHasContext, AdvancedCx DEF IInv, syscall, Types, OwnStackInCx
  <2>6. Owed'
      BY <1>5, HartHasContext, AdvancedCx DEF IInv, syscall, Expect, Types, Owed,
         OwedSaved
  <2>k. /\ current \in Procs
        /\ UNCHANGED <<saved, area>>
        /\ \A q \in Procs : q # current => expect'[q] = expect[q]
        /\ \A g \in Frames : g # area[current] => cx'[g] = cx[g]
      BY <1>5, HartHasContext, AdvancedCx DEF syscall, Expect, IInv, Types
  <2>7. OwedSaved'
    <3> SUFFICES ASSUME NEW p \in Procs, saved[p].phase \in {"restore", "result"}
                 PROVE  /\ saved'[p].phase = "restore" =>
                              Regs(cx'[area'[p]].sepc, cx'[area'[p]].a0) = expect'[p]
                        /\ saved'[p].phase = "result" =>
                              Regs(cx'[area'[p]].sepc, saved'[p].result) = expect'[p]
        BY <2>k DEF OwedSaved
    <3>1. p # current /\ area[p] \in Frames /\ area[p] # None
        BY SavedHasContext, Registers
    <3>2. area[p] # area[current]
        BY <2>k, <3>1 DEF IInv, ContextPages
    <3>3. Undisturbed(p)
        BY <2>k, <3>1, <3>2 DEF Undisturbed
    <3> QED
        BY <3>3, OwedStill
  <2> QED
      BY <2>1, <2>2, <2>3, <2>4, <2>5, <2>6, <2>7 DEF IInv
<1>6. ASSUME NEW r \in {0, 1}, sys_suspend(r) PROVE IInv'
  <2>k. /\ mode = "handler" /\ current \in Procs /\ saved[current].phase = "running"
        /\ area[current] \in Frames /\ area[current] # None
        /\ saved' = [saved EXCEPT ![current] = Cont("result", sp, local, r)]
        /\ expect' = [expect EXCEPT ![current] = Regs(regs.pc + 4, r)]
        /\ UNCHANGED <<area, ppn, page>>
      BY <1>6, HartHasContext, Registers DEF sys_suspend, SwitchOut, Handling, Expect
  <2>l. /\ saved'[current].phase = "result" /\ saved'[current].result = r
        /\ expect'[current] = Regs(regs.pc + 4, r)
        /\ \A q \in Procs : q # current => saved'[q] = saved[q] /\ expect'[q] = expect[q]
      BY <2>k DEF IInv, Types, Cont
  <2>m. /\ cx'[area[current]].sepc = regs.pc + 4
        /\ \A g \in Frames : g # area[current] => cx'[g] = cx[g]
      BY <1>6, <2>k, AdvancedCx DEF sys_suspend
  <2>1. Types'
      BY <1>6, HartHasContext, AdvancedCx DEF IInv, sys_suspend, SwitchOut, Handling,
         Expect, Types, Regs, Conts, A0s, Cont
  <2>2. Roles'
      BY <1>6, Registers DEF IInv, sys_suspend, SwitchOut, Types, Roles, Alive, Cont
  <2>3. ContextPages'
      BY <2>k, <2>l DEF IInv, ContextPages, Alive, Free
  <2>4. OwnKernelStack'
      BY <1>6 DEF IInv, sys_suspend, SwitchOut, Handling, OwnKernelStack, Cont
  <2>5. OwnStackInCx'
      BY <1>6, HartHasContext, AdvancedCx DEF IInv, sys_suspend, Handling, Types,
         OwnStackInCx
  <2>6. Owed'
      BY <1>6 DEF IInv, sys_suspend, SwitchOut, Owed
  <2>7. OwedSaved'
    <3> SUFFICES ASSUME NEW p \in Procs
                 PROVE  /\ saved'[p].phase = "restore" =>
                              Regs(cx'[area'[p]].sepc, cx'[area'[p]].a0) = expect'[p]
                        /\ saved'[p].phase = "result" =>
                              Regs(cx'[area'[p]].sepc, saved'[p].result) = expect'[p]
        BY DEF OwedSaved
    <3>1. CASE p = current
        BY <2>k, <2>l, <2>m, <3>1
    <3>2. CASE p # current /\ saved[p].phase \in {"restore", "result"}
      <4>1. area[p] \in Frames /\ area[p] # area[current]
          BY <2>k, <3>2, SavedHasContext DEF IInv, ContextPages
      <4>2. Undisturbed(p)
          BY <2>k, <2>l, <2>m, <3>2, <4>1 DEF Undisturbed
      <4> QED
          BY <4>2, OwedStill
    <3>3. CASE p # current /\ saved[p].phase \notin {"restore", "result"}
        BY <2>l, <3>3
    <3> QED
        BY <3>1, <3>2, <3>3
  <2> QED
      BY <2>1, <2>2, <2>3, <2>4, <2>5, <2>6, <2>7 DEF IInv
<1>7. ASSUME NEW c \in Procs, NEW f \in Frames, sys_fork(c, f) PROVE IInv'
  <2>1. mode = "handler" /\ NewChild(c, f, ChildCx(c))
      BY <1>7 DEF sys_fork, Handling
  <2>2. /\ ChildCx(c) \in Cxs /\ ChildCx(c).kernel_sp = c
        /\ ChildCx(c).sepc = regs.pc + 4 /\ ChildCx(c).a0 = 0
      BY <2>1, HartHasContext, AdvancedCx DEF ChildCx, Cxs, A0s
  <2>3. expect' = [Expect(current, Pid) EXCEPT ![c] = Regs(ChildCx(c).sepc, ChildCx(c).a0)]
      BY <1>7, <2>2 DEF sys_fork
  <2> QED
      BY <2>1, <2>2, <2>3, NewChildIInv
<1>8. ASSUME NEW c \in Procs, NEW f \in Frames, sys_spawn(c, f) PROVE IInv'
  <2>1. mode = "handler" /\ NewChild(c, f, app_init_context(c))
      BY <1>8 DEF sys_spawn, Handling
  <2>2. /\ app_init_context(c) \in Cxs /\ app_init_context(c).kernel_sp = c
        /\ app_init_context(c).sepc = Entry /\ app_init_context(c).a0 = 0
      BY Registers DEF app_init_context, Cxs, A0s
  <2>3. expect' = [Expect(current, Pid) EXCEPT
                      ![c] = Regs(app_init_context(c).sepc, app_init_context(c).a0)]
      BY <1>8, <2>2 DEF sys_spawn
  <2> QED
      BY <2>1, <2>2, <2>3, NewChildIInv
<1>9. ASSUME NEW f \in Frames, sys_exec(f) PROVE IInv'
  <2>a. /\ app_init_context(current) \in Cxs
        /\ app_init_context(current) = [sepc |-> Entry, a0 |-> 0, kernel_sp |-> current]
      BY <1>9, HartHasContext, Registers DEF sys_exec, Handling, app_init_context, Cxs, A0s
  <2>b. f # area[current] /\ \A p \in Procs : area[p] # f
      BY <1>9, HartHasContext DEF sys_exec, Handling, Free
  <2>d. /\ cx' \in [Frames -> Cxs]
        /\ cx'[f] = app_init_context(current)
        /\ \A g \in Frames : g # f /\ g # area[current] => cx'[g] = cx[g]
      BY <1>9, <2>a, <2>b, HartHasContext, AdvancedCx DEF sys_exec, Handling
  <2>k. /\ mode = "handler" /\ current \in Procs
        /\ area'[current] = f /\ ppn'[current] = f /\ page'[current] = f
        /\ \A q \in Procs : q # current => /\ area'[q] = area[q] /\ ppn'[q] = ppn[q]
                                           /\ page'[q] = page[q] /\ expect'[q] = expect[q]
        /\ UNCHANGED saved
      BY <1>9, HartHasContext DEF sys_exec, Handling, IInv, Types
  <2>1. Types'
      BY <1>9, <2>d, Registers DEF IInv, sys_exec, Types, Regs, A0s
  <2>2. Roles'
      BY <1>9, Registers DEF IInv, sys_exec, Handling, Roles, Alive
  <2>3. ContextPages'
    <3>1. ASSUME NEW p \in Procs, Alive(p)'
          PROVE  area'[p] # None /\ ppn'[p] = area'[p] /\ page'[p] = area'[p]
      <4>1. CASE p = current
          BY <2>k, <4>1, Registers
      <4>2. CASE p # current
        <5>1. Alive(p)
            BY <2>k, <3>1 DEF Alive
        <5> QED
            BY <2>k, <4>2, <5>1 DEF IInv, ContextPages
      <4> QED
          BY <4>1, <4>2
    <3>2. (\A p, q \in Procs : area[p] # None /\ area[p] = area[q] => p = q)'
        BY <2>b, <2>k DEF IInv, ContextPages
    <3> QED
        BY <3>1, <3>2 DEF ContextPages
  <2>4. OwnKernelStack'
      BY <1>9 DEF IInv, sys_exec, Handling, OwnKernelStack
  <2>5. OwnStackInCx'
      BY <1>9, <2>a, <2>b, <2>d, HartHasContext DEF IInv, sys_exec, Handling, Types,
         OwnStackInCx
  <2>6. Owed'
      BY <1>9, <2>a, <2>d, HartHasContext DEF IInv, sys_exec, Handling, Types, Owed
  <2>7. OwedSaved'
    <3> SUFFICES ASSUME NEW p \in Procs, saved[p].phase \in {"restore", "result"}
                 PROVE  /\ saved'[p].phase = "restore" =>
                              Regs(cx'[area'[p]].sepc, cx'[area'[p]].a0) = expect'[p]
                        /\ saved'[p].phase = "result" =>
                              Regs(cx'[area'[p]].sepc, saved'[p].result) = expect'[p]
        BY <2>k DEF OwedSaved
    <3>1. p # current /\ area[p] \in Frames /\ area[p] # None
        BY SavedHasContext, Registers
    <3>2. area[p] # area[current]
        BY <2>k, <3>1 DEF IInv, ContextPages
    <3>3. Undisturbed(p)
        BY <2>b, <2>d, <2>k, <3>1, <3>2 DEF Undisturbed
    <3> QED
        BY <3>3, OwedStill
  <2> QED
      BY <2>1, <2>2, <2>3, <2>4, <2>5, <2>6, <2>7 DEF IInv
<1>10. CASE WriteResult
  <2>c. current \in Procs /\ Alive(current)
      BY <1>10, HartHasContext DEF WriteResult, Alive
  <2>e. /\ ppn[current] \in Frames
        /\ \A q \in Procs : q # current => area[q] # ppn[current]
    <3>1. CASE area[current] # None
        BY <2>c, <3>1 DEF IInv, Types, ContextPages
    <3>2. CASE area[current] = None
      <4>1. ppn[current] \in Free
          BY <2>c, <3>2 DEF IInv, ContextPages
      <4> QED
          BY <4>1 DEF Free
    <3> QED
        BY <3>1, <3>2
  <2>a. [cx[ppn[current]] EXCEPT !.a0 = result] \in Cxs
      BY <2>e DEF IInv, Types, Cxs
  <2>b. cx' \in [Frames -> Cxs]
      BY <1>10, <2>a, <2>e DEF WriteResult, ResultFrame, IInv, Types
  <2>k. /\ UNCHANGED <<saved, area, expect>>
        /\ \A g \in Frames : g # ppn[current] => cx'[g] = cx[g]
      BY <1>10, <2>e DEF WriteResult, ResultFrame, IInv, Types
  <2>1. Types'
      BY <1>10, <2>b DEF IInv, WriteResult, Types
  <2>2. Roles'
      BY <1>10 DEF IInv, WriteResult, Roles, Alive
  <2>3. ContextPages'
      BY <1>10, HartHasContext DEF IInv, WriteResult, ResultFrame, ContextPages, Alive, Free
  <2>4. OwnKernelStack'
      BY <1>10 DEF IInv, WriteResult, OwnKernelStack
  <2>5. OwnStackInCx'
      BY <1>10 DEF IInv, WriteResult, OwnStackInCx
  <2>6. Owed'
      BY <1>10, <2>b, HartHasContext DEF IInv, WriteResult, ResultFrame, Owed
  <2>7. OwedSaved'
    <3> SUFFICES ASSUME NEW p \in Procs, saved[p].phase \in {"restore", "result"}
                 PROVE  /\ saved'[p].phase = "restore" =>
                              Regs(cx'[area'[p]].sepc, cx'[area'[p]].a0) = expect'[p]
                        /\ saved'[p].phase = "result" =>
                              Regs(cx'[area'[p]].sepc, saved'[p].result) = expect'[p]
        BY <2>k DEF OwedSaved
    <3>1. p # current /\ area[p] \in Frames
        BY SavedHasContext
    <3>2. Undisturbed(p)
        BY <2>e, <2>k, <3>1 DEF Undisturbed
    <3> QED
        BY <3>2, OwedStill
  <2> QED
      BY <2>1, <2>2, <2>3, <2>4, <2>5, <2>6, <2>7 DEF IInv
<1>11. CASE timer
  <2>k. /\ mode = "handler" /\ current \in Procs /\ saved[current].phase = "running"
        /\ area[current] # None
        /\ saved' = [saved EXCEPT ![current] = Cont("restore", sp, local, 0)]
        /\ UNCHANGED <<cx, area, ppn, page, expect>>
      BY <1>11, HartHasContext DEF timer, SwitchOut, Handling
  <2>l. /\ saved'[current].phase = "restore"
        /\ \A q \in Procs : q # current => saved'[q] = saved[q]
      BY <2>k DEF IInv, Types, Cont
  <2>1. Types'
      BY <1>11 DEF IInv, timer, SwitchOut, Types, Conts, A0s, Cont
  <2>2. Roles'
      BY <1>11, Registers DEF IInv, timer, SwitchOut, Types, Roles, Alive, Cont
  <2>3. ContextPages'
      BY <2>k, <2>l DEF IInv, ContextPages, Alive, Free
  <2>4. OwnKernelStack'
      BY <1>11 DEF IInv, timer, SwitchOut, Handling, OwnKernelStack, Cont
  <2>5. OwnStackInCx'
      BY <1>11 DEF IInv, timer, OwnStackInCx
  <2>6. Owed'
      BY <1>11 DEF IInv, timer, SwitchOut, Owed
  <2>7. OwedSaved'
    <3>1. Regs(cx[area[current]].sepc, cx[area[current]].a0) = expect[current]
        BY <2>k DEF IInv, Owed
    <3> QED
        BY <2>k, <2>l, <3>1 DEF IInv, OwedSaved
  <2> QED
      BY <2>1, <2>2, <2>3, <2>4, <2>5, <2>6, <2>7 DEF IInv
<1>12. CASE exit_current
  <2>a. /\ mode = "handler" /\ current \in Procs /\ area[current] \in Frames
        /\ area' = [area EXCEPT ![current] = None] /\ saved' = [saved EXCEPT ![current] = Zombie]
        /\ mode' = "idle" /\ current' = None /\ sp' = None
        /\ UNCHANGED <<regs, cause, local, result, ppn, page, expect>>
      BY <1>12, HartHasContext DEF exit_current, SwitchOut
  <2>b. cx' \in [Frames -> Cxs] /\ \A g \in Frames : g # area[current] => cx'[g] = cx[g]
      BY <1>12, <2>a, AdvancedCx DEF exit_current, IInv, Types
  <2>c. /\ area'[current] = None /\ saved'[current] = Zombie
        /\ \A p \in Procs : p # current => area'[p] = area[p] /\ saved'[p] = saved[p]
        /\ Zombie.phase = "zombie"
      BY <2>a DEF IInv, Types, Zombie, Cont
  <2>1. Types'
      BY <2>a, <2>b DEF IInv, Types, Conts, A0s, Cont, Zombie
  <2>2. Roles'
      BY <2>a, <2>c, Registers DEF IInv, Types, Roles, Alive
  <2>3. ContextPages'
      BY <2>a, <2>c DEF IInv, ContextPages, Alive
  <2>4. OwnKernelStack'
      BY <2>a, <2>c DEF IInv, OwnKernelStack
  <2>5. OwnStackInCx'
    <3> SUFFICES ASSUME NEW p \in Procs, area'[p] # None PROVE cx'[area'[p]].kernel_sp = p
        BY DEF OwnStackInCx
    <3>1. p # current /\ area'[p] = area[p] /\ area[p] \in Frames /\ area[p] # area[current]
        BY <2>a, <2>c DEF IInv, Types, ContextPages
    <3> QED
        BY <2>b, <3>1 DEF IInv, OwnStackInCx
  <2>6. Owed'
      BY <2>a DEF Owed
  <2>7. OwedSaved'
    <3> SUFFICES ASSUME NEW p \in Procs
                 PROVE  /\ saved'[p].phase = "restore" =>
                              Regs(cx'[area'[p]].sepc, cx'[area'[p]].a0) = expect'[p]
                        /\ saved'[p].phase = "result" =>
                              Regs(cx'[area'[p]].sepc, saved'[p].result) = expect'[p]
        BY DEF OwedSaved
    <3>1. CASE p = current
        BY <2>c, <3>1
    <3>2. CASE p # current /\ saved[p].phase \in {"restore", "result"}
      <4>1. area[p] \in Frames /\ area[p] # area[current] /\ area[p] # None
          BY <2>a, <3>2, SavedHasContext, Registers DEF IInv, ContextPages
      <4> QED
          BY <2>a, <2>b, <2>c, <3>2, <4>1 DEF IInv, OwedSaved
    <3>3. CASE p # current /\ saved[p].phase \notin {"restore", "result"}
        BY <2>c, <3>3
    <3> QED
        BY <3>1, <3>2, <3>3
  <2> QED
      BY <2>1, <2>2, <2>3, <2>4, <2>5, <2>6, <2>7 DEF IInv
<1>13. CASE sys_munmap
  <2>a. /\ mode = "handler" /\ current \in Procs /\ area[current] \in Frames /\ ppn[current] = area[current]
        /\ page' = [page EXCEPT ![current] = None] /\ area' = [area EXCEPT ![current] = None]
        /\ cx' = Advanced /\ result' = 0 /\ mode' = "result" /\ expect' = Expect(current, 0)
        /\ UNCHANGED <<current, regs, cause, local, sp, saved, ppn>>
      BY <1>13, HartHasContext DEF sys_munmap, Handling
  <2>b. cx' \in [Frames -> Cxs] /\ \A g \in Frames : g # area[current] => cx'[g] = cx[g]
      BY <2>a, AdvancedCx
  <2>c. /\ area'[current] = None /\ page'[current] = None
        /\ \A p \in Procs : p # current => area'[p] = area[p] /\ page'[p] = page[p]
      BY <2>a DEF IInv, Types
  <2>d. \A p \in Procs : p # current => expect'[p] = expect[p]
      BY <2>a DEF IInv, Types, Expect
  <2>1. Types'
      BY <2>a, <2>b DEF IInv, Types, Expect, Regs, A0s
  <2>2. Roles'
      BY <2>a, <2>c, Registers DEF IInv, Roles, Alive
  <2>3. ContextPages'
    <3>1. \A p \in Procs : area'[p] # area[current]
        BY <2>a, <2>c, Registers DEF IInv, ContextPages
    <3>2. area[current] \in Free'
        BY <2>a, <3>1 DEF Free
    <3>3. ASSUME NEW p \in Procs, Alive(p)'
          PROVE  IF area'[p] # None
                 THEN ppn'[p] = area'[p] /\ page'[p] = area'[p]
                 ELSE /\ p = current' /\ mode' \in {"result", "restore", "hung"}
                      /\ page'[p] = None /\ ppn'[p] \in Free'
      <4>1. CASE p = current
          BY <2>a, <2>c, <3>2, <4>1
      <4>2. CASE p # current
        <5>1. Alive(p)
            BY <2>a, <3>3 DEF Alive
        <5> QED
            BY <2>a, <2>c, <4>2, <5>1 DEF IInv, ContextPages
      <4> QED
          BY <4>1, <4>2
    <3>4. (\A p, q \in Procs : area[p] # None /\ area[p] = area[q] => p = q)'
        BY <2>c DEF IInv, ContextPages
    <3> QED
        BY <3>3, <3>4 DEF ContextPages
  <2>4. OwnKernelStack'
      BY <2>a DEF IInv, OwnKernelStack
  <2>5. OwnStackInCx'
    <3> SUFFICES ASSUME NEW p \in Procs, area'[p] # None PROVE cx'[area'[p]].kernel_sp = p
        BY DEF OwnStackInCx
    <3>1. p # current /\ area'[p] = area[p] /\ area[p] \in Frames /\ area[p] # area[current]
        BY <2>a, <2>c DEF IInv, Types, ContextPages
    <3> QED
        BY <2>b, <3>1 DEF IInv, OwnStackInCx
  <2>6. Owed'
      BY <2>a, <2>c DEF Owed
  <2>7. OwedSaved'
    <3> SUFFICES ASSUME NEW p \in Procs, saved[p].phase \in {"restore", "result"}
                 PROVE  /\ saved'[p].phase = "restore" =>
                              Regs(cx'[area'[p]].sepc, cx'[area'[p]].a0) = expect'[p]
                        /\ saved'[p].phase = "result" =>
                              Regs(cx'[area'[p]].sepc, saved'[p].result) = expect'[p]
        BY <2>a DEF OwedSaved
    <3>1. p # current /\ area[p] \in Frames /\ area[p] # area[current]
        BY <2>a, SavedHasContext, Registers DEF IInv, ContextPages
    <3> QED
        BY <2>a, <2>b, <2>c, <2>d, <3>1 DEF IInv, OwedSaved
  <2> QED
      BY <2>1, <2>2, <2>3, <2>4, <2>5, <2>6, <2>7 DEF IInv
<1>14. ASSUME NEW c \in Procs, sys_waitpid(c) PROVE IInv'
  <2>a. /\ mode = "handler" /\ current \in Procs /\ area[current] \in Frames
        /\ saved[c] = Zombie /\ saved[current].phase = "running"
        /\ cx' = Advanced /\ result' = Pid /\ mode' = "result" /\ expect' = Expect(current, Pid)
        /\ saved' = [saved EXCEPT ![c] = Dead]
        /\ page' = [page EXCEPT ![c] = None] /\ ppn' = [ppn EXCEPT ![c] = None]
        /\ UNCHANGED <<current, regs, cause, local, sp, area>>
      BY <1>14, HartHasContext DEF sys_waitpid, Handling
  <2>b. /\ cx' \in [Frames -> Cxs] /\ \A g \in Frames : g # area[current] => cx'[g] = cx[g]
        /\ cx'[area[current]].sepc = regs.pc + 4 /\ cx'[area[current]].kernel_sp = current
      BY <2>a, AdvancedCx
  <2>c. /\ c # current /\ saved'[c] = Dead /\ Dead.phase = "dead" /\ saved[c].phase = "zombie"
        /\ \A p \in Procs : p # c => saved'[p] = saved[p] /\ page'[p] = page[p] /\ ppn'[p] = ppn[p]
      BY <2>a DEF IInv, Types, Zombie, Dead, Cont
  <2>d. /\ expect'[current] = Regs(regs.pc + 4, Pid)
        /\ \A p \in Procs : p # current => expect'[p] = expect[p]
      BY <2>a DEF IInv, Types, Expect
  <2>1. Types'
      BY <2>a, <2>b DEF IInv, Types, Expect, Regs, A0s, Conts, Dead, Cont
  <2>2. Roles'
      BY <2>a, <2>c, Registers DEF IInv, Roles, Alive
  <2>3. ContextPages'
    <3>1. ASSUME NEW p \in Procs, Alive(p)'
          PROVE  area'[p] # None /\ ppn'[p] = area'[p] /\ page'[p] = area'[p]
      <4>1. p # c /\ Alive(p)
          BY <2>c, <3>1 DEF Alive
      <4> QED
          BY <2>a, <2>c, <4>1 DEF IInv, ContextPages
    <3>2. (\A p, q \in Procs : area[p] # None /\ area[p] = area[q] => p = q)'
        BY <2>a DEF IInv, ContextPages
    <3> QED
        BY <3>1, <3>2 DEF ContextPages
  <2>4. OwnKernelStack'
      BY <2>a, <2>c DEF IInv, OwnKernelStack
  <2>5. OwnStackInCx'
    <3> SUFFICES ASSUME NEW p \in Procs, area[p] # None PROVE cx'[area[p]].kernel_sp = p
        BY <2>a DEF OwnStackInCx
    <3>1. CASE p = current
        BY <2>b, <3>1
    <3>2. CASE p # current
      <4>1. area[p] \in Frames /\ area[p] # area[current]
          BY <2>a, <3>2 DEF IInv, Types, ContextPages
      <4> QED
          BY <2>b, <4>1 DEF IInv, OwnStackInCx
    <3> QED
        BY <3>1, <3>2
  <2>6. Owed'
      BY <2>a, <2>b, <2>d DEF Owed
  <2>7. OwedSaved'
    <3> SUFFICES ASSUME NEW p \in Procs
                 PROVE  /\ saved'[p].phase = "restore" =>
                              Regs(cx'[area'[p]].sepc, cx'[area'[p]].a0) = expect'[p]
                        /\ saved'[p].phase = "result" =>
                              Regs(cx'[area'[p]].sepc, saved'[p].result) = expect'[p]
        BY DEF OwedSaved
    <3>1. CASE p = c
        BY <2>c, <3>1
    <3>2. CASE p # c /\ saved[p].phase \in {"restore", "result"}
      <4>1. p # current /\ area[p] \in Frames /\ area[p] # area[current]
          BY <2>a, <3>2, SavedHasContext, Registers DEF IInv, ContextPages
      <4> QED
          BY <2>a, <2>b, <2>c, <2>d, <3>2, <4>1 DEF IInv, OwedSaved
    <3>3. CASE p # c /\ saved[p].phase \notin {"restore", "result"}
        BY <2>c, <3>3
    <3> QED
        BY <3>1, <3>2, <3>3
  <2> QED
      BY <2>1, <2>2, <2>3, <2>4, <2>5, <2>6, <2>7 DEF IInv
<1>15. CASE restore_fault
  <2>1. Types'
      BY <1>15 DEF IInv, restore_fault, Types
  <2>2. Roles'
      BY <1>15 DEF IInv, restore_fault, Roles, Alive
  <2>3. ContextPages'
      BY <1>15 DEF IInv, restore_fault, ContextPages, Alive, Free
  <2>4. OwnKernelStack' /\ OwnStackInCx' /\ Owed' /\ OwedSaved'
      BY <1>15 DEF IInv, restore_fault, OwnKernelStack, OwnStackInCx, Owed, OwedSaved
  <2> QED
      BY <2>1, <2>2, <2>3, <2>4 DEF IInv
<1>16. CASE UNCHANGED vars
    BY <1>16 DEF IInv, vars, Types, Roles, ContextPages, OwnKernelStack, OwnStackInCx,
       Owed, OwedSaved, Free, Alive
<1>17. CASE Halted
    BY <1>16, <1>17 DEF Halted
<1> QED
    BY <1>1, <1>2, <1>3, <1>4, <1>5, <1>6, <1>7, <1>8, <1>9, <1>10, <1>11, <1>12, <1>13,
       <1>14, <1>15, <1>16, <1>17
    DEF Next

\* The invariant holds in every reachable state.
THEOREM Invariance == Spec => []IInv
    BY InitIInv, NextIInv, PTL DEF Spec

\* trap/mod.rs, trap/trap.S: whatever traps, switches, forks, execs and exits
\* happen in between, user code resumes with exactly the program counter and
\* the a0 it is owed.
THEOREM UserResumesExactly == Spec => []ResumeExact
<1>1. IInv => ResumeExact
    BY DEF IInv, Owed, ResumeExact
<1> QED
    BY <1>1, Invariance, PTL

\* task/task.rs, trap/mod.rs: no two processes share a context page or trap
\* onto one kernel stack; trap_cx_ppn is the page that is mapped and owned, or,
\* once its process has unmapped that page, a frame nobody has, and x10 is
\* written nowhere else.
THEOREM KernelEntryIsSound == Spec => []KernelEntrySound
<1>1. ASSUME IInv PROVE KernelEntrySound
  <2>1. ResultTarget
    <3> SUFFICES ASSUME mode = "result"
                 PROVE  ppn[current] = area[current] \/ (area[current] = None /\ ppn[current] \in Free)
        BY DEF ResultTarget, ResultFrame
    <3>1. current \in Procs /\ Alive(current)
        BY <1>1, HartHasContext DEF Alive
    <3> QED
        BY <1>1, <3>1 DEF IInv, ContextPages
  <2> QED
      BY <1>1, <2>1 DEF IInv, KernelEntrySound
<1> QED
    BY <1>1, Invariance, PTL
=============================================================================
