---------------------------- MODULE PidAllocator ----------------------------
(***************************************************************************)
(* PidAllocator, PidHandle and KernelStack (task/pid.rs): process          *)
(* identifiers with RAII handles, and the kernel stack of each process in  *)
(* KERNEL_SPACE, placed below the trampoline by the process identifier.    *)
(*                                                                         *)
(* Addresses are counted in pages.  A TaskControlBlock owns one PidHandle  *)
(* and one KernelStack, so the two are created together (TcbNew) and       *)
(* dropped together (TcbDrop), the handle first: fields drop in the order  *)
(* of their declaration.  No step follows a panic (lang_item.rs).          *)
(***************************************************************************)
EXTENDS Integers, Sequences, FiniteSets

CONSTANTS Trampoline,   \* page number of the trampoline, the last page
          KernelEnd,    \* first page above the identity-mapped kernel
          MaxPids       \* bound: processes alive at the same time

KernelStackPages == 2   \* KERNEL_STACK_SIZE / PAGE_SIZE

\* The address space below the trampoline has room for MaxPids stacks.
ASSUME PidBounds == /\ MaxPids \in Nat \ {0}
                    /\ KernelEnd \in Nat
                    /\ Trampoline \in Nat
                    /\ KernelEnd + MaxPids * 3 < Trampoline

VARIABLES current, recycled,  \* the fields of PidAllocator
          live,               \* pids of the TCBs that exist
          areas,              \* KERNEL_SPACE's framed areas, as <<start, end>>
          mapped,             \* valid entries of the kernel page table
          peak,               \* history: most TCBs that ever existed at once
          fault               \* the panic that stopped the kernel

vars == <<current, recycled, live, areas, mapped, peak, fault>>

Pids == 0 .. (MaxPids - 1)
Faults == {"none", "dealloc", "map", "unmap"}

TypeOK == /\ current \in Nat
          /\ recycled \in Seq(Nat)
          /\ live \subseteq Nat
          /\ areas \subseteq (Int \X Int)
          /\ mapped \subseteq Int
          /\ peak \in Nat
          /\ fault \in Faults

Recycled == {recycled[i] : i \in 1..Len(recycled)}

-----------------------------------------------------------------------------
\* Mutant: the stacks are packed without the guard page between them.
kernel_stack_position_packed(pid) ==
    [bottom |-> Trampoline - pid * 2 - 2, top |-> Trampoline - pid * 2]

kernel_stack_position(pid) ==
    [bottom |-> Trampoline - pid * (KernelStackPages + 1) - KernelStackPages,
     top    |-> Trampoline - pid * (KernelStackPages + 1)]

StackPages(pid) ==
    kernel_stack_position(pid).bottom .. (kernel_stack_position(pid).top - 1)

AllocPid == IF recycled # <<>> THEN recycled[Len(recycled)] ELSE current

\* Mutant: the recycled identifier stays in the pool.
AllocUpdate_peek == IF recycled # <<>>
                    THEN UNCHANGED <<current, recycled>>
                    ELSE current' = current + 1 /\ UNCHANGED recycled

\* Mutant: a recycled identifier is used, and current counts it again.
AllocUpdate_grow == /\ current' = current + 1
                    /\ recycled' = IF recycled = <<>> THEN <<>>
                                   ELSE SubSeq(recycled, 1, Len(recycled) - 1)

AllocUpdate == IF recycled # <<>>
               THEN /\ recycled' = SubSeq(recycled, 1, Len(recycled) - 1)
                    /\ UNCHANGED current
               ELSE /\ current' = current + 1
                    /\ UNCHANGED recycled

Init == /\ current = 0
        /\ recycled = <<>>
        /\ live = {}
        /\ areas = {}
        /\ mapped = 0 .. (KernelEnd - 1) \cup {Trampoline}
        /\ peak = 0
        /\ fault = "none"

\* pid_alloc, then KernelStack::new: insert_framed_area maps page by page
\* and PageTable::map asserts that the page is not mapped yet.
TcbNew ==
    /\ fault = "none"
    /\ Cardinality(live) < MaxPids
    /\ AllocUpdate
    /\ live' = live \cup {AllocPid}
    /\ peak' = IF Cardinality(live') > peak THEN Cardinality(live') ELSE peak
    /\ IF StackPages(AllocPid) \cap mapped # {}
       THEN /\ fault' = "map"
            /\ UNCHANGED <<areas, mapped>>
       ELSE /\ mapped' = mapped \cup StackPages(AllocPid)
            /\ areas' = areas \cup {<<kernel_stack_position(AllocPid).bottom,
                                      kernel_stack_position(AllocPid).top>>}
            /\ UNCHANGED fault

\* remove_area_with_start_vpn: the area that starts there, if any (two
\* areas with one start cannot be pushed), is unmapped page by page, which
\* PageTable::unmap asserts to be possible, and removed.
RemoveArea(start) ==
    LET old   == {a \in areas : a[1] = start}
        pages == UNION {a[1] .. (a[2] - 1) : a \in old}
    IN  /\ areas' = areas \ old
        /\ mapped' = mapped \ pages
        /\ fault' = IF pages \subseteq mapped THEN fault ELSE "unmap"

\* Mutant: the stack is looked up by its top.
TcbDrop_top(pid) ==
    /\ fault = "none"
    /\ live' = live \ {pid}
    /\ recycled' = Append(recycled, pid)
    /\ RemoveArea(kernel_stack_position(pid).top)
    /\ UNCHANGED <<current, peak>>

\* Drop of a TaskControlBlock: PidHandle::drop (dealloc and its assertions),
\* then KernelStack::drop.
TcbDrop(pid) ==
    /\ fault = "none"
    /\ live' = live \ {pid}
    /\ IF pid < current /\ pid \notin Recycled
       THEN /\ recycled' = Append(recycled, pid)
            /\ RemoveArea(kernel_stack_position(pid).bottom)
       ELSE /\ fault' = "dealloc"
            /\ UNCHANGED <<recycled, areas, mapped>>
    /\ UNCHANGED <<current, peak>>

Next == \/ TcbNew
        \/ \E pid \in live : TcbDrop(pid)

Spec == Init /\ [][Next]_vars

-----------------------------------------------------------------------------
\* Every identifier below current belongs to one TCB or is recycled once
\* (alloc, dealloc): none is lost, none is given to two processes.
PidsPartitioned ==
    /\ live \cup Recycled = 0 .. (current - 1)
    /\ live \cap Recycled = {}
    /\ \A i, j \in 1..Len(recycled) : recycled[i] = recycled[j] => i = j

\* The assertions of dealloc, of PageTable::map and of PageTable::unmap never
\* fire, although an identifier returns to the pool before its stack is gone.
NoPidPanic == fault = "none"

\* The kernel page table maps the stacks of exactly the processes that exist:
\* no stack of a dead process stays mapped, none of a live one is missing
\* (KernelStack::new and drop find the area again by its start page only).
StacksFollowProcesses ==
    mapped = 0 .. (KernelEnd - 1) \cup {Trampoline} \cup UNION {StackPages(p) : p \in live}

\* Below every kernel stack there is an unmapped guard page and no stack
\* overlaps another one or the trampoline (kernel_stack_position).
StacksIsolated ==
    \A p \in live :
       /\ kernel_stack_position(p).bottom - 1 \notin mapped
       /\ Trampoline \notin StackPages(p)
       /\ \A q \in live : p # q => StackPages(p) \cap StackPages(q) = {}

\* Identifiers, and with them the kernel's stack region, grow only when more
\* processes exist at once than ever before: alloc prefers recycled ones.
PidsAreDense == current = peak

\* The allocator implements the abstract pool of identifiers: a process gets
\* an identifier that no existing process has.
Pool == INSTANCE IdPool WITH Ids <- Pids, used <- live, refused <- FALSE

ImplementsPool == Pool!Spec
=============================================================================
