---------------------------- MODULE AddressSpace ----------------------------
(***************************************************************************)
(* User address spaces: MemorySet and MapArea (mm/memory_set.rs) and the   *)
(* calls that change them: mmap, munmap, sbrk, fork, exec, spawn, exit and *)
(* the parent's wait.  The kernel runs with interrupts off, so each call   *)
(* is one step; user stores interleave with them.                          *)
(*                                                                         *)
(* The page table is the flat map that module PageTable shows the SV39     *)
(* tree to implement.  Which free frame frame_alloc returns is the concern *)
(* of module FrameAllocator: here a call takes the lowest free frames, so  *)
(* a freed frame is reused at once.  The frames of the page table itself   *)
(* are not counted.  A failed assertion or unwrap is a fault, after which  *)
(* the kernel is down and no step follows.                                 *)
(***************************************************************************)
EXTENDS Integers, FiniteSets, Sequences

CONSTANTS Procs, InitProc,
          Frames,        \* PhysPageNums of the allocator
          PageSize,      \* bytes of a page
          VPages,        \* pages of the 39-bit address space
          StackPages,    \* USER_STACK_SIZE / PAGE_SIZE
          Apps,          \* programs; a program is the page count of its image
          InitApp,       \* the program of INITPROC
          StorePages,    \* pages user code stores to
          MmapCalls,     \* (start, len, port) arguments of mmap, in bytes
          MunmapCalls,   \* (start, len) arguments of munmap
          SbrkSizes      \* arguments of sbrk

ASSUME Layout == /\ InitProc \in Procs
                 /\ Frames \subseteq Nat /\ IsFiniteSet(Frames)
                 /\ PageSize \in Nat \ {0}
                 /\ VPages \in Nat
                 /\ StackPages \in Nat \ {0}
                 /\ Apps \subseteq Nat \ {0}
                 /\ InitApp \in Apps
                 /\ StorePages \subseteq Nat
                 /\ \A a \in Apps : a + StackPages + 4 <= VPages
                 /\ MmapCalls \subseteq [start : Nat, len : Nat, port : Nat]
                 /\ MunmapCalls \subseteq [start : Nat, len : Nat]
                 /\ SbrkSizes \subseteq Int

\* The machine has the memory to load INITPROC; otherwise it never starts.
ASSUME Boots == InitApp + StackPages + 1 <= Cardinality(Frames)

VARIABLES state,        \* "none", "live" or "zombie"
          areas,        \* memory_set.areas: Vec<MapArea>
          ptes,         \* memory_set.page_table: the valid leaf entries
          heap_bottom, program_brk,
          free,         \* frames of the allocator nobody holds
          data,         \* contents of every frame
          tame,         \* history: the process kept to the calls' contract
          fault         \* the panic that stopped the kernel

vars == <<state, areas, ptes, heap_bottom, program_brk, free, data, tame, fault>>

Trampoline == VPages - 1
TrapContext == VPages - 2
Vpns == 0 .. (VPages - 1)
Perms == SUBSET {"U", "R", "W", "X"}
\* A frame nobody holds has whatever its last owner left in it: "junk".
Contents == {"zero", "image", "cx", "mark", "junk"}
Faults == {"none", "exhausted", "mapped", "range"}

TypeOK ==
    /\ state \in [Procs -> {"none", "live", "zombie"}]
    /\ \A p \in Procs : \A i \in DOMAIN areas[p] :
          LET a == areas[p][i] IN
             /\ a.start \in Nat /\ a.end \in Nat /\ a.start <= a.end
             /\ a.perm \in Perms
             /\ a.frames \in [a.start .. (a.end - 1) -> Frames]
    /\ \A p \in Procs : /\ DOMAIN ptes[p] \subseteq Vpns
                        /\ \A v \in DOMAIN ptes[p] :
                              ptes[p][v] \in [ppn : Frames, perm : Perms]
    /\ heap_bottom \in [Procs -> Nat]
    /\ program_brk \in [Procs -> Nat]
    /\ \A p \in Procs : heap_bottom[p] <= program_brk[p]
    /\ free \subseteq Frames
    /\ data \in [Frames -> Contents]
    /\ tame \in [Procs -> BOOLEAN]
    /\ fault \in Faults

-----------------------------------------------------------------------------
(* Addresses.  VirtAddr::from keeps the low 39 bits.                       *)

VirtAddr(a) == a % (VPages * PageSize)
floor(va) == va \div PageSize
ceil(va) == (va + PageSize - 1) \div PageSize

\* The pages of a VPNRange; its constructor asserts s <= e.
VPNRange(s, e) == s .. (e - 1)

-----------------------------------------------------------------------------
(* MapArea and the page table of one process.                              *)

\* How many members of S are at most x, and the member of which there are n.
Rank(S, x) == Cardinality({y \in S : y <= x})
Nth(S, n) == CHOOSE x \in S : Rank(S, x) = n

\* frame_alloc for every page of V, out of the free frames F.
AllocFrames(V, F) == [v \in V |-> Nth(F, Rank(V, v))]

\* Vec::retain: the areas with an index in K, in their order.
Retain(as, K) == [n \in 1 .. Cardinality(K) |-> as[Nth(K, n)]]

MapArea(s, e, perm, alloc) ==
    [start |-> s, end |-> e, perm |-> perm,
     frames |-> [v \in VPNRange(s, e) |-> alloc[v]]]

Pages(as) == UNION {DOMAIN as[i].frames : i \in DOMAIN as}
Owned(as) == UNION {{as[i].frames[v] : v \in DOMAIN as[i].frames} : i \in DOMAIN as}

\* The leaf entries after the areas were mapped into a bare table (map_one).
TableOf(as) ==
    [v \in Pages(as) |->
        LET i == CHOOSE j \in DOMAIN as : v \in DOMAIN as[j].frames
        IN  [ppn |-> as[i].frames[v], perm |-> as[i].perm]]

\* Entries added to a table, and the pages V taken out of it (unmap_one).
Merge(f, g) == [v \in DOMAIN f \cup DOMAIN g |-> IF v \in DOMAIN g THEN g[v] ELSE f[v]]
Without(f, V) == [v \in DOMAIN f \ V |-> f[v]]

\* The first area that starts at vpn, or 0 (the find of shrink_to, append_to).
FindArea(as, vpn) ==
    LET S == {i \in DOMAIN as : as[i].start = vpn}
    IN  IF S = {} THEN 0 ELSE CHOOSE i \in S : \A j \in S : i <= j

\* FrameTracker::new clears the frames it is given.
Zeroed(fs) == [f \in Frames |-> IF f \in fs THEN "zero" ELSE data[f]]

Junked(D, fs) == [f \in Frames |-> IF f \in fs THEN "junk" ELSE D[f]]

\* Pages the process sees as valid; map_trampoline adds the topmost one.
Mapped(p) == DOMAIN ptes[p] \cup {Trampoline}

-----------------------------------------------------------------------------
(* MemorySet::from_elf: image, guard page, stack, empty heap area, trap    *)
(* context; F is the free frames, D the contents before.                   *)

UserSp(app) == (app + 1 + StackPages) * PageSize

ElfPages(app) == VPNRange(0, app) \cup VPNRange(app + 1, app + 1 + StackPages)
                                  \cup {TrapContext}

from_elf(app, F) ==
    LET fr == AllocFrames(ElfPages(app), F)
        top == floor(UserSp(app))
        text == << MapArea(0, 1, {"U", "R", "X"}, fr) >>
        image == IF app = 1 THEN text ELSE Append(text, MapArea(1, app, {"U", "R", "W"}, fr))
        stack == Append(image, MapArea(app + 1, top, {"U", "R", "W"}, fr))
        heap == Append(stack, MapArea(top, top, {"U", "R", "W"}, fr))
    IN  Append(heap, MapArea(TrapContext, Trampoline, {"R", "W"}, fr))

\* The frames are cleared, the image is copied, the trap context written.
ElfContent(app, v) == CASE v < app -> "image"
                        [] v = TrapContext -> "cx"
                        [] OTHER -> "zero"

ElfData(app, as, D) ==
    LET t == TableOf(as)
    IN  [f \in Frames |-> IF f \in Owned(as)
                          THEN ElfContent(app, CHOOSE v \in Pages(as) : t[v].ppn = f)
                          ELSE D[f]]

-----------------------------------------------------------------------------
(* MemorySet::from_existed_user: every area again, on frames of its own.   *)

\* Mutant: the child's area keeps the parent's frames.
from_another_shared(a, alloc) == a

\* MapArea::from_another and map: same range and permission, new frames.
from_another(a, alloc) == MapArea(a.start, a.end, a.perm, alloc)

from_existed_user(as) ==
    LET fr == AllocFrames(Pages(as), free)
    IN  [i \in DOMAIN as |-> from_another(as[i], fr)]

\* Mutant: the areas are pushed but the contents are not copied.
CopiedData_none(src, dst) == Zeroed(Owned(dst))

\* The page-by-page copy; the parent is read through its page table.
CopiedData(src, dst) ==
    LET t == TableOf(dst)
    IN  [f \in Frames |-> IF f \in Owned(dst)
                          THEN data[src[CHOOSE v \in Pages(dst) : t[v].ppn = f].ppn]
                          ELSE data[f]]

-----------------------------------------------------------------------------
NoTable == [v \in {} |-> 0]

\* add_initproc has built INITPROC; nothing else has run.
Init ==
    /\ state = [p \in Procs |-> IF p = InitProc THEN "live" ELSE "none"]
    /\ tame = [p \in Procs |-> TRUE]
    /\ fault = "none"
    /\ LET as == from_elf(InitApp, Frames)
       IN    /\ areas = [p \in Procs |-> IF p = InitProc THEN as ELSE <<>>]
             /\ ptes = [p \in Procs |-> IF p = InitProc THEN TableOf(as) ELSE NoTable]
             /\ heap_bottom = [p \in Procs |-> IF p = InitProc THEN UserSp(InitApp) ELSE 0]
             /\ program_brk = heap_bottom
             /\ free = Frames \ Owned(as)
             /\ data = ElfData(InitApp, as, [f \in Frames |-> "junk"])

CanRun(p) == fault = "none" /\ state[p] = "live"

\* A failed unwrap, assertion or VPNRange; the memory is never looked at again.
Panic(why) ==
    /\ fault' = why
    /\ UNCHANGED <<state, areas, ptes, heap_bottom, program_brk, free, data, tame>>

Breaks(p, contract) == tame' = [tame EXCEPT ![p] = @ /\ contract]

\* A user store: the MMU wants U and W.
UserStore(p, v) ==
    /\ CanRun(p)
    /\ v \in DOMAIN ptes[p]
    /\ {"U", "W"} \subseteq ptes[p][v].perm
    /\ data' = [data EXCEPT ![ptes[p][v].ppn] = "mark"]
    /\ UNCHANGED <<state, areas, ptes, heap_bottom, program_brk, free, tame, fault>>

-----------------------------------------------------------------------------
(* sys_mmap and sys_munmap.                                                *)

\* MapPermission from the low three bits of port, always with U.
PortPerm(port) == {"U"} \cup (IF port % 2 = 1 THEN {"R"} ELSE {})
                        \cup (IF (port \div 2) % 2 = 1 THEN {"W"} ELSE {})
                        \cup (IF (port \div 4) % 2 = 1 THEN {"X"} ELSE {})

MmapArgsOk(c) == c.port % 8 # 0 /\ c.port < 8 /\ c.start % PageSize = 0

StartVpn(c) == floor(VirtAddr(c.start))
EndVpn(c) == ceil(VirtAddr(c.start + c.len))

check_mapping(p, V) == V \cap Mapped(p) # {}
check_unmapping(p, V) == ~ (V \subseteq Mapped(p))

\* MemorySet::push of a framed area: its pages enter the table.
insert_framed_area(p, a) ==
    /\ areas' = [areas EXCEPT ![p] = Append(@, a)]
    /\ ptes' = [ptes EXCEPT ![p] = Merge(@, TableOf(<<a>>))]

sys_mmap(p, c) ==
    LET V == VPNRange(StartVpn(c), EndVpn(c)) IN
    /\ CanRun(p)
    /\ MmapArgsOk(c)
    /\ IF EndVpn(c) < StartVpn(c) THEN Panic("range")
       ELSE /\ ~ check_mapping(p, V)
            /\ IF Cardinality(V) > Cardinality(free) THEN Panic("exhausted")
               ELSE LET a == MapArea(StartVpn(c), EndVpn(c), PortPerm(c.port),
                                     AllocFrames(V, free))
                    IN  /\ insert_framed_area(p, a)
                        /\ free' = free \ Owned(<<a>>)
                        /\ data' = Zeroed(Owned(<<a>>))
                        /\ UNCHANGED <<state, heap_bottom, program_brk, tame, fault>>

\* munmap_area removes, as a whole, every area that contains the range.
Contains(a, c) == EndVpn(c) <= a.end /\ StartVpn(c) >= a.start

\* Mutant: the area is dropped without unmap.
munmap_area_stale(p, c) ==
    LET hit == {i \in DOMAIN areas[p] : Contains(areas[p][i], c)}
        gone == [i \in hit |-> areas[p][i]]
    IN  /\ areas' = [areas EXCEPT ![p] = Retain(@, DOMAIN @ \ hit)]
        /\ free' = free \cup Owned(gone)
        /\ data' = Junked(data, Owned(gone))
        /\ UNCHANGED ptes

munmap_area(p, c) ==
    LET hit == {i \in DOMAIN areas[p] : Contains(areas[p][i], c)}
        gone == [i \in hit |-> areas[p][i]]
    IN  /\ areas' = [areas EXCEPT ![p] = Retain(@, DOMAIN @ \ hit)]
        /\ ptes' = [ptes EXCEPT ![p] = Without(@, Pages(gone))]
        /\ free' = free \cup Owned(gone)
        /\ data' = Junked(data, Owned(gone))

\* The contract of munmap: the range of one area, not the heap's.
MunmapContract(p, c) ==
    \A i \in DOMAIN areas[p] : Contains(areas[p][i], c) =>
       /\ areas[p][i].start = StartVpn(c) /\ areas[p][i].end = EndVpn(c)
       /\ areas[p][i].start # floor(heap_bottom[p])

\* munmap returns 0 from here.
MunmapAccepted(p, c) ==
    /\ EndVpn(c) >= StartVpn(c)
    /\ ~ check_unmapping(p, VPNRange(StartVpn(c), EndVpn(c)))

sys_munmap(p, c) ==
    /\ CanRun(p)
    /\ c.start % PageSize = 0
    /\ \/ EndVpn(c) < StartVpn(c) /\ Panic("range")
       \/ /\ MunmapAccepted(p, c)
          /\ munmap_area(p, c)
          /\ Breaks(p, MunmapContract(p, c))
          /\ UNCHANGED <<state, heap_bottom, program_brk, fault>>

-----------------------------------------------------------------------------
(* sys_sbrk: change_program_brk with MemorySet::shrink_to / append_to.     *)

\* Mutant: the break is moved by the size twice.
SetBrk_twice(p, size) == program_brk[p] + size + size

\* Mutant: the size is added to the bottom of the heap.
SetBrk_bottom(p, size) == heap_bottom[p] + size

SetBrk(p, size) == program_brk[p] + size

\* Mutant: shrinking keeps the frames of the pages it unmaps.
shrink_to_leak(p, i, new_end) ==
    LET a == areas[p][i]
        V == VPNRange(new_end, a.end)
    IN  IF new_end > a.end THEN Panic("range")
        ELSE /\ areas' = [areas EXCEPT ![p][i] = MapArea(a.start, new_end, a.perm, a.frames)]
             /\ ptes' = [ptes EXCEPT ![p] = Without(@, V)]
             /\ UNCHANGED <<state, heap_bottom, free, data, tame, fault>>

shrink_to(p, i, new_end) ==
    LET a == areas[p][i]
        V == VPNRange(new_end, a.end)
    IN  IF new_end > a.end THEN Panic("range")
        ELSE /\ areas' = [areas EXCEPT ![p][i] = MapArea(a.start, new_end, a.perm, a.frames)]
             /\ ptes' = [ptes EXCEPT ![p] = Without(@, V)]
             /\ free' = free \cup {a.frames[v] : v \in V}
             /\ data' = Junked(data, {a.frames[v] : v \in V})
             /\ UNCHANGED <<state, heap_bottom, tame, fault>>

append_to(p, i, new_end) ==
    LET a == areas[p][i]
        V == VPNRange(a.end, new_end)
        fr == AllocFrames(V, free)
        grown == MapArea(a.start, new_end, a.perm, Merge(a.frames, fr))
    IN  CASE new_end < a.end -> Panic("range")
          [] new_end >= a.end /\ V \cap Mapped(p) # {} -> Panic("mapped")
          [] new_end >= a.end /\ V \cap Mapped(p) = {}
                /\ Cardinality(V) > Cardinality(free) -> Panic("exhausted")
          [] OTHER ->
               /\ areas' = [areas EXCEPT ![p][i] = grown]
               /\ ptes' = [ptes EXCEPT ![p] = Merge(@, TableOf(<<grown>>))]
               /\ free' = free \ {fr[v] : v \in V}
               /\ data' = Zeroed({fr[v] : v \in V})
               /\ UNCHANGED <<state, heap_bottom, tame, fault>>

\* The returns of None change nothing and are left out.
sys_sbrk(p, size) ==
    LET i == FindArea(areas[p], floor(heap_bottom[p]))
        new_brk == program_brk[p] + size
    IN  /\ CanRun(p)
        /\ new_brk >= heap_bottom[p]
        /\ i # 0
        /\ IF size < 0 THEN shrink_to(p, i, ceil(new_brk))
                       ELSE append_to(p, i, ceil(new_brk))
        /\ program_brk' = IF fault' = "none"
                          THEN [program_brk EXCEPT ![p] = SetBrk(p, size)]
                          ELSE program_brk

-----------------------------------------------------------------------------
(* Processes: fork, spawn, exec, exit, and the parent's wait.              *)

\* TaskControlBlock::fork; brk and heap_bottom are inherited.
sys_fork(p, c) ==
    LET child == from_existed_user(areas[p]) IN
    /\ CanRun(p)
    /\ state[c] = "none"
    /\ IF Cardinality(Pages(areas[p])) > Cardinality(free) THEN Panic("exhausted")
       ELSE /\ state' = [state EXCEPT ![c] = "live"]
            /\ areas' = [areas EXCEPT ![c] = child]
            /\ ptes' = [ptes EXCEPT ![c] = TableOf(child)]
            /\ heap_bottom' = [heap_bottom EXCEPT ![c] = heap_bottom[p]]
            /\ program_brk' = [program_brk EXCEPT ![c] = program_brk[p]]
            /\ free' = free \ Owned(child)
            /\ data' = CopiedData(ptes[p], child)
            /\ tame' = [tame EXCEPT ![c] = tame[p]]
            /\ UNCHANGED fault

\* TaskControlBlock::spwan: a child straight from an image.
sys_spawn(p, c, app) ==
    LET child == from_elf(app, free) IN
    /\ CanRun(p)
    /\ state[c] = "none"
    /\ IF Cardinality(ElfPages(app)) > Cardinality(free) THEN Panic("exhausted")
       ELSE /\ state' = [state EXCEPT ![c] = "live"]
            /\ areas' = [areas EXCEPT ![c] = child]
            /\ ptes' = [ptes EXCEPT ![c] = TableOf(child)]
            /\ heap_bottom' = [heap_bottom EXCEPT ![c] = UserSp(app)]
            /\ program_brk' = [program_brk EXCEPT ![c] = UserSp(app)]
            /\ free' = free \ Owned(child)
            /\ data' = ElfData(app, child, data)
            /\ tame' = [tame EXCEPT ![c] = TRUE]
            /\ UNCHANGED fault

\* The new set is built first, then the old one is dropped.
FreedByExec(p, new) == (free \ Owned(new)) \cup Owned(areas[p])

\* TaskControlBlock::exec replaces memory_set; heap_bottom and program_brk
\* keep the values of the old program.
sys_exec(p, app) ==
    LET new == from_elf(app, free) IN
    /\ CanRun(p)
    /\ IF Cardinality(ElfPages(app)) > Cardinality(free) THEN Panic("exhausted")
       ELSE /\ areas' = [areas EXCEPT ![p] = new]
            /\ ptes' = [ptes EXCEPT ![p] = TableOf(new)]
            /\ free' = FreedByExec(p, new)
            /\ data' = ElfData(app, new, Junked(data, Owned(areas[p])))
            /\ Breaks(p, heap_bottom[p] = UserSp(app) /\ program_brk[p] = UserSp(app))
            /\ UNCHANGED <<state, heap_bottom, program_brk, fault>>

\* exit_current_and_run_next: recycle_data_pages clears the areas; the page
\* table, with its entries, lives until the parent waits.
exit_current(p) ==
    /\ CanRun(p)
    /\ p # InitProc
    /\ state' = [state EXCEPT ![p] = "zombie"]
    /\ areas' = [areas EXCEPT ![p] = <<>>]
    /\ free' = free \cup Owned(areas[p])
    /\ data' = Junked(data, Owned(areas[p]))
    /\ UNCHANGED <<ptes, heap_bottom, program_brk, tame, fault>>

\* sys_waitpid drops the last reference to the task control block.
reap(p) ==
    /\ fault = "none"
    /\ state[p] = "zombie"
    /\ state' = [state EXCEPT ![p] = "none"]
    /\ ptes' = [ptes EXCEPT ![p] = NoTable]
    /\ heap_bottom' = [heap_bottom EXCEPT ![p] = 0]
    /\ program_brk' = [program_brk EXCEPT ![p] = 0]
    /\ tame' = [tame EXCEPT ![p] = TRUE]
    /\ UNCHANGED <<areas, free, data, fault>>

\* The panic handler shut the machine down.
Halted == fault # "none" /\ UNCHANGED vars

\* What process p itself does; waiting for it is its parent's.
Step(p) ==
    \/ \E v \in StorePages : UserStore(p, v)
    \/ \E c \in MmapCalls : sys_mmap(p, c)
    \/ \E c \in MunmapCalls : sys_munmap(p, c)
    \/ \E size \in SbrkSizes : sys_sbrk(p, size)
    \/ \E c \in Procs : sys_fork(p, c)
    \/ \E c \in Procs, app \in Apps : sys_spawn(p, c, app)
    \/ \E app \in Apps : sys_exec(p, app)
    \/ exit_current(p)

Next == \/ \E p \in Procs : Step(p) \/ reap(p)
        \/ Halted

Spec == Init /\ [][Next]_vars

-----------------------------------------------------------------------------
(* Properties.                                                             *)

Live(p) == state[p] = "live"

\* What process p reads: the contents behind its valid entries.
View(p) == [v \in DOMAIN ptes[p] |-> data[ptes[p][v].ppn]]

\* For a process that can run, the page table says what the areas say: the
\* same pages, the tracked frame behind each, the area's permission, and no
\* page in two areas (map_one / unmap_one keep both in step through mmap,
\* munmap, sbrk, fork and exec, in every order).
PageTableMatchesAreas ==
    \A p \in Procs : Live(p) =>
       /\ DOMAIN ptes[p] = Pages(areas[p])
       /\ \A i \in DOMAIN areas[p] : \A v \in DOMAIN areas[p][i].frames :
             ptes[p][v] = [ppn |-> areas[p][i].frames[v], perm |-> areas[p][i].perm]
       /\ Trampoline \notin DOMAIN ptes[p]

\* Every frame is free or tracked by one page of one process, never both and
\* never by two: no call loses a frame, frees one early or shares one.
FramesOwnedOnce ==
    /\ free = Frames \ UNION {Owned(areas[p]) : p \in Procs}
    /\ \A p, q \in Procs : \A i \in DOMAIN areas[p], j \in DOMAIN areas[q] :
          \A v \in DOMAIN areas[p][i].frames, w \in DOMAIN areas[q][j].frames :
             areas[p][i].frames[v] = areas[q][j].frames[w] => p = q /\ i = j /\ v = w

\* The heap of a process that kept to the contract is one area from
\* heap_bottom to the page of program_brk, however sbrk, mmap and fork were
\* interleaved (change_program_brk moves brk by bytes, the area by pages).
HeapShapeOf(p) ==
    LET i == FindArea(areas[p], floor(heap_bottom[p]))
    IN  /\ i # 0
        /\ areas[p][i].end = ceil(program_brk[p])
        /\ areas[p][i].perm = {"U", "R", "W"}

HeapShape == fault = "none" => \A p \in Procs : Live(p) /\ tame[p] => HeapShapeOf(p)

\* What a running process sees changes only by a step of its own: no store
\* and no call of one process reaches the memory of another, be it parent,
\* child or stranger, whatever frames they have exchanged before.
MemoryIsolated ==
    [][\A q \in Procs :
          Live(q) /\ Live(q)' /\ View(q)' # View(q) => Step(q)]_vars

\* A page appears in a process only cleared, or as the image of a program,
\* or, in a new process, with the contents of the parent that forked it:
\* nothing a previous owner of the frame wrote is ever visible.
NewPagesClean ==
    [][\A p \in Procs : Live(p)' =>
          \/ \E q \in Procs : ~ Live(p) /\ Live(q) /\ View(p)' = View(q)
          \/ \E app \in Apps : View(p)' = [v \in ElfPages(app) |-> ElfContent(app, v)]
          \/ /\ Live(p)
             /\ \A v \in DOMAIN ptes'[p] \ DOMAIN ptes[p] : View(p)'[v] = "zero"]_vars

\* munmap that returns 0 takes exactly the pages of its range out of the
\* address space (unmapping_address_space, "unmap one block of addresses").
MunmapExact ==
    [][\A p \in Procs : \A c \in MunmapCalls :
          MunmapAccepted(p, c) /\ sys_munmap(p, c) =>
             DOMAIN ptes'[p] = DOMAIN ptes[p] \ VPNRange(StartVpn(c), EndVpn(c))]_vars

\* The break and the heap area of every running process agree, exec included.
HeapFollowsExec == fault = "none" => \A p \in Procs : Live(p) => HeapShapeOf(p)
=============================================================================
