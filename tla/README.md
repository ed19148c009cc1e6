# TLA+ models of the rCore kernel

The kernel in `src/` is a small single-hart RISC-V operating system in Rust
(rCore, up to the file-system chapter). This directory holds TLA+ models of its
own logic, the TLC configurations that check them on small instances, and
TLAPS proofs of what matters most for every value of the constants.

Source paths below are relative to the repository's `src/`.

## The system

| Part | State | Operations | Works with |
|---|---|---|---|
| Frame allocator (`mm/frame_allocator.rs`) | `current`, `end`, `recycled`; one `FrameTracker` per frame in use | `frame_alloc`, drop of a tracker, `dma_alloc` of the block driver | every page table, map area and the virtqueue |
| Pids and kernel stacks (`task/pid.rs`) | `current`, `recycled`; stack areas in kernel space | `pid_alloc`, `KernelStack::new`, drops | TCB creation and reaping |
| Process life (`task/task.rs`, `task/mod.rs`, `task/processor.rs`, `syscall/process.rs`) | status, parent, children, exit code, ready queue, current task | fork, spawn, exit, waitpid, yield, timer, polling stdin, set_priority | scheduler, address spaces, files |
| Stride scheduler (`task/manager.rs`) | queue order, stride, priority | `add`, `fetch`, `update_stride`, `set_prio` | run loop |
| Address spaces (`mm/memory_set.rs`) | areas, page table, heap bounds | mmap, munmap, sbrk, fork, spawn, exec, exit | frames, page tables |
| Page tables (`mm/page_table.rs`) | words in frames | `map`, `unmap`, `find_pte`, `translate`, tokens | frames |
| User memory access (`mm/page_table.rs`, `fs/inode.rs`) | loop variables, offsets | `translated_byte_buffer`, `translated_and_write_bytes`, `translated_str`, `copy_data`, `OSInode::read/write` | page tables, easy-fs |
| Descriptors (`fs/`, `syscall/fs.rs`, `task/task.rs`) | `fd_table`, open files, offsets | open, close, read, write, fork, exit, wait | easy-fs |
| Traps (`trap/`, `task/context.rs`) | trap context pages, saved task contexts, kernel stacks | `__alltraps`, `trap_handler`, `trap_return`, switches | all system calls |

What is hard here: there is one hart and the kernel runs with interrupts off,
so a system call is atomic until it gives up the hart. Processes interleave at
yields, timer interrupts, exits and inside the polling read of stdin. Memory is
owned through RAII handles, so an error in *when* something is dropped shows up
much later, as a frame or a pid with two owners. A panic anywhere shuts the
machine down; the models represent it as a `fault` after which nothing moves,
and the invariants say which panics are unreachable.

## Modules

| Module | Models | Notes |
|---|---|---|
| `IdPool` | abstract: hand out identifiers nobody holds, refuse only when all are held | implemented by `FrameAllocator` and `PidAllocator` |
| `AbstractScheduler` | abstract: ready set and running task | implemented by `Process` and `StrideScheduler` |
| `FlatTable` | abstract: an address space is a map from pages to entries | implemented by `PageTable` |
| `FrameAllocator` | `StackFrameAllocator`, trackers, boot order, virtqueue | `held` is the set of frames with a live tracker |
| `PidAllocator` | pids, kernel stack layout, the kernel's map of stacks | `mapped` is the kernel page table restricted to what stacks can touch |
| `Process` | TCB status and links, queue membership, Arc counting for waitpid | one step per kernel entry; a suspend ends a step; of a priority only whether a dispatch is charged |
| `StrideScheduler` | the vector of `TaskManager` in order, strides, priorities | history variable `seen` for the lag |
| `AddressSpace` | `MemorySet`/`MapArea` of user processes, frame contents | history variable `tame` marks processes that used munmap and exec within the contract |
| `PageTable` | the three-level table as numbers in frames | freed frames hold a word that looks like a valid entry; a zombie keeps its table |
| `UserIO` | the page-by-page copy loops, for any pointer | one iteration a step |
| `FileTable` | descriptors, `Arc<OSInode>` counts, offsets, file lengths | histories `origin`, `moved` |
| `TrapContext` | trap entry and exit, context pages, kernel stacks | history `expect`: the registers user code is owed |
| `MCAddressSpace`, `MCPageTable`, `MCUserIO` | inputs, symmetry and view for TLC | |
| `*Proofs` | theorems | see below |

How they fit: `PageTable` justifies the flat page table of `AddressSpace`;
`FrameAllocator` justifies its set of free frames (no frame is shared or lost);
`PidAllocator` justifies naming a TCB, and a kernel stack, by its pid in
`Process` and `TrapContext`; `AbstractScheduler` stands between `Process`, which
lets any ready task be dispatched, and `StrideScheduler`, which says which.

### Correspondence of state and actions

- `FrameAllocator`: the fields of the allocator under their names; `stage`
  follows `rust_main` (allocator initialised, kernel space built, block device
  created on the first use of the root inode, then running). `FrameDrop` is
  `Drop for FrameTracker` with `dealloc` and its panic. Nothing is dropped
  before `run`: all trackers made until then belong to the kernel space.
- `PidAllocator`: `TcbNew` is `pid_alloc` then `KernelStack::new`, `TcbDrop`
  the drops in field order (pid first, then stack), with the assertions of
  `dealloc`, `PageTable::map` and `PageTable::unmap` as faults.
- `Process`: `run_tasks`, `suspend_current_and_run_next`,
  `exit_current_and_run_next`, `sys_waitpid` under their names. `queued` counts
  Arcs in the ready queue, `at = "stdin"` marks the Arc that `sys_read` keeps on
  a suspended kernel stack. INITPROC exiting is the fault `borrow`; the constant
  `InitProcExits` says whether its program may do so, and the runs and theorems
  take it to be FALSE (`ch6b_initproc` loops on waitpid). `prio` is "free" when
  `sys_set_prio` was given a priority above BIG_STRIDE, for which `update_stride`
  adds 0, else "charged".
- `StrideScheduler`: `fetch_index` is the loop of `fetch` (first index of least
  stride below `usize::MAX`), `fetch_at` charges and removes.
- `AddressSpace`: areas as records (range, permission, frames); `ptes` is the
  valid part of the page table. Arguments are in bytes and go through
  `VirtAddr::from` (39 bits), `floor` and `ceil`. Calls that return -1 change
  nothing and are left out. The frames of page-table levels are not counted.
  `Nth` and `Rank` say that the pages of a request take the free frames in
  ascending order; `Retain` is `retain_mut`; `from_elf` appends area by area in
  the order of the calls of `push`. `Boots` assumes the memory to load INITPROC.
  A mapping or unmapping of the page of the trap context by its owner is not
  among the inputs here: what the unmapping does is in `TrapContext`.
- `PageTable`: entries are numbers built by `PteNew`; `map` includes the data
  frame of `map_one`, so that levels and data come from one allocator.
  `recycle_data_pages` is what exit does: the data frames are freed, the entries
  and the levels stay as they are (`zombie`) until `drop`, which is waitpid's, or
  that of exec, where the table goes at once with its data.
  `Fresh1`, `Fresh2`, `Fresh3` are the next frames of `frame_alloc`. Which free
  frame comes next is the business of `FrameAllocator`; here it is the lowest,
  and the proofs use only that it is free.
- `UserIO`: `slices` is the vector `v` of `translated_byte_buffer`, `bytes` the
  memory. `Call` fixes the arguments, any pointer of a usize and any length up
  to `MaxLen`; then the loop runs iteration by iteration. `VirtAddr` is the
  39-bit mask of `VirtAddr::from`, which the loops apply to both ends of a slice
  while they compare the raw addresses; `start + len` wraps as in a release
  build. The pages after `PpnOf` have no leaf table, so that `translate` is
  `None` and the `unwrap` panics; a leaf table with invalid entries, for which
  `translate` yields frame 0, is left out. `HeapRoom` and `DataRoom` are where
  the kernel heap, or what can be read after `data`, ends: the loops that never
  end panic there. `"elf"` is `copy_data`, whose target has just been mapped. A
  path does not reach the end of a usize. `read_at` and `write_at` are easy-fs's,
  modelled from their use.
- `FileTable`: a handle is an `OSInode`, which closes with its last descriptor
  (`strong`). The kernel never checks the access mode when reading or writing,
  and neither does the model. `Sentinels` assumes that an empty slot, the
  console files and an `OSInode` are different things.
- `TrapContext`: `ppn` is the kernel's `trap_cx_ppn`, `page` the frame that the
  user's page table maps at `TRAP_CONTEXT_BASE`, `area` the frame that the
  `MapArea` of that page holds; a frame is free when no area holds it. exit
  clears the area only: `ppn` and `page` of the zombie name a freed frame until
  `sys_waitpid`. `sys_munmap` is the unmapping of that very page, which no check
  refuses: the process then finishes its trap and the hart hangs in `__restore`
  (`restore_fault`, mode "hung"). `local` is the `cx` that `trap_handler` fetched
  before the call. A call that writes through a user pointer into
  `TRAP_CONTEXT_BASE` (the `translated_*` functions do not check the U flag) is
  not modelled: it changes only the caller's own context.

## Runs

| Run | Instance | Shows |
|---|---|---|
| `frames` | 6 frames, 2-page virtqueue | every order of allocation and drop, exhaustion included |
| `pids` | 5 processes | creation and reaping in every order; the address range is just large enough for five stacks |
| `processes` | INITPROC and 3 processes, 2 exit codes, priorities that cost and do not cost | trees of depth 3, adoption of ready, suspended and dead children, waits by pid and by -1; a zombie of INITPROC is reaped, once no dispatch is free any more |
| `stride` | 3 tasks, BIG_STRIDE 6, priorities 1, 2, 6 | a refused priority, the largest pass (3) and the smallest (1) |
| `stride_starvation` | priorities 2 and 7 | violation: priority above BIG_STRIDE has pass 0 |
| `address_spaces` | 2 processes, 9 frames, 2-byte pages, programs of 1 and 2 pages | all calls, and stores to stack, heap and mapped pages, by two live processes in turn; a process with a heap forks and both go on growing and shrinking; memory runs out; brk on and off page boundaries |
| `munmap_exact` | the same with 8 frames | violation: partial munmap removes the whole area |
| `exec_heap` | 8 frames, a program of 1 page, sbrk and exec | violation: exec keeps the old break |
| `page_table` | 2 tables, 7 frames, 2 entries per level | a shared and a separate third-level table, reuse of frames as levels after being data, under a live table and under a zombie's; the tree of a zombie beside one with pages |
| `user_io` | 3 pages of 3 bytes in scrambled frames, one unmapped page below the top, a usize of twice the space, buffers of up to 8 bytes, a file of 4 bytes | every pointer, every alignment of both ends, short reads, appends, each panic, and the endless loop of `translated_and_write_bytes` |
| `files` | 2 processes, 2 handles, 4 descriptors, 1 name | reuse of descriptors, inheritance, zombies holding files |
| `traps` | 2 processes, 3 context frames | every interleaving of two processes' traps, with fork, spawn, exec, exit, wait, munmap of the context page; reuse of the frames it frees |

Bounds. Identifiers, frames and processes only matter by equality and order, so
the smallest number that makes reuse, exhaustion and three-party situations
happen is enough to show the mechanism; the theorems lift the bound for the
allocators, the process tree, the scheduler, traps, address spaces, descriptors,
page tables and user buffers. Page size and level fan-out are chosen so that
every position relative to a boundary occurs. `address_spaces` needs nine frames
for two processes with heaps; it explores states up to the names of frames
(`VIEW UpToFrames` in `MCAddressSpace`): all free frames hold junk and no action
looks at the number of a frame, so that states which differ by a renaming behave
alike. Strides grow without bound: `MaxStride` is a horizon at which dispatching
stops (hence `CHECK_DEADLOCK FALSE`), and `NoStarvation` speaks of tasks that wait
at least one pass before it. A task is born once in `StrideScheduler`, so that a
chain of newcomers, each at stride 0, is at most as long as `Tasks`. `UserIO`
stops after one call, hence also `CHECK_DEADLOCK FALSE`. `MaxFds` and `MaxSize` bound descriptors and lengths in
the guards of `FileTable`.

Mutants: each property is paired in `PROJECT.json` with a small change of one
definition (an operator `X_something` next to `X`) that breaks it.

### Findings

1. `stride_starvation`: `update_stride` divides `BIG_STRIDE` (250) by the
   priority and `sys_set_prio` takes any priority above 1; above 250 the pass is
   0 and one process keeps the hart for ever.
2. `munmap_exact`: `munmap_area` removes every area that contains the range, as
   a whole, and reports success; a range over two areas removes nothing and also
   reports success.
3. `exec_heap`: `exec` replaces the memory set but keeps `heap_bottom` and
   `program_brk`; after sbrk and exec the break does not belong to the heap, and
   a shrinking sbrk then fails an assertion in the kernel.

Two more things to know that no property contradicts. For a buffer that reaches
the top of the 39-bit space `translated_byte_buffer` panics, while
`translated_and_write_bytes` goes on for ever: `CallsReturn` excludes that one
call by name and claims return or panic for every other. And `sys_read` and
`sys_write` never ask `readable` or `writable`, so that a file opened `RDONLY` can
be written.

### Fairness

- `Process`: weak fairness of the timer (the SBI timer is armed on every
  interrupt), of the polling loop of stdin and of the idle loop; strong fairness
  of INITPROC's `waitpid(-1)`, the loop its program consists of; and strong
  fairness of dispatching a task *while every dispatch is charged*
  (`AllCharged`), which is what `StrideScheduler` establishes (`NoStarvation`)
  for priorities up to BIG_STRIDE: strides of the others grow until the waiting
  task has the least. `stride_starvation` shows that it is false otherwise, so
  `OrphansReaped` claims that a zombie of INITPROC is reaped only provided that
  from some time on all dispatches are charged. Newcomers start at stride 0 and
  go first, but an endless chain of them needs TCBs, which are freed by parents
  that are themselves dispatched and charged.
- `StrideScheduler`: the idle loop keeps fetching, the timer keeps preempting.
- `UserIO`: the kernel continues its own loop (interrupts are off).

The other modules state safety only, and assume no fairness.

## Proofs

All constants are arbitrary within the named assumptions of the modules.

- `FrameAllocatorProofs`: the inductive invariant adds `BootShape` (nothing is
  recycled before the kernel runs; while the virtqueue is cut, the next frame is
  the one after its last) to the checked invariants. Without it contiguity is
  not inductive: the allocator prefers recycled frames. Then partition, absence
  of panics, and refinement of `IdPool`.
- `PidAllocatorProofs`: `PidsAreDense` needs only that every pid below the mark
  is live or recycled. The rest adds `AreasShape` (the areas are exactly the stacks of
  live pids, so that the lookup by start page finds one area) and the arithmetic
  of `kernel_stack_position` (`StackLayout`).
- `ProcessProofs`: `TypeOK`, `QueuedIffReady`, `OneParent`, `NoPanic` and
  `InitProcAlive` are inductive together; that the strong count is 1 in waitpid
  follows because a zombie is not queued, not current, not suspended in stdin
  and in one child vector. `RootedTree` is proved on top of it, then the action
  property `ZombieIsFinal` and the refinement. The theorems carry the hypothesis
  `~InitProcExits`.
- `StrideSchedulerProofs`: `QueueShape` (no task is queued twice, the current
  task is not queued) makes `StrideLag` inductive: the task chosen has the least
  stride, so one pass is the most it can get ahead.
- `TrapContextProofs`: `ResumeExact` speaks of user mode only, so it says
  nothing about a process inside the kernel or switched out. The inductive
  invariant says where each phase of a trap keeps what user code is owed
  (`Owed`, `OwedSaved`: in the registers, in the context, or in the context with
  the call's value still on the kernel stack), that a dead process or a zombie
  has no area (`Roles`) and that the context of one that has names its own kernel
  stack (`OwnStackInCx`). A process that has unmapped its context page is on the
  hart, on its way to the fault in `__restore`; until then its `trap_cx_ppn` names
  a frame that is free and stays free, because nobody else runs (`ContextPages`).
  So all the writes of the handler go to the caller's own frame or to a free one,
  and what the others are owed is undisturbed (`OwedStill`). fork and spawn are
  one lemma (`NewChildIInv`).
- `AddressSpaceProofs`: none of the properties is inductive alone. `IInv` says
  that only running processes have areas (`Empties`; exit clears them, the table
  of a zombie dangles), that the table of a running process matches its areas
  (`Tables`), that no frame lies under two pages or two processes and the rest
  is free (`OnceIn`), and that the heap of a process within the contract is the
  *first* area that starts at the heap's bottom (`Heaps`), because that is the
  one `shrink_to` and `append_to` find. TLC checked `IInv` on the states of
  `address_spaces` before it was proved. The operators come first: allocation is
  one-to-one (`AllocDistinct`), a push, a retain, a shrink and a growth change
  the pages and frames of a vector as stated by `Extends`, `Selects` and
  `Widens`, and each keeps table and areas in step; `from_elf` and
  `from_existed_user` place areas that do not overlap (`Laid`, `Copies`). Then
  one lemma per call. The two action properties rest on `Confined` (a step
  changes the entries of one process, and contents only in free frames and its
  own) and on `Fresh` (what that process sees on new pages). `MemoryIsolated`
  speaks of the process that moves (`Step`): what a running process sees changes
  only by a step of its own.
- `FileTableProofs`: `SharedOffset` is not inductive: `IInv` adds that the
  history of a descriptor is the file it holds (`Origins`), that a file some
  descriptor holds is open and in the directory (`Counts`, `Offsets`), and that a
  process that does not exist has no table (`NoTable`), without which fork would
  overwrite references. That a held file is open rests on the reference count,
  a cardinality over pairs of process and descriptor, so the proof counts first:
  a slot that comes to hold a file is one more reference (`SlotGains`), a table
  that comes or goes as a whole is `Uses` of them (`TableAdds`).
  `DescriptorsStable` says of each action whose descriptors it may empty: close
  of `fd` by `p` exactly slot `fd` of `p`, waitpid the table of the zombie that
  is reaped, everything else none (`OnlyOwnerCloses`); it rests on `alloc_fd`
  returning only free slots (`AllocFdFree`). TLC checked `IInv` on the states of
  `files` first.
- `PageTableProofs`, page tables: `OwnTree` counts frames and `ImplementsFlat`
  walks them; neither survives a step by itself. `Tree(R, F, D, m)` says of any
  memory `m` that root `R` has exactly the levels `F`, each entered once, and
  the leaf entries `D`. Four lemmas say what one store does to a tree: `AddMid`
  and `AddLeaf` hang a cleared frame under it, `SetEntry` and `ClearEntry`
  change one page; a memory that agrees on `F` keeps it (`TreeKept`). `map` is
  then up to three of them in a row. `IInv` is `TypeOK`, a tree for every live
  table (`Trees`), nothing for a dropped one (`Gone`), the frames under its
  pages (`Pages`), and that levels, data and free frames of all tables are
  apart (`Separate`), which is why a store of user code, or a word left in a
  freed frame, cannot turn into an entry. A zombie keeps its tree while its data
  frames are free for others (`RecycleStep`): its entries then name frames that
  somebody else may have, and only its levels are claimed to be its own. The
  refinement follows page by page:
  the walk finds the entry of the tree (`LookupIs`, `EntryAt`). TLC checked
  `IInv` on the states of `page_table` first.
- `PageTableProofs`, user memory: `UserIO` models the same source file as
  `PageTable`, and its state and specification (`IOInit`, `IONext`, `IOSpec`)
  have names of their own, so that one module holds the proofs about both. A
  step of a loop handles a `Piece`, which stays on one page, so that its bytes
  are consecutive in memory although the buffer is not (`PieceBytes`); no two
  addresses share a byte (`TranslateOne`), so that a copy changes nothing else
  (`Patch`). `IOInv` says how far each loop is: `Cut`, the places where the
  slices of a buffer meet; `Filled`, which bytes of memory have arrived;
  `Written`, which bytes of the file. A call whose buffer leaves the mapped pages
  or runs over the top is `Stray`: it is empty, or wraps around usize, or its loop
  never gets to the end the kernel compares with, so that it cannot return. A read can end early, in the middle of a
  slice, at the end of the file: `Reading` keeps the total as the lesser of what
  the slices so far and the file hold, because the offset alone does not say
  which. `CopiesExactly` is `IOInv` when the call has returned. For
  `BufferExact` the recursion inside `FlattenSeq` is resolved by showing that
  one function satisfies it (`JoinedOnce`, by a least counterexample) and that
  the images of the pieces do. TLC checked `IOInv` on the states of `user_io`
  first.
- Type correctness, where a run checks it, is stated on its own
  (`AllocatorTyped`, `ProcessesTyped`, `SchedulerTyped`, `SpacesTyped`).

Only model-checked: the liveness properties (fairness is outside the prover),
that is `OrphansReaped`, `NoStarvation` and `CallsReturn`, and the three
violations of `Findings`.

## Not modelled

- The kernel's own address space (`new_kernel`, `remap_test`): built once from
  linker symbols.
- easy-fs, virtio-drivers and the buddy allocator: crates outside the
  repository. linkat, unlinkat and fstat only forward to easy-fs.
- Console, logging, SBI calls, timer arithmetic, task statistics: no state of
  their own beyond what is printed or copied out.
- The register-by-register save and restore in `trap.S` and `switch.S`, the
  TLB and instruction-cache fences: below the level of the models.
- `UPSafeCell`: borrows are released before every switch; the one reachable
  double borrow is in `Process`.
- User programs, apart from what INITPROC is known to do.
- `sys_spawn1` and `push_on_top`: not called.

## Plan and state

Done in this order: allocators, process life, scheduler, address spaces, page
tables, user memory, descriptors, traps; theorems for the allocators, processes
and the scheduler first because they carry the ownership argument of everything
else, then for traps, address spaces and descriptors, then for page tables and
user memory. Every invariant and action property of a passing run is now a
theorem, and so is every refinement. Open: a model of the directory operations
once easy-fs is part of the repository.
