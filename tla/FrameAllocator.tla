--------------------------- MODULE FrameAllocator ---------------------------
(***************************************************************************)
(* StackFrameAllocator (mm/frame_allocator.rs), the FrameTracker handles   *)
(* that own the frames (RAII), and the one contiguous request the kernel   *)
(* makes: the virtqueue of the block device (VirtioHal::dma_alloc).        *)
(*                                                                         *)
(* A FrameTracker is created by frame_alloc and its Drop gives the frame   *)
(* back; held is the set of frames that have a live tracker.  Every caller *)
(* of frame_alloc unwraps the result, so an empty allocator is a kernel    *)
(* panic ("exhausted").  The panic of dealloc and the assertion of         *)
(* dma_alloc are the faults "dealloc" and "dma".  A panicked kernel shuts  *)
(* down (lang_item.rs), so no step follows a fault.                        *)
(***************************************************************************)
EXTENDS Naturals, Sequences

CONSTANTS EKernel,    \* PhysAddr(ekernel).ceil(): first managed frame
          MemoryEnd,  \* PhysAddr(MEMORY_END).floor(): first frame past the end
          DmaPages    \* pages of the block device's virtqueue

ASSUME FrameBounds == /\ EKernel \in Nat
                      /\ MemoryEnd \in Nat
                      /\ EKernel < MemoryEnd
                      /\ DmaPages \in Nat \ {0}

VARIABLES current, end, recycled,  \* the fields of StackFrameAllocator
          held,                    \* frames with a live FrameTracker
          queueFrames,             \* QUEUE_FRAMES: trackers of the virtqueue
          stage,                   \* how far rust_main has come
          fault                    \* the panic that stopped the kernel

vars == <<current, end, recycled, held, queueFrames, stage, fault>>

Frames == EKernel .. (MemoryEnd - 1)
Stages == {"start", "kernelSpace", "dma", "run"}
Faults == {"none", "exhausted", "dealloc", "dma"}

TypeOK == /\ current \in Nat
          /\ end \in Nat
          /\ recycled \in Seq(Nat)
          /\ held \subseteq Frames
          /\ queueFrames \in Seq(Frames)
          /\ stage \in Stages
          /\ fault \in Faults

Recycled == {recycled[i] : i \in 1..Len(recycled)}

-----------------------------------------------------------------------------
(* StackFrameAllocator::alloc, as the condition under which it yields a    *)
(* frame, the frame, and the new fields.                                   *)

\* Mutant: the end of memory is not checked.
CanAlloc_endless == TRUE

\* Mutant: the recycled stack is forgotten once memory has been handed out.
CanAlloc_fresh == current # end

CanAlloc == recycled # <<>> \/ current # end

AllocPpn == IF recycled # <<>> THEN recycled[Len(recycled)] ELSE current

\* Mutant: the recycled frame is read but not popped.
AllocUpdate_peek == IF recycled # <<>>
                    THEN UNCHANGED <<current, recycled>>
                    ELSE current' = current + 1 /\ UNCHANGED recycled

AllocUpdate == IF recycled # <<>>
               THEN /\ recycled' = SubSeq(recycled, 1, Len(recycled) - 1)
                    /\ UNCHANGED current
               ELSE /\ current' = current + 1
                    /\ UNCHANGED recycled

-----------------------------------------------------------------------------
\* StackFrameAllocator::new; the lazy static is built before init.
Init == /\ current = 0
        /\ end = 0
        /\ recycled = <<>>
        /\ held = {}
        /\ queueFrames = <<>>
        /\ stage = "start"
        /\ fault = "none"

InitFrameAllocator ==
    /\ fault = "none"
    /\ stage = "start"
    /\ current' = EKernel
    /\ end' = MemoryEnd
    /\ stage' = "kernelSpace"
    /\ UNCHANGED <<recycled, held, queueFrames, fault>>

\* KERNEL_SPACE is complete; add_initproc opens the root inode, whose lazy
\* static creates the block device.  Nothing has been dropped so far.
KernelSpaceBuilt ==
    /\ fault = "none"
    /\ stage = "kernelSpace"
    /\ stage' = "dma"
    /\ UNCHANGED <<current, end, recycled, held, queueFrames, fault>>

\* frame_alloc().unwrap() of a page table or a map area.
FrameAlloc ==
    /\ fault = "none"
    /\ stage \in {"kernelSpace", "run"}
    /\ IF CanAlloc
       THEN /\ held' = held \cup {AllocPpn}
            /\ AllocUpdate
            /\ UNCHANGED fault
       ELSE /\ fault' = "exhausted"
            /\ UNCHANGED <<current, recycled, held>>
    /\ UNCHANGED <<end, queueFrames, stage>>

\* One iteration of dma_alloc's loop; the assertion compares the frame with
\* its place after the first one.
DmaAllocPage ==
    /\ fault = "none"
    /\ stage = "dma"
    /\ Len(queueFrames) < DmaPages
    /\ IF CanAlloc
       THEN /\ held' = held \cup {AllocPpn}
            /\ AllocUpdate
            /\ IF queueFrames = <<>> \/ AllocPpn = queueFrames[1] + Len(queueFrames)
               THEN /\ queueFrames' = Append(queueFrames, AllocPpn)
                    /\ UNCHANGED fault
               ELSE /\ fault' = "dma"
                    /\ UNCHANGED queueFrames
       ELSE /\ fault' = "exhausted"
            /\ UNCHANGED <<current, recycled, held, queueFrames>>
    /\ UNCHANGED <<end, stage>>

DmaAllocated ==
    /\ fault = "none"
    /\ stage = "dma"
    /\ Len(queueFrames) = DmaPages
    /\ stage' = "run"
    /\ UNCHANGED <<current, end, recycled, held, queueFrames, fault>>

\* Mutant: trackers may already be dropped while the kernel space is built,
\* so the virtqueue is cut from recycled frames.
FrameDrop_early(ppn) ==
    /\ fault = "none"
    /\ stage \in {"kernelSpace", "run"}
    /\ ppn \notin {queueFrames[i] : i \in 1..Len(queueFrames)}
    /\ held' = held \ {ppn}
    /\ IF ppn >= current \/ ppn \in Recycled
       THEN fault' = "dealloc" /\ UNCHANGED recycled
       ELSE recycled' = Append(recycled, ppn) /\ UNCHANGED fault
    /\ UNCHANGED <<current, end, queueFrames, stage>>

\* Drop for FrameTracker -> frame_dealloc -> dealloc.  The static
\* QUEUE_FRAMES never drops its trackers.
FrameDrop(ppn) ==
    /\ fault = "none"
    /\ stage = "run"
    /\ ppn \notin {queueFrames[i] : i \in 1..Len(queueFrames)}
    /\ held' = held \ {ppn}
    /\ IF ppn >= current \/ ppn \in Recycled
       THEN /\ fault' = "dealloc"
            /\ UNCHANGED recycled
       ELSE /\ recycled' = Append(recycled, ppn)
            /\ UNCHANGED fault
    /\ UNCHANGED <<current, end, queueFrames, stage>>

\* The panic handler shut the machine down.
Halted == fault # "none" /\ UNCHANGED vars

Next == \/ InitFrameAllocator
        \/ KernelSpaceBuilt
        \/ FrameAlloc
        \/ DmaAllocPage
        \/ DmaAllocated
        \/ \E ppn \in held : FrameDrop(ppn)
        \/ Halted

Spec == Init /\ [][Next]_vars

-----------------------------------------------------------------------------
(* The bookkeeping of the allocator against the handles that exist: every  *)
(* frame below the high-water mark is either held or recycled, never both, *)
(* and recycled once.                                                      *)

\* Every managed frame below current is either behind exactly one tracker or
\* in the recycled stack exactly once: no frame is lost and none is on both
\* sides (alloc / dealloc, frame_allocator.rs).
NoFrameLostOrShared ==
    stage # "start" =>
       /\ held \cup Recycled = EKernel .. (current - 1)
       /\ held \cap Recycled = {}
       /\ \A i, j \in 1..Len(recycled) : recycled[i] = recycled[j] => i = j

\* dealloc's "has not been allocated!" panic and dma_alloc's contiguity
\* assertion never fire: handles are dropped once, and the virtqueue is
\* allocated before anything has been recycled.
NoAllocatorPanic == fault \notin {"dealloc", "dma"}

\* The allocator implements the abstract pool: it hands out managed frames,
\* takes back only frames in use, and gives up only when all of
\* [ekernel, MEMORY_END) is in use.
Pool == INSTANCE IdPool WITH Ids <- Frames,
                             used <- held,
                             refused <- (fault = "exhausted")

ImplementsPool == Pool!Spec
=============================================================================
