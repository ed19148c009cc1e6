------------------------ MODULE FrameAllocatorProofs ------------------------
(***************************************************************************)
(* Proofs about FrameAllocator for every memory size and queue length.     *)
(***************************************************************************)
EXTENDS FrameAllocator, SequenceTheorems, TLAPS

(* The inductive invariant: the bookkeeping of the allocator, and the fact *)
(* that nothing is recycled before the virtqueue is complete, which is     *)
(* what makes its frames consecutive.                                      *)
BootShape ==
    /\ stage = "start" => /\ current = 0 /\ end = 0
                          /\ held = {} /\ queueFrames = <<>>
    /\ stage # "start" => /\ end = MemoryEnd
                          /\ EKernel <= current /\ current <= MemoryEnd
    /\ stage # "run" => recycled = <<>>
    /\ stage = "kernelSpace" => queueFrames = <<>>
    /\ stage = "dma" /\ queueFrames # <<>> =>
                          current = queueFrames[1] + Len(queueFrames)

\* The virtqueue is a run of consecutive frames, all of them still held.
DmaRunIntact ==
    \A i \in 1..Len(queueFrames) :
       /\ queueFrames[i] = queueFrames[1] + i - 1
       /\ queueFrames[i] \in held

IInv == TypeOK /\ NoFrameLostOrShared /\ NoAllocatorPanic /\ DmaRunIntact /\ BootShape

-----------------------------------------------------------------------------
\* What alloc hands out is a managed frame nobody holds.
LEMMA AllocIsFresh ==
    ASSUME IInv, stage # "start", CanAlloc
    PROVE  AllocPpn \in Frames \ held
<1> USE FrameBounds
<1>1. CASE recycled # <<>>
  <2>1. Len(recycled) \in 1..Len(recycled)
    BY <1>1 DEF IInv, TypeOK
  <2>2. AllocPpn = recycled[Len(recycled)] /\ AllocPpn \in Recycled
    BY <1>1, <2>1 DEF AllocPpn, Recycled
  <2> QED BY <2>2 DEF IInv, TypeOK, NoFrameLostOrShared, BootShape, Frames
<1>2. CASE recycled = <<>>
  <2>1. AllocPpn = current /\ current # end
    BY <1>2 DEF AllocPpn, CanAlloc
  <2> QED BY <2>1 DEF IInv, TypeOK, NoFrameLostOrShared, BootShape, Frames
<1> QED BY <1>1, <1>2

\* An allocation keeps [ekernel, current) split between handles and the
\* recycled stack, whichever of the two alloc takes the frame from.
LEMMA AllocKeepsPartition ==
    ASSUME IInv, stage # "start", CanAlloc, AllocUpdate,
           held' = held \cup {AllocPpn}, stage' # "start"
    PROVE  /\ current' \in Nat /\ recycled' \in Seq(Nat)
           /\ EKernel <= current' /\ current' <= MemoryEnd
           /\ NoFrameLostOrShared'
<1> USE FrameBounds
<1>1. CASE recycled # <<>>
  <2> DEFINE n == Len(recycled)
  <2>1. n \in Nat /\ n > 0
    BY <1>1 DEF IInv, TypeOK
  <2>2. /\ recycled' = SubSeq(recycled, 1, n - 1) /\ current' = current
        /\ AllocPpn = recycled[n]
    BY <1>1 DEF AllocUpdate, AllocPpn
  <2>3. \A i \in 1..n : recycled[i] \in Nat
    BY <2>1 DEF IInv, TypeOK
  <2>4. /\ Len(recycled') = n - 1
        /\ recycled' \in Seq(Nat)
        /\ \A i \in 1..(n-1) : recycled'[i] = recycled[i]
    <3>1. 1 \in Int /\ n - 1 \in Int /\ \A i \in 1..(n-1) : recycled[i] \in Nat
      BY <2>1, <2>3
    <3> HIDE DEF n
    <3>2. /\ SubSeq(recycled, 1, n-1) \in Seq(Nat)
          /\ Len(SubSeq(recycled, 1, n-1)) = IF 1 <= n-1 THEN (n-1)-1+1 ELSE 0
          /\ \A i \in 1 .. (n-1)-1+1 : SubSeq(recycled, 1, n-1)[i] = recycled[1+i-1]
      BY <3>1, SubSeqProperties
    <3> QED BY <2>1, <2>2, <3>2
  <2>5. \A i, j \in 1..n : recycled[i] = recycled[j] => i = j
    BY DEF IInv, NoFrameLostOrShared
  <2>6. Recycled' = {recycled[i] : i \in 1..(n-1)}
    <3>1. Recycled' = {recycled'[i] : i \in 1..(n-1)}
      BY <2>4 DEF Recycled
    <3> QED BY <3>1, <2>4
  <2>7. Recycled' = Recycled \ {AllocPpn} /\ AllocPpn \in Recycled
    <3>1. Recycled = {recycled[i] : i \in 1..n}
      BY DEF Recycled
    <3> HIDE DEF n
    <3> QED BY <2>1, <2>2, <2>5, <2>6, <3>1
  <2>8. \A i, j \in 1..Len(recycled') : recycled'[i] = recycled'[j] => i = j
    <3> HIDE DEF n
    <3> QED BY <2>1, <2>4, <2>5
  <2>9. NoFrameLostOrShared'
    BY <2>2, <2>7, <2>8 DEF IInv, NoFrameLostOrShared
  <2> QED BY <2>2, <2>4, <2>9 DEF IInv, TypeOK, BootShape
<1>2. CASE recycled = <<>>
  <2>1. /\ AllocPpn = current /\ current # end
        /\ current' = current + 1 /\ recycled' = recycled
    BY <1>2 DEF AllocPpn, CanAlloc, AllocUpdate
  <2>2. Recycled' = {} /\ Recycled = {}
    BY <1>2, <2>1 DEF Recycled
  <2>3. EKernel .. current = (EKernel .. (current - 1)) \cup {current}
    BY DEF IInv, TypeOK, BootShape
  <2> QED BY <1>2, <2>1, <2>2, <2>3
          DEF IInv, TypeOK, NoFrameLostOrShared, BootShape
<1> QED BY <1>1, <1>2

-----------------------------------------------------------------------------
\* The allocator of StackFrameAllocator::new satisfies the invariant.
LEMMA InitIInv == Init => IInv
BY FrameBounds DEF Init, IInv, TypeOK, NoFrameLostOrShared, NoAllocatorPanic,
                   DmaRunIntact, BootShape, Stages, Faults, Frames

\* Every step (init, alloc, dma_alloc, dealloc) preserves the invariant.
LEMMA NextIInv == IInv /\ [Next]_vars => IInv'
<1> SUFFICES ASSUME IInv, [Next]_vars PROVE IInv'
  OBVIOUS
<1> USE FrameBounds
<1>1. CASE InitFrameAllocator
  <2>1. /\ held = {} /\ recycled = <<>> /\ queueFrames = <<>> /\ current' = EKernel
        /\ end' = MemoryEnd /\ stage' = "kernelSpace"
        /\ UNCHANGED <<recycled, held, queueFrames, fault>>
    BY <1>1 DEF InitFrameAllocator, IInv, BootShape
  <2>2. Recycled' = {} /\ EKernel .. (EKernel - 1) = {}
    BY <2>1 DEF Recycled
  <2>3. NoFrameLostOrShared'
    BY <2>1, <2>2 DEF NoFrameLostOrShared
  <2> QED BY <2>1, <2>3 DEF IInv, TypeOK, NoAllocatorPanic, DmaRunIntact, BootShape, Stages
<1>2. CASE KernelSpaceBuilt
  BY <1>2 DEF KernelSpaceBuilt, IInv, TypeOK, NoFrameLostOrShared,
     NoAllocatorPanic, DmaRunIntact, BootShape, Stages, Recycled
<1>3. CASE FrameAlloc
  <2>1. CASE CanAlloc
    <3>1. /\ held' = held \cup {AllocPpn} /\ AllocUpdate
          /\ UNCHANGED <<end, queueFrames, stage, fault>>
          /\ stage \in {"kernelSpace", "run"}
      BY <1>3, <2>1 DEF FrameAlloc
    <3>2. AllocPpn \in Frames \ held
      BY <2>1, <3>1, AllocIsFresh
    <3>3. /\ current' \in Nat /\ recycled' \in Seq(Nat)
          /\ EKernel <= current' /\ current' <= MemoryEnd
          /\ NoFrameLostOrShared'
      BY <2>1, <3>1, AllocKeepsPartition
    <3>4. stage = "kernelSpace" => recycled' = <<>>
      BY <3>1 DEF AllocUpdate, IInv, BootShape
    <3> QED BY <3>1, <3>2, <3>3, <3>4
            DEF IInv, TypeOK, NoAllocatorPanic, DmaRunIntact, BootShape, Stages
  <2>2. CASE ~CanAlloc
    BY <1>3, <2>2 DEF FrameAlloc, IInv, TypeOK, NoFrameLostOrShared,
       NoAllocatorPanic, DmaRunIntact, BootShape, Faults, Recycled
  <2> QED BY <2>1, <2>2
<1>4. CASE DmaAllocPage
  <2>1. CASE CanAlloc
    <3>1. /\ held' = held \cup {AllocPpn} /\ AllocUpdate
          /\ UNCHANGED <<end, stage>> /\ stage = "dma" /\ fault = "none"
      BY <1>4, <2>1 DEF DmaAllocPage
    <3>2. AllocPpn \in Frames \ held
      BY <2>1, <3>1, AllocIsFresh
    <3>3. /\ current' \in Nat /\ recycled' \in Seq(Nat)
          /\ EKernel <= current' /\ current' <= MemoryEnd
          /\ NoFrameLostOrShared'
      BY <2>1, <3>1, AllocKeepsPartition
    <3>4. AllocPpn = current /\ current' = current + 1 /\ recycled' = <<>>
      BY <3>1 DEF AllocUpdate, AllocPpn, IInv, BootShape
    <3>5. queueFrames = <<>> \/ AllocPpn = queueFrames[1] + Len(queueFrames)
      BY <3>1, <3>4 DEF IInv, BootShape
    <3>6. queueFrames' = Append(queueFrames, AllocPpn) /\ fault' = fault
      BY <1>4, <2>1, <3>5 DEF DmaAllocPage
    <3>7. /\ queueFrames' \in Seq(Frames)
          /\ Len(queueFrames') = Len(queueFrames) + 1
          /\ \A i \in 1..Len(queueFrames) : queueFrames'[i] = queueFrames[i]
          /\ queueFrames'[Len(queueFrames) + 1] = AllocPpn
      BY <3>2, <3>6 DEF IInv, TypeOK
    <3>8. DmaRunIntact'
      <4> SUFFICES ASSUME NEW i \in 1..Len(queueFrames')
                   PROVE  /\ queueFrames'[i] = queueFrames'[1] + i - 1
                          /\ queueFrames'[i] \in held'
        BY DEF DmaRunIntact
      <4>1. Len(queueFrames) \in Nat /\ (queueFrames = <<>> <=> Len(queueFrames) = 0)
        BY DEF IInv, TypeOK
      <4>2. CASE i = Len(queueFrames) + 1
        BY <4>1, <4>2, <3>1, <3>2, <3>5, <3>7 DEF Frames
      <4>3. CASE i \in 1..Len(queueFrames)
        BY <4>1, <4>3, <3>1, <3>7 DEF IInv, DmaRunIntact
      <4> QED BY <4>1, <4>2, <4>3, <3>7
    <3>9. current' = queueFrames'[1] + Len(queueFrames')
      <4>1. Len(queueFrames) \in Nat /\ (queueFrames = <<>> <=> Len(queueFrames) = 0)
        BY DEF IInv, TypeOK
      <4>2. queueFrames # <<>> => queueFrames[1] \in Frames
        BY <4>1 DEF IInv, TypeOK
      <4>3. CASE queueFrames = <<>>
        <5>1. queueFrames'[1] = AllocPpn /\ Len(queueFrames') = 1
          BY <4>1, <4>3, <3>7
        <5> QED BY <5>1, <3>4
      <4>4. CASE queueFrames # <<>>
        <5>1. current = queueFrames[1] + Len(queueFrames)
          BY <4>4, <3>1 DEF IInv, BootShape
        <5>2. queueFrames'[1] = queueFrames[1]
          BY <4>1, <4>4, <3>7
        <5>3. queueFrames[1] \in Int
          BY <4>2, <4>4 DEF Frames
        <5>4. current' = current + 1 /\ Len(queueFrames') = Len(queueFrames) + 1
          BY <3>4, <3>7
        <5> QED BY <5>1, <5>2, <5>3, <5>4, <4>1
      <4> QED BY <4>3, <4>4
    <3>10. TypeOK'
      BY <3>1, <3>2, <3>3, <3>6, <3>7 DEF IInv, TypeOK
    <3>11. BootShape'
      BY <3>1, <3>3, <3>4, <3>9 DEF IInv, BootShape
    <3> QED BY <3>1, <3>3, <3>6, <3>8, <3>10, <3>11 DEF IInv, NoAllocatorPanic
  <2>2. CASE ~CanAlloc
    BY <1>4, <2>2 DEF DmaAllocPage, IInv, TypeOK, NoFrameLostOrShared,
       NoAllocatorPanic, DmaRunIntact, BootShape, Faults, Recycled
  <2> QED BY <2>1, <2>2
<1>5. CASE DmaAllocated
  BY <1>5 DEF DmaAllocated, IInv, TypeOK, NoFrameLostOrShared,
     NoAllocatorPanic, DmaRunIntact, BootShape, Stages, Recycled
<1>6. ASSUME NEW ppn \in held, FrameDrop(ppn) PROVE IInv'
  <2>1. ppn < current /\ ppn \notin Recycled /\ ppn \in Nat
    BY <1>6 DEF FrameDrop, IInv, TypeOK, NoFrameLostOrShared, Frames
  <2>2. /\ recycled' = Append(recycled, ppn) /\ held' = held \ {ppn}
        /\ UNCHANGED <<current, end, queueFrames, stage, fault>>
        /\ stage = "run"
        /\ ppn \notin {queueFrames[i] : i \in 1..Len(queueFrames)}
    BY <1>6, <2>1 DEF FrameDrop, IInv, TypeOK
  <2>3. /\ recycled' \in Seq(Nat) /\ Len(recycled') = Len(recycled) + 1
        /\ \A i \in 1..Len(recycled) : recycled'[i] = recycled[i]
        /\ recycled'[Len(recycled) + 1] = ppn
        /\ Len(recycled) \in Nat
    BY <2>1, <2>2 DEF IInv, TypeOK
  <2>4. Recycled' = Recycled \cup {ppn}
    BY <2>3 DEF Recycled
  <2>5. \A i, j \in 1..Len(recycled') : recycled'[i] = recycled'[j] => i = j
    BY <2>1, <2>2, <2>3 DEF IInv, NoFrameLostOrShared, Recycled
  <2>6. NoFrameLostOrShared'
    BY <1>6, <2>2, <2>4, <2>5 DEF IInv, NoFrameLostOrShared
  <2> QED BY <2>2, <2>3, <2>6
          DEF IInv, TypeOK, NoAllocatorPanic, DmaRunIntact, BootShape
<1>7. CASE UNCHANGED vars
  BY <1>7 DEF vars, IInv, TypeOK, NoFrameLostOrShared, NoAllocatorPanic,
     DmaRunIntact, BootShape, Recycled
<1> QED BY <1>1, <1>2, <1>3, <1>4, <1>5, <1>6, <1>7 DEF Next, Halted

\* The invariant holds in every state the allocator reaches.
THEOREM Invariance == Spec => []IInv
BY InitIInv, NextIInv, PTL DEF Spec

\* Marks, stacks and trackers hold frame numbers, in every stage of booting.
THEOREM AllocatorTyped == Spec => []TypeOK
BY Invariance, PTL DEF IInv

\* For every memory size: every frame below the high-water mark is held once
\* or recycled once (alloc, dealloc), so none is lost and none is shared.
THEOREM FramesPartitioned == Spec => []NoFrameLostOrShared
BY Invariance, PTL DEF IInv

\* dealloc's panic and dma_alloc's contiguity assertion are unreachable.
THEOREM AllocatorNeverPanics == Spec => []NoAllocatorPanic
BY Invariance, PTL DEF IInv

-----------------------------------------------------------------------------
\* The new allocator is an untouched pool.
LEMMA PoolInit == Init => Pool!Init
BY DEF Init, Pool!Init

\* Every step of the allocator is a step of the pool or leaves it alone; the
\* invariant is what makes "exhausted" mean that every frame is held.
LEMMA PoolStep == IInv /\ IInv' /\ [Next]_vars => [Pool!Next]_Pool!vars
<1> SUFFICES ASSUME IInv, IInv', [Next]_vars PROVE [Pool!Next]_Pool!vars
  OBVIOUS
<1> USE FrameBounds
<1>1. ASSUME stage # "start", held' = held \cup {AllocPpn}, CanAlloc, fault # "exhausted",
             fault' # "exhausted"
      PROVE  Pool!Acquire
  <2>1. AllocPpn \in Frames \ held
    BY <1>1, AllocIsFresh
  <2> QED BY <1>1, <2>1 DEF Pool!Acquire
<1>2. ASSUME stage # "start", UNCHANGED held, ~CanAlloc, fault' = "exhausted"
      PROVE  Pool!Refuse
  <2>1. recycled = <<>> /\ current = MemoryEnd
    BY <1>2 DEF CanAlloc, IInv, BootShape
  <2>2. held = Frames
    <3>1. Recycled = {}
      BY <2>1 DEF Recycled
    <3> QED BY <1>2, <2>1, <3>1 DEF IInv, NoFrameLostOrShared, Frames
  <2> QED BY <1>2, <2>2 DEF Pool!Refuse
<1>3. CASE FrameAlloc
  BY <1>1, <1>2, <1>3 DEF FrameAlloc, Pool!Next
<1>4. CASE DmaAllocPage
  BY <1>1, <1>2, <1>4 DEF DmaAllocPage, Pool!Next
<1>5. ASSUME NEW ppn \in held, FrameDrop(ppn) PROVE Pool!Release
  BY <1>5 DEF FrameDrop, Pool!Release, IInv, NoAllocatorPanic
<1>6. ASSUME UNCHANGED <<held, fault>> PROVE UNCHANGED Pool!vars
  BY <1>6 DEF Pool!vars
<1>7. CASE InitFrameAllocator \/ KernelSpaceBuilt \/ DmaAllocated \/ Halted \/ UNCHANGED vars
  BY <1>6, <1>7 DEF InitFrameAllocator, KernelSpaceBuilt, DmaAllocated, Halted, vars
<1> QED BY <1>3, <1>4, <1>5, <1>7 DEF Next, Pool!Next

\* StackFrameAllocator with its RAII handles implements the abstract pool of
\* frames, for every memory size.
THEOREM FramesImplementPool == Spec => ImplementsPool
<1>1. Init => Pool!Init
  BY PoolInit
<1>2. IInv /\ IInv' /\ [Next]_vars => [Pool!Next]_Pool!vars
  BY PoolStep
<1> QED BY <1>1, <1>2, Invariance, PTL DEF Spec, ImplementsPool, Pool!Spec
=============================================================================
