------------------------- MODULE PidAllocatorProofs -------------------------
(***************************************************************************)
(* Proofs about PidAllocator for any number of processes: identifiers are  *)
(* never shared, no assertion of pid.rs or of the kernel page table fires  *)
(* and kernel stacks stay apart.                                           *)
(***************************************************************************)
EXTENDS PidAllocator, SequenceTheorems, FiniteSetTheorems, TLAPS

(* The areas of KERNEL_SPACE that TcbDrop finds by their start, and the    *)
(* bound that keeps the stacks above the kernel.                           *)
AreasShape ==
    /\ areas = {<<kernel_stack_position(p).bottom, kernel_stack_position(p).top>> : p \in live}
    /\ current <= MaxPids

IInv == TypeOK /\ PidsPartitioned /\ NoPidPanic /\ StacksFollowProcesses /\ AreasShape

-----------------------------------------------------------------------------
\* The stack of a process lies between the kernel and the trampoline, apart
\* from every other stack, with one free page below it (kernel_stack_position).
LEMMA StackLayout ==
    /\ \A p \in Pids : /\ StackPages(p) \cap (0 .. (KernelEnd - 1) \cup {Trampoline}) = {}
                       /\ kernel_stack_position(p).bottom - 1 \notin StackPages(p)
                       /\ kernel_stack_position(p).bottom - 1 \notin
                             (0 .. (KernelEnd - 1) \cup {Trampoline})
                       /\ kernel_stack_position(p).bottom \in Int
                       /\ kernel_stack_position(p).top \in Int
    /\ \A p, q \in Pids : p # q =>
                       /\ StackPages(p) \cap StackPages(q) = {}
                       /\ kernel_stack_position(p).bottom - 1 \notin StackPages(q)
                       /\ kernel_stack_position(p).bottom # kernel_stack_position(q).bottom
BY PidBounds DEF StackPages, kernel_stack_position, KernelStackPages, Pids

\* The identifier that alloc returns is one no process has; it fits the bound
\* because current counts the live identifiers when none is recycled.
LEMMA AllocIsFresh ==
    ASSUME IInv, Cardinality(live) < MaxPids
    PROVE  AllocPid \in Pids \ live
<1> USE PidBounds
<1>1. CASE recycled # <<>>
  <2>1. Len(recycled) \in 1..Len(recycled)
    BY <1>1 DEF IInv, TypeOK
  <2>2. AllocPid \in Recycled
    BY <1>1, <2>1 DEF AllocPid, Recycled
  <2> QED BY <2>2 DEF IInv, TypeOK, PidsPartitioned, AreasShape, Pids
<1>2. CASE recycled = <<>>
  <2>1. Recycled = {} /\ AllocPid = current
    BY <1>2 DEF Recycled, AllocPid
  <2>2. live = 0 .. (current - 1) /\ current \in Nat
    BY <2>1 DEF IInv, PidsPartitioned, TypeOK
  <2>3. Cardinality(0 .. (current - 1)) = current
    <3>1. 0 \in Int /\ current - 1 \in Int
      BY <2>2
    <3>2. Cardinality(0 .. (current - 1)) =
            IF 0 > current - 1 THEN 0 ELSE (current - 1) - 0 + 1
      BY <3>1, FS_Interval
    <3> QED BY <2>2, <3>2
  <2> QED BY <2>1, <2>2, <2>3 DEF Pids
<1> QED BY <1>1, <1>2

\* An allocation keeps [0, current) split between processes and the recycled
\* stack.
LEMMA AllocKeepsPartition ==
    ASSUME IInv, Cardinality(live) < MaxPids, AllocUpdate, live' = live \cup {AllocPid}
    PROVE  /\ current' \in Nat /\ recycled' \in Seq(Nat)
           /\ current' <= MaxPids
           /\ PidsPartitioned'
<1> USE PidBounds
<1>0. AllocPid \in Pids \ live
  BY AllocIsFresh
<1>1. CASE recycled # <<>>
  <2> DEFINE n == Len(recycled)
  <2>1. n \in Nat /\ n > 0
    BY <1>1 DEF IInv, TypeOK
  <2>2. /\ recycled' = SubSeq(recycled, 1, n - 1) /\ current' = current
        /\ AllocPid = recycled[n]
    BY <1>1 DEF AllocUpdate, AllocPid
  <2>3. \A i \in 1..n : recycled[i] \in Nat
    BY <2>1 DEF IInv, TypeOK
  <2>4. /\ Len(recycled') = n - 1
        /\ recycled' \in Seq(Nat)
        /\ \A i \in 1..(n-1) : recycled'[i] = recycled[i]
    <3>1. 1 \in Int /\ n - 1 \in Int /\ \A i \in 1..(n-1) : recycled[i] \in Nat
      BY <2>1, <2>3
    <3> HIDE DEF n
    <3>2. /\ SubSeq(recycled, 1, n-1) \in Seq(Nat)
          /\ Len(SubSeq(recycled, 1, n-1)) = IF 1 <= n-1 THEN (n-1)-1+1 ELSE 0
          /\ \A i \in 1 .. (n-1)-1+1 : SubSeq(recycled, 1, n-1)[i] = recycled[1+i-1]
      BY <3>1, SubSeqProperties
    <3> QED BY <2>1, <2>2, <3>2
  <2>5. \A i, j \in 1..n : recycled[i] = recycled[j] => i = j
    BY DEF IInv, PidsPartitioned
  <2>6. Recycled' = {recycled[i] : i \in 1..(n-1)}
    <3>1. Recycled' = {recycled'[i] : i \in 1..(n-1)}
      BY <2>4 DEF Recycled
    <3> QED BY <3>1, <2>4
  <2>7. Recycled' = Recycled \ {AllocPid} /\ AllocPid \in Recycled
    <3>1. Recycled = {recycled[i] : i \in 1..n}
      BY DEF Recycled
    <3> HIDE DEF n
    <3> QED BY <2>1, <2>2, <2>5, <2>6, <3>1
  <2>8. \A i, j \in 1..Len(recycled') : recycled'[i] = recycled'[j] => i = j
    <3> HIDE DEF n
    <3> QED BY <2>1, <2>4, <2>5
  <2>9. PidsPartitioned'
    BY <2>2, <2>7, <2>8 DEF IInv, PidsPartitioned
  <2> QED BY <2>2, <2>4, <2>9 DEF IInv, TypeOK, AreasShape
<1>2. CASE recycled = <<>>
  <2>1. /\ AllocPid = current /\ current' = current + 1 /\ recycled' = recycled
    BY <1>2 DEF AllocPid, AllocUpdate
  <2>2. Recycled' = {} /\ Recycled = {}
    BY <1>2, <2>1 DEF Recycled
  <2>3. 0 .. current = (0 .. (current - 1)) \cup {current} /\ current < MaxPids
    BY <1>0, <2>1 DEF IInv, TypeOK, Pids
  <2> QED BY <1>2, <2>1, <2>2, <2>3 DEF IInv, TypeOK, PidsPartitioned
<1> QED BY <1>1, <1>2

\* Live identifiers are within the bound.
LEMMA LiveInBound == IInv => live \subseteq Pids
BY PidBounds DEF IInv, TypeOK, PidsPartitioned, AreasShape, Pids

-----------------------------------------------------------------------------
\* The new allocator, with no process, satisfies the invariant.
LEMMA InitIInv == Init => IInv
<1> SUFFICES ASSUME Init PROVE IInv
  OBVIOUS
<1>1. Recycled = {} /\ 0 .. (0 - 1) = {}
  BY DEF Init, Recycled
<1> QED BY <1>1, PidBounds DEF Init, IInv, TypeOK, PidsPartitioned, NoPidPanic,
        StacksFollowProcesses, AreasShape, Faults

\* Creating and dropping a TaskControlBlock preserve the invariant.
LEMMA NextIInv == IInv /\ [Next]_vars => IInv'
<1> SUFFICES ASSUME IInv, [Next]_vars PROVE IInv'
  OBVIOUS
<1> USE PidBounds
<1>0. live \subseteq Pids
  BY LiveInBound
<1>1. CASE TcbNew
  <2>1. AllocPid \in Pids \ live
    BY <1>1, AllocIsFresh DEF TcbNew
  <2>2. /\ current' \in Nat /\ recycled' \in Seq(Nat) /\ current' <= MaxPids
        /\ PidsPartitioned'
    BY <1>1, AllocKeepsPartition DEF TcbNew
  <2>3. StackPages(AllocPid) \cap mapped = {}
    BY <1>0, <2>1, StackLayout DEF IInv, StacksFollowProcesses
  <2>4. /\ live' = live \cup {AllocPid}
        /\ mapped' = mapped \cup StackPages(AllocPid)
        /\ areas' = areas \cup {<<kernel_stack_position(AllocPid).bottom,
                                  kernel_stack_position(AllocPid).top>>}
        /\ fault' = fault
    BY <1>1, <2>3 DEF TcbNew
  <2>5. StacksFollowProcesses'
    BY <2>4 DEF IInv, StacksFollowProcesses, StackPages, kernel_stack_position
  <2>6. AreasShape'
    BY <2>2, <2>4 DEF IInv, AreasShape, kernel_stack_position
  <2>7. peak' \in Nat
    <3>1. IsFiniteSet(0 .. (MaxPids - 1)) /\ live' \subseteq 0 .. (MaxPids - 1)
      <4>1. IsFiniteSet(0 .. (MaxPids - 1))
        BY FS_Interval
      <4> QED BY <4>1, <1>0, <2>1, <2>4 DEF Pids
    <3>2. Cardinality(live') \in Nat
      BY <3>1, FS_Subset, FS_CardinalityType
    <3> QED BY <1>1, <3>2 DEF TcbNew, IInv, TypeOK
  <2>8. TypeOK'
    <3>1. areas' \subseteq (Int \X Int)
      BY <2>1, <2>4, StackLayout DEF IInv, TypeOK
    <3>2. mapped' \subseteq Int
      <4>1. StackPages(AllocPid) \subseteq Int
        BY DEF StackPages
      <4> QED BY <2>4, <4>1 DEF IInv, TypeOK
    <3> QED BY <2>1, <2>2, <2>4, <2>7, <3>1, <3>2 DEF IInv, TypeOK, Pids
  <2> QED BY <2>2, <2>4, <2>5, <2>6, <2>8 DEF IInv, NoPidPanic
<1>2. ASSUME NEW pid \in live, TcbDrop(pid) PROVE IInv'
  <2> DEFINE b == kernel_stack_position(pid).bottom
             t == kernel_stack_position(pid).top
  <2>1. pid < current /\ pid \notin Recycled /\ pid \in Nat /\ pid \in Pids
    BY <1>0 DEF IInv, TypeOK, PidsPartitioned, Pids
  <2>2. /\ recycled' = Append(recycled, pid) /\ live' = live \ {pid}
        /\ RemoveArea(b)
        /\ UNCHANGED <<current, peak>>
    BY <1>2, <2>1 DEF TcbDrop
  <2>3. {a \in areas : a[1] = b} = {<<b, t>>}
    <3>1. <<b, t>> \in areas
      BY DEF IInv, AreasShape
    <3>2. ASSUME NEW a \in areas, a[1] = b PROVE a = <<b, t>>
      <4>1. PICK q \in live : a = <<kernel_stack_position(q).bottom, kernel_stack_position(q).top>>
        BY <3>2 DEF IInv, AreasShape
      <4>2. q = pid
        BY <1>0, <2>1, <3>2, <4>1, StackLayout
      <4> QED BY <4>1, <4>2
    <3> QED BY <3>1, <3>2
  <2>4. UNION {a[1] .. (a[2] - 1) : a \in {<<b, t>>}} = StackPages(pid)
    BY DEF StackPages
  <2>5. StackPages(pid) \subseteq mapped
    BY DEF IInv, StacksFollowProcesses
  <2>6. /\ areas' = areas \ {<<b, t>>}
        /\ mapped' = mapped \ StackPages(pid)
        /\ fault' = fault
    BY <2>2, <2>3, <2>4, <2>5 DEF RemoveArea
  <2>7. /\ recycled' \in Seq(Nat) /\ Len(recycled') = Len(recycled) + 1
        /\ \A i \in 1..Len(recycled) : recycled'[i] = recycled[i]
        /\ recycled'[Len(recycled) + 1] = pid
        /\ Len(recycled) \in Nat
    BY <2>1, <2>2 DEF IInv, TypeOK
  <2>8. Recycled' = Recycled \cup {pid}
    BY <2>7 DEF Recycled
  <2>9. \A i, j \in 1..Len(recycled') : recycled'[i] = recycled'[j] => i = j
    <3>1. \A i, j \in 1..Len(recycled) : recycled[i] = recycled[j] => i = j
      BY DEF IInv, PidsPartitioned
    <3>2. \A i \in 1..Len(recycled) : recycled[i] # pid
      BY <2>1 DEF Recycled
    <3> QED BY <2>7, <3>1, <3>2
  <2>10. PidsPartitioned'
    BY <2>2, <2>8, <2>9 DEF IInv, PidsPartitioned
  <2>11. StacksFollowProcesses'
    <3>1. \A q \in live' : StackPages(q) \cap StackPages(pid) = {}
      BY <1>0, <2>1, <2>2, StackLayout
    <3>2. StackPages(pid) \cap (0 .. (KernelEnd - 1) \cup {Trampoline}) = {}
      BY <2>1, StackLayout
    <3>3. mapped = 0 .. (KernelEnd - 1) \cup {Trampoline} \cup UNION {StackPages(q) : q \in live}
      BY DEF IInv, StacksFollowProcesses
    <3>4. UNION {StackPages(q) : q \in live} =
            StackPages(pid) \cup UNION {StackPages(q) : q \in live'}
      BY <2>2
    <3>5. (UNION {StackPages(q) : q \in live'}) \cap StackPages(pid) = {}
      BY <3>1
    <3>6. mapped' = 0 .. (KernelEnd - 1) \cup {Trampoline} \cup UNION {StackPages(q) : q \in live'}
      BY <2>6, <3>2, <3>3, <3>4, <3>5
    <3> QED BY <3>6 DEF StacksFollowProcesses, StackPages, kernel_stack_position
  <2>12. AreasShape'
    <3>1. \A q \in live' : kernel_stack_position(q).bottom # b
      BY <1>0, <2>1, <2>2, StackLayout
    <3>2. areas' = {<<kernel_stack_position(q).bottom, kernel_stack_position(q).top>> : q \in live'}
      BY <2>2, <2>6, <3>1 DEF IInv, AreasShape
    <3> QED BY <2>2, <3>2 DEF IInv, AreasShape, kernel_stack_position
  <2>13. TypeOK'
    BY <2>2, <2>6, <2>7 DEF IInv, TypeOK
  <2> QED BY <2>6, <2>10, <2>11, <2>12, <2>13 DEF IInv, NoPidPanic
<1>3. CASE UNCHANGED vars
  BY <1>3 DEF vars, IInv, TypeOK, PidsPartitioned, NoPidPanic, StacksFollowProcesses,
     AreasShape, Recycled, StackPages, kernel_stack_position
<1> QED BY <1>1, <1>2, <1>3 DEF Next

\* The invariant holds in every reachable state.
THEOREM Invariance == Spec => []IInv
BY InitIInv, NextIInv, PTL DEF Spec

\* No identifier is lost or given to two processes (alloc, dealloc).
THEOREM PidsNeverShared == Spec => []PidsPartitioned
BY Invariance, PTL DEF IInv

\* None of the assertions on the path of a TaskControlBlock's creation and
\* drop (dealloc, PageTable::map, PageTable::unmap) can fire.
THEOREM PidsNeverPanic == Spec => []NoPidPanic
BY Invariance, PTL DEF IInv

\* The kernel page table maps exactly the stacks of the existing processes.
THEOREM StacksMatchProcesses == Spec => []StacksFollowProcesses
BY Invariance, PTL DEF IInv

\* Kernel stacks have a guard page below and never overlap.
THEOREM StacksStayIsolated == Spec => []StacksIsolated
<1>1. IInv => StacksIsolated
  BY LiveInBound, StackLayout DEF IInv, StacksFollowProcesses, StacksIsolated
<1> QED BY <1>1, Invariance, PTL

\* alloc counts on exactly when the processes are more than ever before: with
\* an identifier recycled, the processes are fewer than the identifiers.
LEMMA DenseStep == IInv /\ PidsAreDense /\ [Next]_vars => PidsAreDense'
<1> SUFFICES ASSUME IInv, PidsAreDense, [Next]_vars PROVE PidsAreDense'
  OBVIOUS
<1>1. CASE TcbNew
  <2>1. /\ PidsPartitioned' /\ current' \in Nat /\ live' = live \cup {AllocPid}
        /\ AllocUpdate
    BY <1>1, AllocKeepsPartition DEF TcbNew
  <2>2. \A n \in Nat : IsFiniteSet(0 .. (n - 1)) /\ Cardinality(0 .. (n - 1)) = n
    <3> SUFFICES ASSUME NEW n \in Nat
                 PROVE  IsFiniteSet(0 .. (n - 1)) /\ Cardinality(0 .. (n - 1)) = n
      OBVIOUS
    <3>1. 0 \in Int /\ n - 1 \in Int
      OBVIOUS
    <3> QED BY <3>1, FS_Interval
  <2>3. current = peak /\ current \in Nat
    BY DEF PidsAreDense, IInv, TypeOK
  <2>4. CASE recycled # <<>>
    <3>1. current' = current
      BY <2>1, <2>4 DEF AllocUpdate
    <3>2. live' \subseteq 0 .. (current - 1)
      BY <2>1, <3>1 DEF PidsPartitioned
    <3>3. Cardinality(live') <= current /\ Cardinality(live') \in Nat
      <4> DEFINE S == 0 .. (current - 1)
      <4>1. IsFiniteSet(S) /\ Cardinality(S) = current
        BY <2>2, <2>3
      <4>2. live' \in SUBSET S
        BY <3>2
      <4> HIDE DEF S
      <4>3. IsFiniteSet(live') /\ Cardinality(live') <= Cardinality(S)
        BY <4>1, <4>2, FS_Subset
      <4> QED BY <4>1, <4>3, FS_CardinalityType
    <3> QED BY <1>1, <2>3, <3>1, <3>3 DEF TcbNew, PidsAreDense
  <2>5. CASE recycled = <<>>
    <3>1. current' = current + 1 /\ recycled' = <<>>
      BY <2>1, <2>5 DEF AllocUpdate
    <3>2. Recycled' = {}
      BY <3>1 DEF Recycled
    <3>3. live' = 0 .. (current' - 1)
      BY <2>1, <3>2 DEF PidsPartitioned
    <3>4. Cardinality(live') = current + 1
      BY <2>2, <2>3, <3>1, <3>3
    <3> QED BY <1>1, <2>3, <3>1, <3>4 DEF TcbNew, PidsAreDense
  <2> QED BY <2>4, <2>5
<1>2. ASSUME NEW pid \in live, TcbDrop(pid) PROVE PidsAreDense'
  BY <1>2 DEF TcbDrop, PidsAreDense
<1>3. CASE UNCHANGED vars
  BY <1>3 DEF vars, PidsAreDense
<1> QED BY <1>1, <1>2, <1>3 DEF Next

\* Identifiers, and the kernel's stack region with them, reach no further than
\* the most processes that ever existed at once (alloc prefers recycled ones).
THEOREM PidsStayDense == Spec => []PidsAreDense
<1>1. Init => PidsAreDense
  BY DEF Init, PidsAreDense
<1> QED BY <1>1, DenseStep, Invariance, PTL DEF Spec

-----------------------------------------------------------------------------
\* A TaskControlBlock's creation takes an identifier from the abstract pool
\* and its drop gives it back.
LEMMA PoolStep == IInv /\ [Next]_vars => [Pool!Next]_Pool!vars
<1> SUFFICES ASSUME IInv, [Next]_vars PROVE [Pool!Next]_Pool!vars
  OBVIOUS
<1>1. CASE TcbNew
  <2>1. AllocPid \in Pids \ live
    BY <1>1, AllocIsFresh DEF TcbNew
  <2> QED BY <1>1, <2>1 DEF TcbNew, Pool!Next, Pool!Acquire
<1>2. ASSUME NEW pid \in live, TcbDrop(pid) PROVE Pool!Release
  BY <1>2 DEF TcbDrop, Pool!Release
<1>3. CASE UNCHANGED vars
  BY <1>3 DEF vars, Pool!vars
<1> QED BY <1>1, <1>2, <1>3 DEF Next, Pool!Next

\* PidAllocator implements the abstract pool of identifiers.
THEOREM PidsImplementPool == Spec => ImplementsPool
<1>1. Init => Pool!Init
  BY DEF Init, Pool!Init
<1>2. IInv /\ [Next]_vars => [Pool!Next]_Pool!vars
  BY PoolStep
<1> QED BY <1>1, <1>2, Invariance, PTL DEF Spec, ImplementsPool, Pool!Spec
=============================================================================
