------------------------ MODULE StrideSchedulerProofs -----------------------
(***************************************************************************)
(* Proofs about StrideScheduler for any number of tasks, any BIG_STRIDE    *)
(* and any sequence of set_prio calls.                                     *)
(***************************************************************************)
EXTENDS StrideScheduler, Integers, SequenceTheorems, TLAPS

(* Vectors without duplicates.                                             *)

Elems(s) == {s[i] : i \in 1..Len(s)}
NoDup(s) == \A i, j \in 1..Len(s) : s[i] = s[j] => i = j

\* Vec::push of an element that is not there yet.
LEMMA AppendNoDup ==
    ASSUME NEW S, NEW s \in Seq(S), NEW e \in S
    PROVE  /\ Append(s, e) \in Seq(S)
           /\ Elems(Append(s, e)) = Elems(s) \cup {e}
           /\ NoDup(s) /\ e \notin Elems(s) => NoDup(Append(s, e))
<1>1. /\ Append(s, e) \in Seq(S) /\ Len(Append(s, e)) = Len(s) + 1 /\ Len(s) \in Nat
      /\ \A i \in 1..Len(s) : Append(s, e)[i] = s[i]
      /\ Append(s, e)[Len(s) + 1] = e
  OBVIOUS
<1>2. Elems(Append(s, e)) = Elems(s) \cup {e}
  BY <1>1 DEF Elems
<1>3. NoDup(s) /\ e \notin Elems(s) => NoDup(Append(s, e))
  <2>1. e \notin Elems(s) => \A i \in 1..Len(s) : s[i] # e
    BY DEF Elems
  <2> QED BY <1>1, <2>1 DEF NoDup
<1> QED BY <1>1, <1>2, <1>3

\* Vec::remove(idx) from a vector without duplicates.
LEMMA RemoveNoDup ==
    ASSUME NEW S, NEW s \in Seq(S), NEW k \in 1..Len(s), NoDup(s)
    PROVE  /\ RemoveAt(s, k) \in Seq(S)
           /\ Elems(RemoveAt(s, k)) = Elems(s) \ {s[k]}
           /\ NoDup(RemoveAt(s, k))
<1> DEFINE n == Len(s)
           a == SubSeq(s, 1, k - 1)
           b == SubSeq(s, k + 1, n)
           r == RemoveAt(s, k)
<1>0. n \in Nat /\ k \in Nat /\ 1 <= k /\ k <= n
  OBVIOUS
<1>1. \A i \in 1..n : s[i] \in S
  OBVIOUS
<1> HIDE DEF n
<1>2. /\ a \in Seq(S) /\ Len(a) = k - 1
      /\ \A i \in 1..(k-1) : a[i] = s[i]
  <2>1. 1 \in Int /\ k - 1 \in Int /\ \A i \in 1..(k-1) : s[i] \in S
    BY <1>0, <1>1
  <2>2. /\ a \in Seq(S) /\ Len(a) = IF 1 <= k-1 THEN (k-1)-1+1 ELSE 0
        /\ \A i \in 1..(k-1)-1+1 : a[i] = s[1+i-1]
    BY <2>1, SubSeqProperties
  <2> QED BY <1>0, <2>2
<1>3. /\ b \in Seq(S) /\ Len(b) = n - k
      /\ \A i \in 1..(n-k) : b[i] = s[k+i]
  <2>1. k + 1 \in Int /\ n \in Int /\ \A i \in (k+1)..n : s[i] \in S
    BY <1>0, <1>1
  <2>2. /\ b \in Seq(S) /\ Len(b) = IF k+1 <= n THEN n-(k+1)+1 ELSE 0
        /\ \A i \in 1..n-(k+1)+1 : b[i] = s[(k+1)+i-1]
    BY <2>1, SubSeqProperties
  <2> QED BY <1>0, <2>2
<1>4. r = a \o b
  BY DEF RemoveAt, n
<1> HIDE DEF a, b, r
<1>5. /\ r \in Seq(S) /\ Len(r) = n - 1
      /\ \A i \in 1..(n-1) : r[i] = IF i < k THEN s[i] ELSE s[i+1]
  <2>1. /\ r \in Seq(S) /\ Len(r) = Len(a) + Len(b)
        /\ \A i \in 1..(Len(a)+Len(b)) : r[i] = IF i <= Len(a) THEN a[i] ELSE b[i - Len(a)]
    BY <1>2, <1>3, <1>4, ConcatProperties
  <2>2. ASSUME NEW i \in 1..(n-1) PROVE r[i] = IF i < k THEN s[i] ELSE s[i+1]
    <3>1. CASE i < k
      BY <1>0, <1>2, <1>3, <2>1, <3>1
    <3>2. CASE ~(i < k)
      <4>1. i - (k-1) \in 1..(n-k) /\ r[i] = b[i-(k-1)]
        BY <1>0, <1>2, <1>3, <2>1, <3>2
      <4>2. b[i-(k-1)] = s[k+(i-(k-1))]
        BY <1>3, <4>1
      <4>3. k+(i-(k-1)) = i + 1
        BY <1>0
      <4> QED BY <4>1, <4>2, <4>3, <3>2
    <3> QED BY <3>1, <3>2
  <2> QED BY <1>0, <1>2, <1>3, <2>1, <2>2
<1>6. \A i, j \in 1..n : s[i] = s[j] => i = j
  BY DEF NoDup, n
<1>7. NoDup(r)
  <2> SUFFICES ASSUME NEW i \in 1..(n-1), NEW j \in 1..(n-1), r[i] = r[j] PROVE i = j
    BY <1>5 DEF NoDup
  <2> QED BY <1>0, <1>5, <1>6
<1>8. Elems(r) = Elems(s) \ {s[k]}
  <2>1. Elems(r) = {r[i] : i \in 1..(n-1)} /\ Elems(s) = {s[i] : i \in 1..n}
    BY <1>5 DEF Elems, n
  <2>2. ASSUME NEW i \in 1..(n-1) PROVE r[i] \in {s[j] : j \in 1..n} /\ r[i] # s[k]
    <3>1. CASE i < k
      BY <1>0, <1>5, <1>6, <3>1
    <3>2. CASE ~(i < k)
      BY <1>0, <1>5, <1>6, <3>2
    <3> QED BY <3>1, <3>2
  <2>3. ASSUME NEW j \in 1..n, s[j] # s[k] PROVE s[j] \in {r[i] : i \in 1..(n-1)}
    <3>1. CASE j < k
      <4>1. j \in 1..(n-1) /\ r[j] = s[j]
        BY <1>0, <1>5, <3>1
      <4> QED BY <4>1
    <3>2. CASE j > k
      <4>1. j - 1 \in 1..(n-1) /\ ~(j - 1 < k) /\ (j - 1) + 1 = j
        BY <1>0, <3>2
      <4>2. r[j-1] = s[(j-1)+1]
        BY <1>5, <4>1
      <4> QED BY <4>1, <4>2
    <3> QED BY <1>0, <2>3, <3>1, <3>2
  <2> QED BY <2>1, <2>2, <2>3
<1> QED BY <1>5, <1>7, <1>8 DEF r

-----------------------------------------------------------------------------
(* The ready queue holds no task twice, not the running one, and only      *)
(* tasks that were created.                                                *)
QueueShape == /\ NoDup(ready_queue)
              /\ current \notin Elems(ready_queue)
              /\ Elems(ready_queue) \subseteq born
              /\ current \in born \cup {NoTask}

IInv == TypeOK /\ StrideLag /\ QueueShape

\* A pass is never more than half of BIG_STRIDE, because set_prio refuses
\* priorities below 2.
LEMMA PassBound ==
    ASSUME NEW b \in Nat, NEW p \in Nat, p >= 2
    PROVE  b \div p \in Nat /\ b \div p <= b \div 2
<1> DEFINE q == b \div p
<1>1. q \in Nat /\ p * q <= b
  BY Z3
<1> HIDE DEF q
<1>2. 2 * q <= p * q
  BY <1>1, Z3
<1>3. 2 * q <= b
  <2>1. p * q \in Int
    BY <1>1
  <2> QED BY <1>1, <1>2, <2>1
<1>4. q <= b \div 2
  BY <1>1, <1>3
<1> QED BY <1>1, <1>4 DEF q

\* The queue of add_initproc.
LEMMA InitIInv == Init => IInv
<1> SUFFICES ASSUME Init PROVE IInv
  OBVIOUS
<1> USE StrideAssumption
<1>1. ready_queue \in Seq(Tasks) /\ Len(ready_queue) = 1 /\ ready_queue[1] = InitProc
  BY DEF Init
<1>2. Elems(ready_queue) = {InitProc} /\ NoDup(ready_queue)
  BY <1>1 DEF Elems, NoDup
<1>3. TypeOK
  BY <1>1 DEF Init, TypeOK
<1> QED BY <1>2, <1>3 DEF Init, IInv, StrideLag, QueueShape

\* A dispatch: the chosen task had the least stride, so after one pass it is
\* at most MaxPass ahead of everybody in the queue.
LEMMA RunIInv ==
    ASSUME IInv, run_tasks PROVE IInv'
<1> USE StrideAssumption
<1>1. PICK i \in fetch_index : fetch_at(i)
  BY DEF run_tasks
<1> DEFINE t == ready_queue[i]
<1>2. /\ i \in 1..Len(ready_queue) /\ ready_queue \in Seq(Tasks) /\ t \in Tasks
      /\ t \in Elems(ready_queue) /\ Queued = Elems(ready_queue)
  BY <1>1 DEF fetch_index, IInv, TypeOK, Elems, Queued
<1>3. \A b \in Queued : stride[t] <= stride[b]
  BY <1>1 DEF fetch_index, Queued
<1>4. /\ update_stride(t) <= MaxStride
      /\ stride' = [stride EXCEPT ![t] = update_stride(t)]
      /\ ready_queue' = RemoveAt(ready_queue, i)
      /\ current' = t
      /\ seen' = [seen EXCEPT ![t] = Queued]
      /\ UNCHANGED <<prio, born>>
  BY <1>1 DEF fetch_at, run_tasks
<1>5. /\ RemoveAt(ready_queue, i) \in Seq(Tasks)
      /\ Elems(RemoveAt(ready_queue, i)) = Elems(ready_queue) \ {t}
      /\ NoDup(RemoveAt(ready_queue, i))
  BY <1>2, RemoveNoDup DEF IInv, QueueShape
<1> HIDE DEF t
<1>6. /\ stride \in [Tasks -> 0..MaxStride] /\ prio[t] \in Nat /\ prio[t] >= 2
      /\ seen \in [Tasks -> SUBSET Tasks]
  <2>1. /\ prio \in [Tasks -> Nat \ {0, 1}] /\ t \in Tasks
        /\ stride \in [Tasks -> 0..MaxStride] /\ seen \in [Tasks -> SUBSET Tasks]
    BY <1>2 DEF IInv, TypeOK
  <2>2. prio[t] \in Nat \ {0, 1}
    BY <2>1
  <2> QED BY <2>1, <2>2
<1>7. BigStride \div prio[t] \in Nat /\ BigStride \div prio[t] <= MaxPass
  <2>1. ASSUME NEW p \in Nat, p >= 2
        PROVE  BigStride \div p \in Nat /\ BigStride \div p <= BigStride \div 2
    BY <2>1, PassBound
  <2> QED BY <1>6, <2>1 DEF MaxPass
<1>8. /\ update_stride(t) \in 0..MaxStride
      /\ stride[t] <= update_stride(t) /\ update_stride(t) <= stride[t] + MaxPass
  <2>1. MaxPass \in Nat
    BY DEF MaxPass
  <2> QED BY <1>2, <1>4, <1>6, <1>7, <2>1 DEF update_stride
<1>9. /\ \A b \in Tasks : stride'[b] = IF b = t THEN update_stride(t) ELSE stride[b]
      /\ \A b \in Tasks : seen'[b] = IF b = t THEN Queued ELSE seen[b]
      /\ stride' \in [Tasks -> 0..MaxStride]
  BY <1>2, <1>4, <1>6, <1>8
<1>10. Queued \subseteq Tasks /\ seen' \in [Tasks -> SUBSET Tasks]
  <2>1. Queued \subseteq Tasks
    BY DEF Queued, IInv, TypeOK
  <2> QED BY <1>4, <1>6, <2>1
<1>11. TypeOK'
  BY <1>2, <1>4, <1>5, <1>9, <1>10 DEF IInv, TypeOK
<1>12. StrideLag'
  <2> SUFFICES ASSUME NEW a \in Tasks, NEW b \in seen'[a]
               PROVE  stride'[a] <= stride'[b] + MaxPass
    BY DEF StrideLag, MaxPass
  <2>1. b \in Tasks /\ MaxPass \in Nat
    <3>1. b \in Tasks
      BY <1>10
    <3>2. MaxPass \in Nat
      BY DEF MaxPass
    <3> QED BY <3>1, <3>2
  <2>2. stride[b] <= stride'[b] /\ stride[b] \in Nat /\ stride'[b] \in Nat /\ stride[a] \in Nat
        /\ stride'[a] \in Nat /\ stride[t] \in Nat
    <3>1. \A x \in Tasks : stride[x] \in 0..MaxStride /\ stride'[x] \in 0..MaxStride
      BY <1>6, <1>9
    <3>2. t \in Tasks
      BY <1>2
    <3>3. stride[b] <= stride'[b]
      <4>1. CASE b = t
        BY <1>8, <1>9, <3>2, <4>1
      <4>2. CASE b # t
        BY <1>9, <2>1, <3>1, <4>2
      <4> QED BY <4>1, <4>2
    <3> QED BY <2>1, <3>1, <3>2, <3>3
  <2>3. CASE a = t
    <3>1. stride[t] <= stride[b]
      BY <1>3, <1>9, <2>3
    <3>2. stride'[a] <= stride[t] + MaxPass
      BY <1>8, <1>9, <2>3
    <3> QED BY <2>1, <2>2, <3>1, <3>2
  <2>4. CASE a # t
    <3>1. stride[a] <= stride[b] + MaxPass
      BY <1>9, <2>4 DEF IInv, StrideLag
    <3> QED BY <1>9, <2>1, <2>2, <2>4, <3>1
  <2> QED BY <2>3, <2>4
<1>13. QueueShape'
  BY <1>2, <1>4, <1>5 DEF IInv, QueueShape
<1> QED BY <1>11, <1>12, <1>13 DEF IInv

\* Every step of the scheduler preserves the invariant.
LEMMA NextIInv == IInv /\ [Next]_vars => IInv'
<1> SUFFICES ASSUME IInv, [Next]_vars PROVE IInv'
  OBVIOUS
<1> USE StrideAssumption
<1>1. CASE run_tasks
  BY <1>1, RunIInv
<1>2. ASSUME NEW e \in Tasks, e \notin Elems(ready_queue), ready_queue' = Append(ready_queue, e),
             e # current', current' \in born' \cup {NoTask}, e \in born', born \subseteq born',
             current' = NoTask \/ current' = current
      PROVE  ready_queue' \in Seq(Tasks) /\ QueueShape'
  <2>1. /\ Append(ready_queue, e) \in Seq(Tasks)
        /\ Elems(Append(ready_queue, e)) = Elems(ready_queue) \cup {e}
        /\ NoDup(Append(ready_queue, e))
    BY <1>2, AppendNoDup DEF IInv, TypeOK, QueueShape
  <2>2. NoTask \notin Elems(ready_queue)
    BY DEF Elems, IInv, TypeOK
  <2> QED BY <1>2, <2>1, <2>2 DEF IInv, QueueShape
<1>3. CASE suspend
  <2>1. ready_queue' \in Seq(Tasks) /\ QueueShape'
    BY <1>2, <1>3 DEF suspend, IInv, TypeOK, QueueShape
  <2> QED BY <1>3, <2>1 DEF suspend, IInv, TypeOK, StrideLag, MaxPass
<1>4. CASE exit
  <2>1. NoTask \notin Elems(ready_queue)
    BY DEF Elems, IInv, TypeOK
  <2> QED BY <1>4, <2>1 DEF exit, IInv, TypeOK, StrideLag, QueueShape, MaxPass
<1>5. ASSUME NEW c \in Tasks, NEW p \in Nat \ {0, 1}, add_new(c, p) PROVE IInv'
  <2>1. c \notin Elems(ready_queue) /\ c # current
    BY <1>5 DEF add_new, IInv, QueueShape
  <2>2. ready_queue' \in Seq(Tasks) /\ QueueShape'
    BY <1>2, <1>5, <2>1 DEF add_new, IInv, TypeOK, QueueShape
  <2>3. prio' \in [Tasks -> Nat \ {0, 1}]
    BY <1>5 DEF add_new, IInv, TypeOK
  <2> QED BY <1>5, <2>2, <2>3 DEF add_new, IInv, TypeOK, StrideLag, MaxPass
<1>6. ASSUME NEW c \in Tasks, fork(c) \/ spawn(c) PROVE IInv'
  <2>1. CASE fork(c)
    <3>1. prio[current] \in Nat \ {0, 1}
      BY <2>1 DEF fork, add_new, IInv, TypeOK
    <3> QED BY <1>5, <2>1, <3>1 DEF fork
  <2>2. CASE spawn(c)
    BY <1>5, <2>2 DEF spawn
  <2> QED BY <1>6, <2>1, <2>2
<1>7. ASSUME NEW p \in Prios, sys_set_prio(p) PROVE IInv'
  <2>1. prio' \in [Tasks -> Nat \ {0, 1}]
    BY <1>7 DEF sys_set_prio, IInv, TypeOK
  <2> QED BY <1>7, <2>1 DEF sys_set_prio, IInv, TypeOK, StrideLag, QueueShape, MaxPass
<1>8. CASE UNCHANGED vars
  BY <1>8 DEF vars, IInv, TypeOK, StrideLag, QueueShape, MaxPass
<1> QED BY <1>1, <1>3, <1>4, <1>6, <1>7, <1>8 DEF Next

\* The invariant holds in every reachable state.
THEOREM Invariance == SafeSpec => []IInv
BY InitIInv, NextIInv, PTL DEF SafeSpec

\* Strides and priorities stay numbers, and the queue a vector of tasks.
THEOREM SchedulerTyped == SafeSpec => []TypeOK
BY Invariance, PTL DEF IInv

\* Whatever priorities are set, a task is at most BIG_STRIDE / 2 ahead of
\* every task that waited when it was chosen.
THEOREM LagBounded == SafeSpec => []StrideLag
BY Invariance, PTL DEF IInv

-----------------------------------------------------------------------------
\* Each step of the queue is a step of the abstract scheduler.
LEMMA SchedulerStep == IInv /\ [Next]_vars => [Sched!Next]_Sched!vars
<1> SUFFICES ASSUME IInv, [Next]_vars PROVE [Sched!Next]_Sched!vars
  OBVIOUS
<1> USE StrideAssumption
<1>0. Queued = Elems(ready_queue) /\ Queued' = Elems(ready_queue')
  BY DEF Queued, Elems
<1>1. CASE run_tasks
  <2>1. PICK i \in fetch_index : fetch_at(i)
    BY <1>1 DEF run_tasks
  <2>2. i \in 1..Len(ready_queue) /\ ready_queue \in Seq(Tasks)
    BY <2>1 DEF fetch_index, IInv, TypeOK
  <2>3. Elems(RemoveAt(ready_queue, i)) = Elems(ready_queue) \ {ready_queue[i]}
    BY <2>2, RemoveNoDup DEF IInv, QueueShape
  <2>4. ready_queue[i] \in Queued /\ ready_queue[i] \in Tasks
    BY <2>2 DEF Queued
  <2>5. Sched!Dispatch(ready_queue[i])
    BY <1>0, <1>1, <2>1, <2>3, <2>4 DEF run_tasks, fetch_at, Sched!Dispatch
  <2> QED BY <2>4, <2>5 DEF Sched!Next
<1>2. ASSUME NEW e \in Tasks, ready_queue' = Append(ready_queue, e)
      PROVE  Queued' = Queued \cup {e}
  BY <1>0, <1>2, AppendNoDup DEF IInv, TypeOK
<1>3. CASE suspend
  BY <1>2, <1>3 DEF suspend, Sched!Preempt, Sched!Next, IInv, TypeOK
<1>4. CASE exit
  BY <1>0, <1>4 DEF exit, Sched!Leave, Sched!Next
<1>5. ASSUME NEW c \in Tasks, NEW p, add_new(c, p) PROVE Sched!Join(c)
  BY <1>0, <1>2, <1>5 DEF add_new, Sched!Join, IInv, QueueShape
<1>6. ASSUME NEW p \in Prios, sys_set_prio(p) PROVE UNCHANGED Sched!vars
  BY <1>0, <1>6 DEF sys_set_prio, Sched!vars
<1>7. CASE UNCHANGED vars
  BY <1>0, <1>7 DEF vars, Sched!vars
<1> QED BY <1>1, <1>3, <1>4, <1>5, <1>6, <1>7 DEF Next, fork, spawn, Sched!Next

\* The ready queue implements the safety part of the abstract scheduler.
THEOREM QueueImplementsScheduler == SafeSpec => ImplementsScheduler
<1>1. Init => Sched!Init
  <2>1. ASSUME Init PROVE Queued = {InitProc}
    <3>1. Len(ready_queue) = 1 /\ ready_queue[1] = InitProc
      BY <2>1 DEF Init
    <3> QED BY <3>1 DEF Queued
  <2> QED BY <2>1, StrideAssumption DEF Init, Sched!Init
<1>2. IInv /\ [Next]_vars => [Sched!Next]_Sched!vars
  BY SchedulerStep
<1> QED BY <1>1, <1>2, Invariance, PTL DEF SafeSpec, ImplementsScheduler, Sched!SafeSpec
=============================================================================
