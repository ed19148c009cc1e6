---------------------------- MODULE ProcessProofs ---------------------------
(***************************************************************************)
(* Proofs about Process for any number of tasks: the bookkeeping of the    *)
(* ready queue, of the parent and child links, and the unreachability of   *)
(* sys_waitpid's strong_count panic.                                       *)
(***************************************************************************)
EXTENDS Process, Integers, SequenceTheorems, TLAPS

(* Vectors without duplicates.                                             *)

Elems(s) == {s[i] : i \in 1..Len(s)}
NoDup(s) == \A i, j \in 1..Len(s) : s[i] = s[j] => i = j

\* Vec::push of an element that is not there yet.
LEMMA AppendNoDup ==
    ASSUME NEW S, NEW s \in Seq(S), NEW e \in S
    PROVE  /\ Append(s, e) \in Seq(S)
           /\ Elems(Append(s, e)) = Elems(s) \cup {e}
           /\ NoDup(s) /\ e \notin Elems(s) => NoDup(Append(s, e))
<1>1. /\ Append(s, e) \in Seq(S) /\ Len(Append(s, e)) = Len(s) + 1 /\ Len(s) \in Nat
      /\ \A i \in 1..Len(s) : Append(s, e)[i] = s[i]
      /\ Append(s, e)[Len(s) + 1] = e
  OBVIOUS
<1>2. Elems(Append(s, e)) = Elems(s) \cup {e}
  BY <1>1 DEF Elems
<1>3. NoDup(s) /\ e \notin Elems(s) => NoDup(Append(s, e))
  <2>1. e \notin Elems(s) => \A i \in 1..Len(s) : s[i] # e
    BY DEF Elems
  <2> QED BY <1>1, <2>1 DEF NoDup
<1> QED BY <1>1, <1>2, <1>3

\* Vec::remove(idx) from a vector without duplicates.
LEMMA RemoveNoDup ==
    ASSUME NEW S, NEW s \in Seq(S), NEW k \in 1..Len(s), NoDup(s)
    PROVE  /\ RemoveAt(s, k) \in Seq(S)
           /\ Elems(RemoveAt(s, k)) = Elems(s) \ {s[k]}
           /\ NoDup(RemoveAt(s, k))
<1> DEFINE n == Len(s)
           a == SubSeq(s, 1, k - 1)
           b == SubSeq(s, k + 1, n)
           r == RemoveAt(s, k)
<1>0. n \in Nat /\ k \in Nat /\ 1 <= k /\ k <= n
  OBVIOUS
<1>1. \A i \in 1..n : s[i] \in S
  OBVIOUS
<1> HIDE DEF n
<1>2. /\ a \in Seq(S) /\ Len(a) = k - 1
      /\ \A i \in 1..(k-1) : a[i] = s[i]
  <2>1. 1 \in Int /\ k - 1 \in Int /\ \A i \in 1..(k-1) : s[i] \in S
    BY <1>0, <1>1
  <2>2. /\ a \in Seq(S) /\ Len(a) = IF 1 <= k-1 THEN (k-1)-1+1 ELSE 0
        /\ \A i \in 1..(k-1)-1+1 : a[i] = s[1+i-1]
    BY <2>1, SubSeqProperties
  <2> QED BY <1>0, <2>2
<1>3. /\ b \in Seq(S) /\ Len(b) = n - k
      /\ \A i \in 1..(n-k) : b[i] = s[k+i]
  <2>1. k + 1 \in Int /\ n \in Int /\ \A i \in (k+1)..n : s[i] \in S
    BY <1>0, <1>1
  <2>2. /\ b \in Seq(S) /\ Len(b) = IF k+1 <= n THEN n-(k+1)+1 ELSE 0
        /\ \A i \in 1..n-(k+1)+1 : b[i] = s[(k+1)+i-1]
    BY <2>1, SubSeqProperties
  <2> QED BY <1>0, <2>2
<1>4. r = a \o b
  BY DEF RemoveAt, n
<1> HIDE DEF a, b, r
<1>5. /\ r \in Seq(S) /\ Len(r) = n - 1
      /\ \A i \in 1..(n-1) : r[i] = IF i < k THEN s[i] ELSE s[i+1]
  <2>1. /\ r \in Seq(S) /\ Len(r) = Len(a) + Len(b)
        /\ \A i \in 1..(Len(a)+Len(b)) : r[i] = IF i <= Len(a) THEN a[i] ELSE b[i - Len(a)]
    BY <1>2, <1>3, <1>4, ConcatProperties
  <2>2. ASSUME NEW i \in 1..(n-1) PROVE r[i] = IF i < k THEN s[i] ELSE s[i+1]
    <3>1. CASE i < k
      BY <1>0, <1>2, <1>3, <2>1, <3>1
    <3>2. CASE ~(i < k)
      <4>1. i - (k-1) \in 1..(n-k) /\ r[i] = b[i-(k-1)]
        BY <1>0, <1>2, <1>3, <2>1, <3>2
      <4>2. b[i-(k-1)] = s[k+(i-(k-1))]
        BY <1>3, <4>1
      <4>3. k+(i-(k-1)) = i + 1
        BY <1>0
      <4> QED BY <4>1, <4>2, <4>3, <3>2
    <3> QED BY <3>1, <3>2
  <2> QED BY <1>0, <1>2, <1>3, <2>1, <2>2
<1>6. \A i, j \in 1..n : s[i] = s[j] => i = j
  BY DEF NoDup, n
<1>7. NoDup(r)
  <2> SUFFICES ASSUME NEW i \in 1..(n-1), NEW j \in 1..(n-1), r[i] = r[j] PROVE i = j
    BY <1>5 DEF NoDup
  <2> QED BY <1>0, <1>5, <1>6
<1>8. Elems(r) = Elems(s) \ {s[k]}
  <2>1. Elems(r) = {r[i] : i \in 1..(n-1)} /\ Elems(s) = {s[i] : i \in 1..n}
    BY <1>5 DEF Elems, n
  <2>2. ASSUME NEW i \in 1..(n-1) PROVE r[i] \in {s[j] : j \in 1..n} /\ r[i] # s[k]
    <3>1. CASE i < k
      BY <1>0, <1>5, <1>6, <3>1
    <3>2. CASE ~(i < k)
      BY <1>0, <1>5, <1>6, <3>2
    <3> QED BY <3>1, <3>2
  <2>3. ASSUME NEW j \in 1..n, s[j] # s[k] PROVE s[j] \in {r[i] : i \in 1..(n-1)}
    <3>1. CASE j < k
      <4>1. j \in 1..(n-1) /\ r[j] = s[j]
        BY <1>0, <1>5, <3>1
      <4> QED BY <4>1
    <3>2. CASE j > k
      <4>1. j - 1 \in 1..(n-1) /\ ~(j - 1 < k) /\ (j - 1) + 1 = j
        BY <1>0, <3>2
      <4>2. r[j-1] = s[(j-1)+1]
        BY <1>5, <4>1
      <4> QED BY <4>1, <4>2
    <3> QED BY <1>0, <2>3, <3>1, <3>2
  <2> QED BY <2>1, <2>2, <2>3
<1> QED BY <1>5, <1>7, <1>8 DEF r

\* Extending a vector by another one that shares no element with it.
LEMMA ConcatNoDup ==
    ASSUME NEW S, NEW s \in Seq(S), NEW t \in Seq(S)
    PROVE  /\ s \o t \in Seq(S)
           /\ Elems(s \o t) = Elems(s) \cup Elems(t)
           /\ NoDup(s) /\ NoDup(t) /\ Elems(s) \cap Elems(t) = {} => NoDup(s \o t)
<1> DEFINE r == s \o t
           m == Len(s)
           n == Len(t)
<1>1. /\ r \in Seq(S) /\ Len(r) = m + n /\ m \in Nat /\ n \in Nat
      /\ \A i \in 1..(m+n) : r[i] = IF i <= m THEN s[i] ELSE t[i - m]
  BY ConcatProperties
<1>2. Elems(s) = {s[i] : i \in 1..m} /\ Elems(t) = {t[i] : i \in 1..n}
      /\ Elems(r) = {r[i] : i \in 1..(m+n)}
  BY <1>1 DEF Elems
<1> HIDE DEF r, m, n
<1>3. ASSUME NEW i \in 1..(m+n)
      PROVE  \/ i <= m /\ i \in 1..m /\ r[i] = s[i]
             \/ i > m /\ i - m \in 1..n /\ r[i] = t[i - m]
  BY <1>1
<1>4. Elems(r) = Elems(s) \cup Elems(t)
  <2>1. \A i \in 1..(m+n) : r[i] \in Elems(s) \cup Elems(t)
    BY <1>2, <1>3
  <2>2. ASSUME NEW i \in 1..m PROVE s[i] \in Elems(r)
    <3>1. i \in 1..(m+n) /\ r[i] = s[i]
      BY <1>1
    <3> QED BY <1>2, <3>1
  <2>3. ASSUME NEW i \in 1..n PROVE t[i] \in Elems(r)
    <3>1. i + m \in 1..(m+n) /\ ~(i + m <= m) /\ (i + m) - m = i
      BY <1>1
    <3>2. r[i + m] = t[(i + m) - m]
      BY <1>1, <3>1
    <3> QED BY <1>2, <3>1, <3>2
  <2> QED BY <1>2, <2>1, <2>2, <2>3
<1>5. ASSUME NoDup(s), NoDup(t), Elems(s) \cap Elems(t) = {} PROVE NoDup(r)
  <2>1. /\ \A i, j \in 1..m : s[i] = s[j] => i = j
        /\ \A i, j \in 1..n : t[i] = t[j] => i = j
        /\ \A i \in 1..m, j \in 1..n : s[i] # t[j]
    <3>1. /\ \A i, j \in 1..m : s[i] = s[j] => i = j
          /\ \A i, j \in 1..n : t[i] = t[j] => i = j
      BY <1>5 DEF NoDup, m, n
    <3>2. ASSUME NEW i \in 1..m, NEW j \in 1..n PROVE s[i] # t[j]
      <4>1. s[i] \in Elems(s) /\ t[j] \in Elems(t)
        BY <1>2
      <4> QED BY <1>5, <4>1
    <3> QED BY <3>1, <3>2
  <2> SUFFICES ASSUME NEW i \in 1..(m+n), NEW j \in 1..(m+n), r[i] = r[j] PROVE i = j
    BY <1>1 DEF NoDup
  <2>2. /\ \/ i <= m /\ i \in 1..m /\ r[i] = s[i]
           \/ i > m /\ i - m \in 1..n /\ r[i] = t[i - m]
        /\ \/ j <= m /\ j \in 1..m /\ r[j] = s[j]
           \/ j > m /\ j - m \in 1..n /\ r[j] = t[j - m]
    BY <1>3
  <2>3. i <= m <=> j <= m
    BY <1>1, <2>1, <2>2
  <2>4. CASE i <= m
    BY <1>1, <2>1, <2>2, <2>3, <2>4
  <2>5. CASE ~(i <= m)
    <3>1. i - m = j - m
      BY <1>1, <2>1, <2>2, <2>3, <2>5
    <3> QED BY <1>1, <3>1
  <2> QED BY <2>4, <2>5
<1> QED BY <1>1, <1>4, <1>5 DEF r

-----------------------------------------------------------------------------
(* What else the proofs need: a task inside Stdin::read is schedulable,    *)
(* and INITPROC is never a zombie and never a child (its program does not  *)
(* exit, which the theorems assume).                                       *)
InitProcAlive ==
    /\ status[InitProc] \in {"Ready", "Running"}
    /\ parent[InitProc] = NoTask
    /\ \A t \in Tasks : at[t] = "stdin" => status[t] \in {"Ready", "Running"}
    /\ \A t \in Tasks : status[t] \notin {"Ready", "Running"} => child[t] = <<>>

IInv == TypeOK /\ QueuedIffReady /\ OneParent /\ NoPanic /\ InitProcAlive

-----------------------------------------------------------------------------
\* At boot only INITPROC exists, ready and without relatives.
LEMMA InitIInv == Init => IInv
<1> SUFFICES ASSUME Init PROVE IInv
  OBVIOUS
<1> USE ProcessAssumption
<1>1. TypeOK
  BY DEF Init, TypeOK
<1>2. \A p \in Tasks : child[p] = <<>> /\ Kids(p) = {}
  BY DEF Init, Kids
<1>3. OneParent
  BY <1>2 DEF Init, OneParent, Live
<1> QED BY <1>1, <1>2, <1>3 DEF Init, IInv, QueuedIffReady, NoPanic, InitProcAlive

\* OneParent in terms of the element sets of the child vectors.
LEMMA OneParentElems ==
    OneParent <=>
      /\ \A p \in Tasks : NoDup(child[p])
      /\ \A p \in Tasks : \A c \in Elems(child[p]) :
            c \in Live /\ parent[c] = p /\ status[p] \in {"Ready", "Running"}
      /\ \A c \in Live \ {InitProc} : parent[c] \in Tasks /\ c \in Elems(child[parent[c]])
BY DEF OneParent, NoDup, Elems, Kids

\* fork and spawn: the new task joins its parent's vector and nobody else's.
LEMMA NewTaskIInv ==
    ASSUME IInv, InUser, NEW c \in Tasks, NEW pr \in {"charged", "free"}, new_task(c, pr)
    PROVE  IInv'
<1> USE ProcessAssumption
<1>1. /\ current \in Tasks /\ status[current] = "Running" /\ status[c] = "none" /\ c # current
      /\ c # InitProc
  BY DEF InUser, new_task, IInv, TypeOK, QueuedIffReady, InitProcAlive
<1>2. /\ status' = [status EXCEPT ![c] = "Ready"]
      /\ parent' = [parent EXCEPT ![c] = current]
      /\ child' = [child EXCEPT ![current] = Append(@, c), ![c] = <<>>]
      /\ exit_code' = [exit_code EXCEPT ![c] = Zero]
      /\ queued' = [queued EXCEPT ![c] = @ + 1]
      /\ prio' = [prio EXCEPT ![c] = pr]
      /\ UNCHANGED <<at, current, fault>>
  BY DEF new_task
<1>3. \A p \in Tasks : c \notin Elems(child[p])
  BY <1>1 DEF IInv, OneParent, Kids, Elems, Live
<1>4. /\ Append(child[current], c) \in Seq(Tasks)
      /\ Elems(Append(child[current], c)) = Elems(child[current]) \cup {c}
      /\ NoDup(Append(child[current], c))
  <2>1. child[current] \in Seq(Tasks) /\ NoDup(child[current]) /\ c \notin Elems(child[current])
    BY <1>1, <1>3, OneParentElems DEF IInv, TypeOK
  <2> QED BY <2>1, AppendNoDup
<1>5. /\ child'[current] = Append(child[current], c) /\ child'[c] = <<>>
      /\ \A p \in Tasks \ {c, current} : child'[p] = child[p]
      /\ child' \in [Tasks -> Seq(Tasks)]
  <2> DEFINE A == Append(child[current], c)
             B == [child EXCEPT ![current] = A]
  <2>1. child \in [Tasks -> Seq(Tasks)] /\ A \in Seq(Tasks) /\ <<>> \in Seq(Tasks)
    BY <1>4 DEF IInv, TypeOK
  <2>2. child' = [B EXCEPT ![c] = <<>>]
    BY <1>2
  <2> HIDE DEF A
  <2>3. /\ B \in [Tasks -> Seq(Tasks)] /\ B[current] = A
        /\ \A p \in Tasks \ {current} : B[p] = child[p]
    BY <1>1, <2>1
  <2> HIDE DEF B
  <2>4. /\ child' \in [Tasks -> Seq(Tasks)] /\ child'[current] = A /\ child'[c] = <<>>
        /\ \A p \in Tasks \ {c, current} : child'[p] = child[p]
    BY <1>1, <2>1, <2>2, <2>3
  <2> QED BY <2>4 DEF A
<1>6. TypeOK'
  <2>1. /\ status \in [Tasks -> {"none", "Ready", "Running", "Zombie"}]
        /\ parent \in [Tasks -> Tasks \cup {NoTask}]
        /\ exit_code \in [Tasks -> ExitCodes] /\ queued \in [Tasks -> Nat]
    BY DEF IInv, TypeOK
  <2>2. status' \in [Tasks -> {"none", "Ready", "Running", "Zombie"}]
    BY <1>2, <2>1
  <2>3. parent' \in [Tasks -> Tasks \cup {NoTask}] /\ exit_code' \in [Tasks -> ExitCodes]
    BY <1>1, <1>2, <2>1
  <2>4. queued' \in [Tasks -> Nat]
    BY <1>2, <2>1
  <2>5. prio' \in [Tasks -> {"charged", "free"}]
    BY <1>2 DEF IInv, TypeOK
  <2> QED BY <1>2, <1>5, <2>2, <2>3, <2>4, <2>5 DEF IInv, TypeOK
<1>7. QueuedIffReady'
  <2>1. /\ status \in [Tasks -> {"none", "Ready", "Running", "Zombie"}]
        /\ queued \in [Tasks -> Nat]
    BY DEF IInv, TypeOK
  <2>2. \A t \in Tasks : /\ queued[t] = IF status[t] = "Ready" THEN 1 ELSE 0
                         /\ status[t] = "Running" <=> current = t
    BY DEF IInv, QueuedIffReady
  <2>3. \A t \in Tasks : /\ queued'[t] = IF t = c THEN 1 ELSE queued[t]
                         /\ status'[t] = IF t = c THEN "Ready" ELSE status[t]
    BY <1>1, <1>2, <2>1, <2>2
  <2>4. current' = current
    BY <1>2
  <2> QED BY <1>1, <2>2, <2>3, <2>4 DEF QueuedIffReady
<1>8. OneParent'
  <2>1. Elems(<<>>) = {} /\ NoDup(<<>>)
    BY DEF Elems, NoDup
  <2>2. Live' = Live \cup {c}
    BY <1>1, <1>2 DEF Live, IInv, TypeOK
  <2>3. \A p \in Tasks : NoDup(child'[p])
    <3>1. \A p \in Tasks : NoDup(child[p])
      BY OneParentElems DEF IInv
    <3>2. NoDup(child'[current]) /\ NoDup(child'[c])
      BY <1>4, <1>5, <2>1
    <3> QED BY <1>5, <3>1, <3>2
  <2>4. \A p \in Tasks : \A k \in Elems(child'[p]) :
            k \in Live' /\ parent'[k] = p /\ status'[p] \in {"Ready", "Running"}
    <3> SUFFICES ASSUME NEW p \in Tasks, NEW k \in Elems(child'[p])
                 PROVE  k \in Live' /\ parent'[k] = p /\ status'[p] \in {"Ready", "Running"}
      OBVIOUS
    <3>1. p # c
      BY <1>5, <2>1
    <3>2. CASE k = c
      <4>1. p = current
        BY <1>3, <1>5, <3>1, <3>2
      <4> QED BY <1>1, <1>2, <2>2, <3>2, <4>1 DEF IInv, TypeOK
    <3>3. CASE k # c
      <4>1. k \in Elems(child[p])
        BY <1>4, <1>5, <3>1, <3>3
      <4>2. k \in Live /\ parent[k] = p /\ status[p] \in {"Ready", "Running"} /\ k \in Tasks
        BY <4>1, OneParentElems DEF IInv, Live
      <4> QED BY <1>2, <2>2, <3>1, <3>3, <4>2 DEF IInv, TypeOK
    <3> QED BY <3>2, <3>3
  <2>5. \A k \in Live' \ {InitProc} : parent'[k] \in Tasks /\ k \in Elems(child'[parent'[k]])
    <3> SUFFICES ASSUME NEW k \in Live' \ {InitProc}
                 PROVE  parent'[k] \in Tasks /\ k \in Elems(child'[parent'[k]])
      OBVIOUS
    <3>1. CASE k = c
      BY <1>1, <1>2, <1>4, <1>5, <3>1 DEF IInv, TypeOK
    <3>2. CASE k # c
      <4>1. k \in Live \ {InitProc} /\ k \in Tasks
        BY <2>2, <3>2 DEF Live
      <4>2. parent[k] \in Tasks /\ k \in Elems(child[parent[k]])
        BY <4>1, OneParentElems DEF IInv
      <4>3. parent'[k] = parent[k] /\ parent[k] # c
        <5>1. status[parent[k]] \in {"Ready", "Running"}
          BY <4>2, OneParentElems DEF IInv
        <5> QED BY <1>1, <1>2, <3>2, <4>1, <5>1 DEF IInv, TypeOK
      <4> QED BY <1>4, <1>5, <4>2, <4>3
    <3> QED BY <3>1, <3>2
  <2> QED BY <2>3, <2>4, <2>5, OneParentElems, <2>2 DEF OneParent, NoDup, Elems, Kids, Live
<1>9. InitProcAlive' /\ NoPanic'
  BY <1>1, <1>2, <1>5 DEF IInv, TypeOK, InitProcAlive, NoPanic
<1> QED BY <1>6, <1>7, <1>8, <1>9 DEF IInv

\* Exit of a process other than INITPROC: its children move to INITPROC.
LEMMA ExitIInv ==
    ASSUME IInv, InUser, current # InitProc, NEW code \in ExitCodes,
           exit_current_and_run_next(code)
    PROVE  IInv'
<1> USE ProcessAssumption
<1> DEFINE t == current
<1>1. t \in Tasks /\ status[t] = "Running" /\ t # InitProc /\ at[t] = "user"
  BY DEF InUser, IInv, TypeOK, QueuedIffReady
<1>2. /\ status' = [status EXCEPT ![t] = "Zombie"]
      /\ exit_code' = [exit_code EXCEPT ![t] = code]
      /\ parent' = [c \in Tasks |-> IF c \in Kids(t) THEN InitProc ELSE parent[c]]
      /\ child' = [child EXCEPT ![InitProc] = @ \o child[t], ![t] = <<>>]
      /\ current' = NoTask
      /\ UNCHANGED <<queued, prio, at, fault>>
  BY <1>1 DEF exit_current_and_run_next, adopt_children
<1>3. /\ status \in [Tasks -> {"none", "Ready", "Running", "Zombie"}]
      /\ parent \in [Tasks -> Tasks \cup {NoTask}] /\ child \in [Tasks -> Seq(Tasks)]
      /\ exit_code \in [Tasks -> ExitCodes]
  BY DEF IInv, TypeOK
<1>4. Kids(t) = Elems(child[t]) /\ Elems(<<>>) = {} /\ NoDup(<<>>)
  BY DEF Kids, Elems, NoDup
<1>5. /\ \A p \in Tasks : NoDup(child[p])
      /\ \A p \in Tasks : \A c \in Elems(child[p]) :
            c \in Live /\ parent[c] = p /\ status[p] \in {"Ready", "Running"}
      /\ \A c \in Live \ {InitProc} : parent[c] \in Tasks /\ c \in Elems(child[parent[c]])
  BY OneParentElems DEF IInv
<1>6. /\ child[InitProc] \o child[t] \in Seq(Tasks)
      /\ Elems(child[InitProc] \o child[t]) = Elems(child[InitProc]) \cup Elems(child[t])
      /\ NoDup(child[InitProc] \o child[t])
  <2>1. Elems(child[InitProc]) \cap Elems(child[t]) = {}
    BY <1>1, <1>5
  <2>2. child[InitProc] \in Seq(Tasks) /\ child[t] \in Seq(Tasks)
    BY <1>1, <1>3
  <2> QED BY <1>1, <1>5, <2>1, <2>2, ConcatNoDup
<1>7. /\ child' \in [Tasks -> Seq(Tasks)]
      /\ child'[InitProc] = child[InitProc] \o child[t] /\ child'[t] = <<>>
      /\ \A p \in Tasks \ {t, InitProc} : child'[p] = child[p]
  <2> DEFINE A == child[InitProc] \o child[t]
             B == [child EXCEPT ![InitProc] = A]
  <2>1. A \in Seq(Tasks) /\ <<>> \in Seq(Tasks)
    BY <1>6
  <2>2. child' = [B EXCEPT ![t] = <<>>]
    BY <1>2
  <2> HIDE DEF A
  <2>3. /\ B \in [Tasks -> Seq(Tasks)] /\ B[InitProc] = A
        /\ \A p \in Tasks \ {InitProc} : B[p] = child[p]
    BY <1>3, <2>1
  <2> HIDE DEF B
  <2>4. /\ child' \in [Tasks -> Seq(Tasks)] /\ child'[InitProc] = A /\ child'[t] = <<>>
        /\ \A p \in Tasks \ {t, InitProc} : child'[p] = child[p]
    BY <1>1, <2>1, <2>2, <2>3
  <2> QED BY <2>4 DEF A
<1>8. \A c \in Tasks : /\ status'[c] = IF c = t THEN "Zombie" ELSE status[c]
                       /\ parent'[c] = IF c \in Elems(child[t]) THEN InitProc ELSE parent[c]
  BY <1>1, <1>2, <1>3, <1>4
<1>9. TypeOK'
  <2>1. status' \in [Tasks -> {"none", "Ready", "Running", "Zombie"}]
    BY <1>2, <1>3
  <2>2. parent' \in [Tasks -> Tasks \cup {NoTask}] /\ exit_code' \in [Tasks -> ExitCodes]
    BY <1>2, <1>3
  <2> QED BY <1>2, <1>7, <2>1, <2>2 DEF IInv, TypeOK
<1>10. QueuedIffReady'
  <2>1. \A c \in Tasks : /\ queued[c] = IF status[c] = "Ready" THEN 1 ELSE 0
                         /\ status[c] = "Running" <=> current = c
    BY DEF IInv, QueuedIffReady
  <2>2. queued' = queued /\ current' = NoTask
    BY <1>2
  <2> QED BY <1>1, <1>8, <2>1, <2>2 DEF QueuedIffReady
<1>11. OneParent'
  <2>1. Live' = Live
    BY <1>1, <1>8 DEF Live
  <2>2. \A p \in Tasks : NoDup(child'[p])
    BY <1>4, <1>5, <1>6, <1>7
  <2>3. ASSUME NEW p \in Tasks, NEW k \in Elems(child'[p])
        PROVE  k \in Live' /\ parent'[k] = p /\ status'[p] \in {"Ready", "Running"}
    <3>1. p # t
      BY <1>4, <1>7
    <3>2. CASE p = InitProc
      <4>1. k \in Elems(child[InitProc]) \/ k \in Elems(child[t])
        BY <1>6, <1>7, <3>2
      <4>2. k \in Live /\ k \in Tasks
        BY <1>1, <1>5, <4>1 DEF Live
      <4>3. status'[InitProc] \in {"Ready", "Running"}
        BY <1>1, <1>8 DEF IInv, InitProcAlive
      <4> QED BY <1>5, <1>8, <2>1, <3>2, <4>1, <4>2, <4>3
    <3>3. CASE p # InitProc
      <4>1. k \in Elems(child[p])
        BY <1>7, <3>1, <3>3
      <4>2. k \in Live /\ parent[k] = p /\ status[p] \in {"Ready", "Running"} /\ k \in Tasks
        BY <1>5, <4>1 DEF Live
      <4>3. k \notin Elems(child[t])
        BY <1>1, <1>5, <3>1, <4>2
      <4> QED BY <1>8, <2>1, <3>1, <4>2, <4>3
    <3> QED BY <3>2, <3>3
  <2>4. ASSUME NEW k \in Live' \ {InitProc}
        PROVE  parent'[k] \in Tasks /\ k \in Elems(child'[parent'[k]])
    <3>1. k \in Tasks /\ parent[k] \in Tasks /\ k \in Elems(child[parent[k]])
      BY <1>5, <2>1 DEF Live
    <3>2. CASE k \in Elems(child[t])
      BY <1>6, <1>7, <1>8, <3>1, <3>2
    <3>3. CASE k \notin Elems(child[t])
      <4>1. parent'[k] = parent[k] /\ parent[k] # t
        BY <1>8, <3>1, <3>3
      <4> QED BY <1>6, <1>7, <3>1, <4>1
    <3> QED BY <3>2, <3>3
  <2> QED BY <2>2, <2>3, <2>4 DEF OneParent, NoDup, Elems, Kids
<1>12. InitProcAlive' /\ NoPanic'
  <2>1. parent'[InitProc] = NoTask
    <3>1. InitProc \notin Elems(child[t])
      BY <1>1, <1>5 DEF IInv, InitProcAlive
    <3> QED BY <1>8, <3>1 DEF IInv, InitProcAlive
  <2>2. \A c \in Tasks : status'[c] \notin {"Ready", "Running"} => child'[c] = <<>>
    BY <1>1, <1>7, <1>8 DEF IInv, InitProcAlive
  <2> QED BY <1>1, <1>2, <1>8, <2>1, <2>2 DEF IInv, InitProcAlive, NoPanic
<1> QED BY <1>9, <1>10, <1>11, <1>12 DEF IInv

\* waitpid takes the last Arc of the zombie: it was in one vector, once, not
\* queued, not running and not inside Stdin::read, so the assertion holds.
LEMMA ReapTakesLastArc ==
    ASSUME IInv, InUser, NEW i \in 1..Len(child[current]),
           status[child[current][i]] = "Zombie",
           child' = [child EXCEPT ![current] = RemoveAt(@, i)]
    PROVE  /\ child[current][i] \in Tasks \ {InitProc, current}
           /\ child' \in [Tasks -> Seq(Tasks)]
           /\ \A p \in Tasks : NoDup(child'[p])
           /\ \A p \in Tasks : Elems(child'[p]) = Elems(child[p]) \ {child[current][i]}
           /\ LastArc(child[current][i], child')
<1> USE ProcessAssumption
<1> DEFINE c == child[current][i]
<1>1. current \in Tasks /\ status[current] = "Running"
  BY DEF InUser, IInv, TypeOK, QueuedIffReady
<1>2. /\ child \in [Tasks -> Seq(Tasks)] /\ child[current] \in Seq(Tasks) /\ c \in Tasks
      /\ c \in Elems(child[current])
  BY <1>1 DEF IInv, TypeOK, Elems
<1>3. /\ \A p \in Tasks : NoDup(child[p])
      /\ \A p \in Tasks : \A k \in Elems(child[p]) : parent[k] = p
  BY OneParentElems DEF IInv
<1>4. c # InitProc /\ c # current
  BY <1>1 DEF IInv, InitProcAlive
<1>5. /\ RemoveAt(child[current], i) \in Seq(Tasks)
      /\ Elems(RemoveAt(child[current], i)) = Elems(child[current]) \ {c}
      /\ NoDup(RemoveAt(child[current], i))
  BY <1>1, <1>2, <1>3, RemoveNoDup
<1>6. /\ child' \in [Tasks -> Seq(Tasks)] /\ child'[current] = RemoveAt(child[current], i)
      /\ \A p \in Tasks \ {current} : child'[p] = child[p]
  BY <1>1, <1>2, <1>5
<1>7. \A p \in Tasks : NoDup(child'[p])
  BY <1>3, <1>5, <1>6
<1>8. \A p \in Tasks : Elems(child'[p]) = Elems(child[p]) \ {c}
  <2>1. \A p \in Tasks \ {current} : c \notin Elems(child[p])
    BY <1>1, <1>2, <1>3
  <2> QED BY <1>5, <1>6, <2>1
<1>9. LastArc(c, child')
  <2>1. \A p \in Tasks : \A j \in 1..Len(child'[p]) : child'[p][j] # c
    BY <1>8 DEF Elems
  <2>2. queued[c] = 0 /\ current # c /\ at[c] # "stdin"
    BY <1>2, <1>4 DEF IInv, QueuedIffReady, InitProcAlive
  <2> QED BY <2>1, <2>2 DEF LastArc
<1> QED BY <1>2, <1>4, <1>6, <1>7, <1>8, <1>9

\* Reaping a zombie preserves the invariant.
LEMMA ReapIInv ==
    ASSUME IInv, InUser, NEW pid, reap(pid)
    PROVE  IInv'
<1> USE ProcessAssumption
<1>1. PICK i \in ZombieAt(pid) :
         LET c == child[current][i]
         IN  /\ child' = [child EXCEPT ![current] = RemoveAt(@, i)]
             /\ IF LastArc(c, child')
                THEN /\ status' = [status EXCEPT ![c] = "none"] /\ UNCHANGED fault
                     /\ exit_code' = [exit_code EXCEPT ![c] = Zero]
                     /\ prio' = [prio EXCEPT ![c] = "charged"]
                ELSE fault' = "strong_count" /\ UNCHANGED status
  BY DEF reap
<1> DEFINE c == child[current][i]
<1>2. i \in 1..Len(child[current]) /\ status[c] = "Zombie"
      /\ child' = [child EXCEPT ![current] = RemoveAt(@, i)]
  BY <1>1 DEF ZombieAt
<1>3. /\ c \in Tasks \ {InitProc, current}
      /\ child' \in [Tasks -> Seq(Tasks)]
      /\ \A p \in Tasks : NoDup(child'[p])
      /\ \A p \in Tasks : Elems(child'[p]) = Elems(child[p]) \ {c}
      /\ LastArc(c, child')
  BY <1>2, ReapTakesLastArc
<1>4. status' = [status EXCEPT ![c] = "none"] /\ UNCHANGED fault
      /\ exit_code' = [exit_code EXCEPT ![c] = Zero]
      /\ prio' = [prio EXCEPT ![c] = "charged"]
      /\ UNCHANGED <<parent, queued, at, current>>
  BY <1>1, <1>3 DEF reap
<1> HIDE DEF c
<1>5. /\ status \in [Tasks -> {"none", "Ready", "Running", "Zombie"}]
      /\ child \in [Tasks -> Seq(Tasks)]
  BY DEF IInv, TypeOK
<1>6. \A t \in Tasks : status'[t] = IF t = c THEN "none" ELSE status[t]
  BY <1>3, <1>4, <1>5
<1>7. TypeOK'
  <2>1. status' \in [Tasks -> {"none", "Ready", "Running", "Zombie"}]
    BY <1>4, <1>5
  <2>2. exit_code' \in [Tasks -> ExitCodes] /\ prio' \in [Tasks -> {"charged", "free"}]
    BY <1>4 DEF IInv, TypeOK
  <2> QED BY <1>3, <1>4, <2>1, <2>2 DEF IInv, TypeOK
<1>8. QueuedIffReady'
  <2>1. \A t \in Tasks : /\ queued[t] = IF status[t] = "Ready" THEN 1 ELSE 0
                         /\ status[t] = "Running" <=> current = t
    BY DEF IInv, QueuedIffReady
  <2> QED BY <1>2, <1>3, <1>4, <1>6, <2>1 DEF QueuedIffReady, c
<1>9. OneParent'
  <2>1. /\ \A p \in Tasks : \A k \in Elems(child[p]) :
              k \in Live /\ parent[k] = p /\ status[p] \in {"Ready", "Running"}
        /\ \A k \in Live \ {InitProc} : parent[k] \in Tasks /\ k \in Elems(child[parent[k]])
    BY OneParentElems DEF IInv
  <2>2. Live' = Live \ {c} /\ status[c] = "Zombie"
    <3>1. status[c] = "Zombie"
      BY <1>2 DEF c
    <3> QED BY <1>3, <1>6, <3>1 DEF Live
  <2>3. \A p \in Tasks : \A k \in Elems(child'[p]) :
           k \in Live' /\ parent'[k] = p /\ status'[p] \in {"Ready", "Running"}
    <3> SUFFICES ASSUME NEW p \in Tasks, NEW k \in Elems(child'[p])
                 PROVE  k \in Live' /\ parent'[k] = p /\ status'[p] \in {"Ready", "Running"}
      OBVIOUS
    <3>1. k \in Elems(child[p]) /\ k # c
      BY <1>3
    <3>2. k \in Live /\ parent[k] = p /\ status[p] \in {"Ready", "Running"}
      BY <2>1, <3>1
    <3>3. status'[p] = status[p]
      BY <1>6, <2>2, <3>2
    <3> QED BY <1>4, <2>2, <3>1, <3>2, <3>3
  <2>4. \A k \in Live' \ {InitProc} : parent'[k] \in Tasks /\ k \in Elems(child'[parent'[k]])
    <3>1. parent' = parent
      BY <1>4
    <3> QED BY <1>3, <3>1, <2>1, <2>2
  <2> QED BY <1>3, <2>3, <2>4 DEF OneParent, NoDup, Elems, Kids
<1>10. InitProcAlive' /\ NoPanic'
  <2>1. \A t \in Tasks : status'[t] \notin {"Ready", "Running"} => child'[t] = <<>>
    <3>1. child'[c] = child[c] /\ child[c] = <<>>
      BY <1>2, <1>3, <1>5 DEF IInv, InitProcAlive, c
    <3>2. \A t \in Tasks \ {current} : child'[t] = child[t]
      BY <1>2, <1>5
    <3>3. status[current] = "Running" /\ current # c
      BY <1>3 DEF InUser, IInv, TypeOK, QueuedIffReady
    <3> QED BY <1>6, <3>1, <3>2, <3>3 DEF IInv, InitProcAlive
  <2>2. status[c] = "Zombie"
    BY <1>2 DEF c
  <2> QED BY <1>3, <1>4, <1>6, <2>1, <2>2 DEF IInv, InitProcAlive, NoPanic
<1> QED BY <1>7, <1>8, <1>9, <1>10 DEF IInv

\* A task leaves the hart for the ready queue, from user mode or from
\* inside Stdin::read.
LEMMA SuspendIInv ==
    ASSUME IInv, current # NoTask, suspend_current_and_run_next,
           UNCHANGED <<parent, child, exit_code, prio, fault>>,
           \/ UNCHANGED at
           \/ at' = [at EXCEPT ![current] = "stdin"]
    PROVE  IInv'
<1> USE ProcessAssumption
<1>1. /\ current \in Tasks /\ status[current] = "Running" /\ queued[current] = 0
      /\ status \in [Tasks -> {"none", "Ready", "Running", "Zombie"}]
      /\ queued \in [Tasks -> Nat] /\ at \in [Tasks -> {"user", "stdin"}]
  BY DEF IInv, TypeOK, QueuedIffReady
<1>2. /\ status' = [status EXCEPT ![current] = "Ready"]
      /\ queued' = [queued EXCEPT ![current] = @ + 1]
      /\ current' = NoTask
  BY DEF suspend_current_and_run_next
<1>3. \A t \in Tasks : /\ status'[t] = IF t = current THEN "Ready" ELSE status[t]
                       /\ queued'[t] = IF t = current THEN 1 ELSE queued[t]
                       /\ at'[t] = at[t] \/ t = current
  BY <1>1, <1>2
<1>4. /\ status' \in [Tasks -> {"none", "Ready", "Running", "Zombie"}]
      /\ queued' \in [Tasks -> Nat] /\ at' \in [Tasks -> {"user", "stdin"}]
  BY <1>1, <1>2
<1>5. TypeOK'
  BY <1>2, <1>4 DEF IInv, TypeOK
<1>6. QueuedIffReady'
  BY <1>1, <1>2, <1>3 DEF IInv, QueuedIffReady
<1>7. OneParent'
  <2>1. Live' = Live
    BY <1>1, <1>3 DEF Live
  <2>2. \A p \in Tasks : status[p] \in {"Ready", "Running"} => status'[p] \in {"Ready", "Running"}
    BY <1>3
  <2>3. parent' = parent /\ child' = child
    OBVIOUS
  <2> QED BY <2>1, <2>2, <2>3 DEF IInv, OneParent, Kids
<1>8. InitProcAlive' /\ NoPanic'
  BY <1>1, <1>3 DEF IInv, InitProcAlive, NoPanic
<1> QED BY <1>5, <1>6, <1>7, <1>8 DEF IInv

\* The idle loop dispatches a queued task.
LEMMA RunIInv ==
    ASSUME IInv, NEW t \in Tasks, run_tasks(t)
    PROVE  IInv'
<1> USE ProcessAssumption
<1>1. /\ status[t] = "Ready" /\ queued[t] = 1 /\ current = NoTask
      /\ status \in [Tasks -> {"none", "Ready", "Running", "Zombie"}]
      /\ queued \in [Tasks -> Nat]
  BY DEF run_tasks, IInv, TypeOK, QueuedIffReady
<1>2. /\ status' = [status EXCEPT ![t] = "Running"]
      /\ queued' = [queued EXCEPT ![t] = @ - 1]
      /\ current' = t
      /\ UNCHANGED <<parent, child, exit_code, prio, at, fault>>
  BY DEF run_tasks
<1>3. \A u \in Tasks : /\ status'[u] = IF u = t THEN "Running" ELSE status[u]
                       /\ queued'[u] = IF u = t THEN 0 ELSE queued[u]
  BY <1>1, <1>2
<1>4. /\ status' \in [Tasks -> {"none", "Ready", "Running", "Zombie"}]
      /\ queued' \in [Tasks -> Nat]
  BY <1>1, <1>2
<1>5. TypeOK'
  BY <1>2, <1>4 DEF IInv, TypeOK
<1>6. QueuedIffReady'
  BY <1>1, <1>2, <1>3 DEF IInv, QueuedIffReady
<1>7. OneParent'
  <2>1. Live' = Live
    BY <1>1, <1>3 DEF Live
  <2> QED BY <1>1, <1>2, <1>3, <2>1 DEF IInv, OneParent, Kids
<1>8. InitProcAlive' /\ NoPanic'
  BY <1>1, <1>2, <1>3 DEF IInv, InitProcAlive, NoPanic
<1> QED BY <1>5, <1>6, <1>7, <1>8 DEF IInv

\* Every step of the kernel preserves the invariant when INITPROC's program
\* does not exit.
LEMMA NextIInv == ~InitProcExits /\ IInv /\ [Next]_vars => IInv'
<1> SUFFICES ASSUME ~InitProcExits, IInv, [Next]_vars PROVE IInv'
  OBVIOUS
<1>1. CASE TimerInterrupt
  BY <1>1, SuspendIInv DEF TimerInterrupt, InUser
<1>2. CASE sys_yield
  BY <1>2, SuspendIInv DEF sys_yield, InUser
<1>3. CASE sys_read_stdin
  BY <1>3, SuspendIInv DEF sys_read_stdin, InUser
<1>4. CASE stdin_read_again
  <2>1. CASE suspend_current_and_run_next /\ UNCHANGED at
    BY <1>4, <2>1, SuspendIInv DEF stdin_read_again
  <2>2. CASE at' = [at EXCEPT ![current] = "user"] /\ UNCHANGED <<status, queued, current>>
    <3>1. UNCHANGED <<status, queued, current, parent, child, exit_code, prio, fault>>
      BY <1>4, <2>2 DEF stdin_read_again
    <3>2. at' \in [Tasks -> {"user", "stdin"}]
          /\ \A t \in Tasks : at'[t] = "stdin" => at[t] = "stdin"
      BY <2>2 DEF IInv, TypeOK
    <3> QED BY <3>1, <3>2 DEF IInv, TypeOK, QueuedIffReady, OneParent, NoPanic, InitProcAlive,
              Kids, Live
  <2> QED BY <1>4, <2>1, <2>2 DEF stdin_read_again
<1>5. ASSUME NEW t \in Tasks, run_tasks(t) PROVE IInv'
  BY <1>5, RunIInv
<1>6. ASSUME NEW c \in Tasks, sys_fork(c) \/ sys_spawn(c) PROVE IInv'
  <2>1. InUser /\ (new_task(c, prio[current]) \/ new_task(c, "charged"))
    BY <1>6 DEF sys_fork, sys_spawn
  <2>2. prio[current] \in {"charged", "free"}
    BY <2>1 DEF InUser, IInv, TypeOK
  <2> QED BY <2>1, <2>2, NewTaskIInv
<1>10. ASSUME NEW p \in {"charged", "free"}, sys_set_prio(p) PROVE IInv'
  <2>1. prio' \in [Tasks -> {"charged", "free"}]
    BY <1>10 DEF sys_set_prio, IInv, TypeOK
  <2> QED BY <1>10, <2>1 DEF sys_set_prio, IInv, TypeOK, QueuedIffReady, OneParent, NoPanic,
             InitProcAlive, Kids, Live
<1>7. ASSUME NEW code \in ExitCodes, Exit(code) PROVE IInv'
  BY <1>7, ExitIInv DEF Exit
<1>8. CASE UNCHANGED vars
  BY <1>8 DEF vars, IInv, TypeOK, QueuedIffReady, OneParent, NoPanic, InitProcAlive, Kids, Live
<1>9. ASSUME NEW pid \in Tasks \cup {AnyPid}, sys_waitpid(pid) PROVE IInv'
  <2>1. CASE reap(pid)
    BY <1>9, <2>1, ReapIInv DEF sys_waitpid
  <2> QED BY <1>8, <1>9, <2>1 DEF sys_waitpid
<1> QED BY <1>1, <1>2, <1>3, <1>4, <1>5, <1>6, <1>7, <1>8, <1>9, <1>10 DEF Next

\* The invariant holds in every reachable state.
THEOREM Invariance == ~InitProcExits => (SafeSpec => []IInv)
<1>1. ASSUME ~InitProcExits PROVE SafeSpec => []IInv
  <2>1. IInv /\ [Next]_vars => IInv'
    BY <1>1, NextIInv
  <2> QED BY InitIInv, <2>1, PTL DEF SafeSpec
<1> QED BY <1>1

\* Every task has a status, and every child vector is one of tasks.
THEOREM ProcessesTyped == ~InitProcExits => (SafeSpec => []TypeOK)
<1>1. IInv => TypeOK
  BY DEF IInv
<1> QED BY <1>1, Invariance, PTL

\* A task is queued once when Ready and never otherwise, and current exactly
\* when Running, for any number of processes.
THEOREM ReadyQueueExact == ~InitProcExits => (SafeSpec => []QueuedIffReady)
<1>1. IInv => QueuedIffReady
  BY DEF IInv
<1> QED BY <1>1, Invariance, PTL

\* Every process has exactly one owner, the live parent its link names.
THEOREM EveryProcessOwned == ~InitProcExits => (SafeSpec => []OneParent)
<1>1. IInv => OneParent
  BY DEF IInv
<1> QED BY <1>1, Invariance, PTL

\* sys_waitpid's assertion on strong_count and the double borrow on exit are
\* unreachable.
THEOREM KernelNeverPanics == ~InitProcExits => (SafeSpec => []NoPanic)
<1>1. IInv => NoPanic
  BY DEF IInv
<1> QED BY <1>1, Invariance, PTL

\* The idle loop always finds a task: INITPROC is ready or running.
THEOREM IdleAlwaysHasWork == ~InitProcExits => (SafeSpec => []IdleHasWork)
<1>1. IInv => IdleHasWork
  BY ProcessAssumption DEF IInv, IdleHasWork, InitProcAlive, QueuedIffReady
<1> QED BY <1>1, Invariance, PTL

-----------------------------------------------------------------------------
\* The parent links stay a tree rooted in INITPROC through every step.
LEMMA RootedStep == ~InitProcExits /\ IInv /\ RootedTree /\ [Next]_vars => RootedTree'
<1> SUFFICES ASSUME ~InitProcExits, IInv, RootedTree, [Next]_vars,
                    NEW S \in SUBSET (Live' \ {InitProc}), S # {}
             PROVE  \E c \in S : parent'[c] \notin S
  BY DEF RootedTree
<1> USE ProcessAssumption
<1>0. S \subseteq Tasks
  BY DEF Live
<1>1. ASSUME Live' \subseteq Live, UNCHANGED parent PROVE \E c \in S : parent'[c] \notin S
  BY <1>1 DEF RootedTree
<1>2. ASSUME NEW t \in Tasks, status' = [status EXCEPT ![t] = "Ready"] \/
                              status' = [status EXCEPT ![t] = "Running"],
             status[t] # "none"
      PROVE  Live' \subseteq Live
  BY <1>2 DEF Live, IInv, TypeOK
<1>3. current # NoTask => current \in Tasks /\ status[current] = "Running"
  BY DEF IInv, TypeOK, QueuedIffReady
<1>4. CASE TimerInterrupt \/ sys_yield \/ sys_read_stdin
  BY <1>1, <1>2, <1>3, <1>4
     DEF TimerInterrupt, sys_yield, sys_read_stdin, InUser, suspend_current_and_run_next
<1>5. CASE stdin_read_again
  <2>1. CASE suspend_current_and_run_next
    BY <1>1, <1>2, <1>3, <1>5, <2>1 DEF stdin_read_again, suspend_current_and_run_next
  <2>2. CASE UNCHANGED status
    BY <1>1, <1>5, <2>2 DEF stdin_read_again, Live
  <2> QED BY <1>5, <2>1, <2>2 DEF stdin_read_again
<1>6. ASSUME NEW t \in Tasks, run_tasks(t) PROVE \E c \in S : parent'[c] \notin S
  <2>1. status[t] # "none"
    BY <1>6 DEF run_tasks, IInv, QueuedIffReady
  <2> QED BY <1>1, <1>2, <1>6, <2>1 DEF run_tasks
<1>7. ASSUME NEW c \in Tasks, NEW pr, InUser, new_task(c, pr) PROVE \E k \in S : parent'[k] \notin S
  <2>1. /\ status[c] = "none" /\ current \in Tasks /\ current # c
        /\ parent' = [parent EXCEPT ![c] = current]
        /\ status' = [status EXCEPT ![c] = "Ready"]
    BY <1>3, <1>7 DEF new_task, InUser
  <2>2. \A k \in Tasks : parent'[k] = IF k = c THEN current ELSE parent[k]
    BY <2>1 DEF IInv, TypeOK
  <2>3. Live' = Live \cup {c} /\ c \notin Live
    BY <2>1 DEF Live, IInv, TypeOK
  <2>4. CASE S = {c}
    BY <2>1, <2>2, <2>4
  <2>5. CASE S # {c}
    <3>1. S \ {c} \in SUBSET (Live \ {InitProc}) /\ S \ {c} # {}
      BY <2>3, <2>5
    <3>2. PICK k \in S \ {c} : parent[k] \notin S \ {c}
      BY <3>1 DEF RootedTree
    <3>3. parent[k] # c
      <4>1. parent[k] \in Tasks /\ k \in Kids(parent[k])
        BY <3>1 DEF IInv, OneParent
      <4>2. status[parent[k]] \in {"Ready", "Running"}
        BY <4>1 DEF IInv, OneParent
      <4> QED BY <2>1, <4>2
    <3> QED BY <1>0, <2>2, <3>2, <3>3
  <2> QED BY <2>4, <2>5
<1>8. ASSUME NEW code \in ExitCodes, Exit(code) PROVE \E c \in S : parent'[c] \notin S
  <2>1. /\ parent' = [c \in Tasks |-> IF c \in Kids(current) THEN InitProc ELSE parent[c]]
        /\ status' = [status EXCEPT ![current] = "Zombie"]
        /\ current \in Tasks /\ status[current] = "Running"
    BY <1>3, <1>8 DEF Exit, exit_current_and_run_next, adopt_children, InUser
  <2>2. Live' = Live
    BY <2>1 DEF Live, IInv, TypeOK
  <2>3. CASE \E c \in S : c \in Kids(current)
    BY <1>0, <2>1, <2>3
  <2>4. CASE ~(\E c \in S : c \in Kids(current))
    <3>1. \A c \in S : parent'[c] = parent[c]
      BY <1>0, <2>1, <2>4
    <3>2. PICK c \in S : parent[c] \notin S
      BY <2>2 DEF RootedTree
    <3> QED BY <3>1, <3>2
  <2> QED BY <2>3, <2>4
<1>9. ASSUME NEW pid, reap(pid) PROVE \E c \in S : parent'[c] \notin S
  <2>1. UNCHANGED parent /\ \A t \in Tasks : status'[t] = "none" \/ status'[t] = status[t]
    BY <1>9 DEF reap, IInv, TypeOK
  <2> QED BY <1>1, <2>1 DEF Live
<1>10. CASE UNCHANGED vars
  BY <1>1, <1>10 DEF vars, Live
<1>11. ASSUME NEW pr, sys_set_prio(pr) PROVE \E c \in S : parent'[c] \notin S
  BY <1>1, <1>11 DEF sys_set_prio, Live
<1> QED BY <1>4, <1>5, <1>6, <1>7, <1>8, <1>9, <1>10, <1>11 DEF Next, sys_fork, sys_spawn, sys_waitpid

\* Every process descends from INITPROC, so every zombie can be reaped.
THEOREM ProcessesFormTree == ~InitProcExits => (SafeSpec => []RootedTree)
<1>1. ASSUME ~InitProcExits PROVE SafeSpec => []RootedTree
  <2>1. SafeSpec => []IInv
    BY <1>1, Invariance
  <2>2. Init => RootedTree
    <3>1. Init => Live = {InitProc}
      BY ProcessAssumption DEF Init, Live
    <3> QED BY <3>1 DEF RootedTree
  <2>3. IInv /\ RootedTree /\ [Next]_vars => RootedTree'
    BY <1>1, RootedStep
  <2> QED BY <2>1, <2>2, <2>3, PTL DEF SafeSpec
<1> QED BY <1>1

\* Zombies stay as they are until their parent reaps them.
LEMMA ZombieStep ==
    ASSUME IInv, [Next]_vars, NEW c \in Tasks, status[c] = "Zombie"
    PROVE  \/ status'[c] = "Zombie" /\ exit_code'[c] = exit_code[c]
           \/ status'[c] = "none" /\ current = parent[c]
<1> USE ProcessAssumption
<1>1. /\ status \in [Tasks -> {"none", "Ready", "Running", "Zombie"}]
      /\ exit_code \in [Tasks -> ExitCodes]
      /\ current # NoTask => current \in Tasks
      /\ current # c /\ queued[c] = 0
  BY DEF IInv, TypeOK, QueuedIffReady
<1>2. ASSUME suspend_current_and_run_next, current # NoTask, UNCHANGED exit_code
      PROVE  status'[c] = "Zombie" /\ exit_code'[c] = exit_code[c]
  BY <1>1, <1>2 DEF suspend_current_and_run_next
<1>3. CASE TimerInterrupt \/ sys_yield \/ sys_read_stdin \/ stdin_read_again
  BY <1>2, <1>3 DEF TimerInterrupt, sys_yield, sys_read_stdin, stdin_read_again, InUser
<1>4. ASSUME NEW t \in Tasks, run_tasks(t)
      PROVE  status'[c] = "Zombie" /\ exit_code'[c] = exit_code[c]
  BY <1>1, <1>4 DEF run_tasks
<1>5. ASSUME NEW k \in Tasks, NEW pr, new_task(k, pr)
      PROVE  status'[c] = "Zombie" /\ exit_code'[c] = exit_code[c]
  BY <1>1, <1>5 DEF new_task
<1>6. ASSUME NEW code \in ExitCodes, Exit(code)
      PROVE  status'[c] = "Zombie" /\ exit_code'[c] = exit_code[c]
  BY <1>1, <1>6 DEF Exit, InUser, exit_current_and_run_next
<1>7. ASSUME NEW pid, InUser, reap(pid)
      PROVE  \/ status'[c] = "Zombie" /\ exit_code'[c] = exit_code[c]
             \/ status'[c] = "none" /\ current = parent[c]
  <2>1. PICK i \in ZombieAt(pid) :
           \/ status' = [status EXCEPT ![child[current][i]] = "none"]
           \/ UNCHANGED status
    BY <1>7 DEF reap
  <2>2. child[current][i] \in Kids(current) /\ current \in Tasks
    BY <1>1, <1>7 DEF ZombieAt, Kids, InUser
  <2>3. parent[child[current][i]] = current
    BY <2>2 DEF IInv, OneParent
  <2> QED BY <1>1, <1>7, <2>1, <2>3 DEF reap
<1>8. CASE UNCHANGED vars
  BY <1>8 DEF vars
<1>9. ASSUME NEW pr, sys_set_prio(pr) PROVE status'[c] = "Zombie" /\ exit_code'[c] = exit_code[c]
  BY <1>9 DEF sys_set_prio
<1> QED BY <1>3, <1>4, <1>5, <1>6, <1>7, <1>8, <1>9 DEF Next, sys_fork, sys_spawn, sys_waitpid

\* No step revives a zombie, changes its exit code, or drops it for anybody
\* but its parent.
THEOREM ZombiesAreFinal == ~InitProcExits => (SafeSpec => ZombieIsFinal)
<1>1. ASSUME ~InitProcExits PROVE SafeSpec => ZombieIsFinal
  <2>1. SafeSpec => []IInv
    BY <1>1, Invariance
  <2>2. IInv /\ [Next]_vars => [ZombieKept]_vars
    BY ZombieStep DEF ZombieKept
  <2> QED BY <2>1, <2>2, PTL DEF SafeSpec, ZombieIsFinal
<1> QED BY <1>1

\* Every step of the kernel is a step of the abstract scheduler or invisible
\* to it: Ready tasks wait, the current one runs.
LEMMA SchedulerStep == IInv /\ ~InitProcExits /\ [Next]_vars => [Sched!Next]_Sched!vars
<1> SUFFICES ASSUME IInv, ~InitProcExits, [Next]_vars PROVE [Sched!Next]_Sched!vars
  OBVIOUS
<1> USE ProcessAssumption
<1> DEFINE R == {t \in Tasks : status[t] = "Ready"}
<1>1. /\ status \in [Tasks -> {"none", "Ready", "Running", "Zombie"}]
      /\ current # NoTask => current \in Tasks /\ status[current] = "Running"
      /\ current \in Tasks => current # NoTask
  BY DEF IInv, TypeOK, QueuedIffReady
<1>2. ASSUME suspend_current_and_run_next, current # NoTask PROVE Sched!Preempt
  BY <1>1, <1>2 DEF suspend_current_and_run_next, Sched!Preempt
<1>3. CASE TimerInterrupt \/ sys_yield \/ sys_read_stdin
  BY <1>2, <1>3 DEF TimerInterrupt, sys_yield, sys_read_stdin, InUser, Sched!Next
<1>4. CASE stdin_read_again
  <2>1. CASE suspend_current_and_run_next
    BY <1>2, <1>4, <2>1 DEF stdin_read_again, Sched!Next
  <2>2. CASE UNCHANGED <<status, current>>
    BY <2>2 DEF Sched!vars
  <2> QED BY <1>4, <2>1, <2>2 DEF stdin_read_again
<1>5. ASSUME NEW t \in Tasks, run_tasks(t) PROVE Sched!Dispatch(t)
  <2>1. status[t] = "Ready" /\ current = NoTask /\ current' = t
        /\ status' = [status EXCEPT ![t] = "Running"]
    BY <1>5 DEF run_tasks, IInv, QueuedIffReady
  <2> QED BY <1>1, <2>1 DEF Sched!Dispatch
<1>6. ASSUME NEW c \in Tasks, NEW pr, InUser, new_task(c, pr) PROVE Sched!Join(c)
  <2>1. status[c] = "none" /\ current' = current /\ status' = [status EXCEPT ![c] = "Ready"]
        /\ current # NoTask
    BY <1>6 DEF new_task, InUser
  <2> QED BY <1>1, <2>1 DEF Sched!Join
<1>7. ASSUME NEW code \in ExitCodes, Exit(code) PROVE Sched!Leave
  <2>1. current # NoTask /\ current' = NoTask /\ status' = [status EXCEPT ![current] = "Zombie"]
    BY <1>7 DEF Exit, InUser, exit_current_and_run_next
  <2> QED BY <1>1, <2>1 DEF Sched!Leave
<1>8. ASSUME NEW pid, reap(pid) PROVE UNCHANGED Sched!vars
  <2>1. PICK i \in ZombieAt(pid) :
           \/ status' = [status EXCEPT ![child[current][i]] = "none"]
           \/ UNCHANGED status
    BY <1>8 DEF reap
  <2>2. status[child[current][i]] = "Zombie" /\ UNCHANGED current
    BY <1>8 DEF ZombieAt, reap
  <2>3. {t \in Tasks : status'[t] = "Ready"} = {t \in Tasks : status[t] = "Ready"}
    BY <1>1, <2>1, <2>2
  <2> QED BY <2>2, <2>3 DEF Sched!vars
<1>9. CASE UNCHANGED vars
  BY <1>9 DEF vars, Sched!vars
<1>10. ASSUME NEW pr, sys_set_prio(pr) PROVE UNCHANGED Sched!vars
  BY <1>10 DEF sys_set_prio, Sched!vars
<1> QED BY <1>3, <1>4, <1>5, <1>6, <1>7, <1>8, <1>9, <1>10
        DEF Next, sys_fork, sys_spawn, sys_waitpid, Sched!Next

\* Processes implement the safety part of the abstract scheduler.
THEOREM ProcessesImplementScheduler == ~InitProcExits => (SafeSpec => ImplementsScheduler)
<1>1. ASSUME ~InitProcExits PROVE SafeSpec => ImplementsScheduler
  <2>1. SafeSpec => []IInv
    BY <1>1, Invariance
  <2>2. Init => Sched!Init
    BY ProcessAssumption DEF Init, Sched!Init
  <2>3. IInv /\ [Next]_vars => [Sched!Next]_Sched!vars
    BY <1>1, SchedulerStep
  <2> QED BY <2>1, <2>2, <2>3, PTL DEF SafeSpec, ImplementsScheduler, Sched!SafeSpec
<1> QED BY <1>1
=============================================================================
