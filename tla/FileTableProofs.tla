--------------------------- MODULE FileTableProofs --------------------------
(***************************************************************************)
(* Proofs about FileTable for any number of processes, open files, names,  *)
(* transfer lengths and descriptors.                                       *)
(***************************************************************************)
EXTENDS FileTable, SequenceTheorems, FiniteSetTheorems, WellFoundedInduction, TLAPS

\* The references to h in the tables T.
Refs(T, h) == {pf \in Procs \X Fds : pf[2] \in DOMAIN T[pf[1]] /\ T[pf[1]][pf[2]] = h}

-----------------------------------------------------------------------------
(* The inductive invariant.  An open file is counted once for each     *)
(* descriptor; every descriptor of an open file descends from the open that made it; an open *)
(* file's offset is what was moved through it; an open file exists in the  *)
(* directory; a process that does not exist has no table.                  *)
Types ==
    /\ state \in [Procs -> {"none", "live", "zombie"}]
    /\ handle \in [Handles -> OSInode \cup {None}]
    /\ strong \in [Handles -> Nat]
    /\ size \in [Names -> Nat \cup {None}]
    /\ origin \in [Procs -> [Fds -> Handles \cup {None}]]
    /\ moved \in [Handles -> Nat]
Slots == /\ fd_table \in [Procs -> Seq(Files)]
         /\ \A p \in Procs : Len(fd_table[p]) <= MaxFds
NoTable == \A p \in Procs : state[p] = "none" => fd_table[p] = <<>>
Counts == \A h \in Handles : /\ strong[h] = Cardinality(Refs(fd_table, h))
                             /\ (handle[h] = None) = (strong[h] = 0)
Origins == \A p \in Procs : \A fd \in DOMAIN fd_table[p] :
              fd_table[p][fd] \in Handles => origin[p][fd] = fd_table[p][fd]
Offsets == \A h \in Handles : handle[h] # None =>
              handle[h].offset = moved[h] /\ size[handle[h].name] \in Nat

IInv == Types /\ Slots /\ NoTable /\ Counts /\ Origins /\ Offsets
-----------------------------------------------------------------------------
(* Counting references.                                                    *)

\* Slot k of process q holds g.
Holds(T, q, k, g) == k \in DOMAIN T[q] /\ T[q][k] = g

\* A reference is a slot that holds the file.
LEMMA InRefs ==
    ASSUME NEW T, NEW g, NEW q \in Procs, NEW k \in Fds
    PROVE  <<q, k>> \in Refs(T, g) <=> Holds(T, q, k, g)
BY DEF Refs, Holds

\* There are finitely many references.
LEMMA RefsFinite ==
    ASSUME NEW T, NEW g
    PROVE  IsFiniteSet(Refs(T, g)) /\ Cardinality(Refs(T, g)) \in Nat
<1>1. IsFiniteSet(Fds) /\ IsFiniteSet(Procs)
  BY FileBounds, FS_Interval DEF Fds
<1>2. IsFiniteSet(Procs \X Fds)
  BY <1>1, FS_Product
<1>3. Refs(T, g) \in SUBSET (Procs \X Fds)
  BY DEF Refs
<1>4. IsFiniteSet(Refs(T, g))
  BY <1>2, <1>3, FS_Subset
<1> QED BY <1>4, FS_CardinalityType

\* The tables U and T differ, for g, in one slot only.
OneSlot(U, T, p, fd, g) ==
    \A q \in Procs, k \in Fds : ~ (q = p /\ k = fd) => (Holds(U, q, k, g) <=> Holds(T, q, k, g))

\* How the number of references to g differs between U and T.
OneMore(U, T, g) == Cardinality(Refs(U, g)) = Cardinality(Refs(T, g)) + 1
AsMany(U, T, g) == Refs(U, g) = Refs(T, g)

\* A slot that comes to hold g is one more reference.
LEMMA SlotGains ==
    ASSUME NEW T, NEW U, NEW g, NEW p \in Procs, NEW fd \in Fds, OneSlot(U, T, p, fd, g),
           ~ Holds(T, p, fd, g), Holds(U, p, fd, g)
    PROVE  OneMore(U, T, g)
<1>1. PICK x, R, Q : x = <<p, fd>> /\ R = Refs(T, g) /\ Q = Refs(U, g)
  OBVIOUS
<1>2. ASSUME NEW y \in Procs \X Fds PROVE y \in Q <=> y \in R \cup {x}
  <2>1. PICK q \in Procs, k \in Fds : y = <<q, k>>
    OBVIOUS
  <2>2. CASE q = p /\ k = fd
    BY <1>1, <2>1, <2>2, InRefs
  <2>3. CASE ~ (q = p /\ k = fd)
    <3>1. Holds(U, q, k, g) <=> Holds(T, q, k, g)
      BY <2>3 DEF OneSlot
    <3>2. y # x
      BY <1>1, <2>1, <2>3
    <3> QED BY <1>1, <2>1, <3>1, <3>2, InRefs
  <2> QED BY <2>2, <2>3
<1>3. Q \subseteq Procs \X Fds /\ R \subseteq Procs \X Fds /\ x \in Procs \X Fds /\ x \notin R
  <2>1. x \notin R
    BY <1>1, InRefs
  <2> QED BY <1>1, <2>1 DEF Refs
<1>4. Q = R \cup {x}
  BY <1>2, <1>3
<1>5. IsFiniteSet(R)
  BY <1>1, RefsFinite
<1>6. PICK C : C = Cardinality(R \cup {x})
  OBVIOUS
<1>7. C = IF x \in R THEN Cardinality(R) ELSE Cardinality(R) + 1
  BY <1>5, <1>6, FS_AddElement
<1>8. C = Cardinality(R) + 1
  BY <1>3, <1>7
<1> QED BY <1>1, <1>4, <1>6, <1>8 DEF OneMore

\* A change that leaves the slot without g, as before, changes nothing.
LEMMA SlotKeeps ==
    ASSUME NEW T, NEW U, NEW g, NEW p \in Procs, NEW fd \in Fds, OneSlot(U, T, p, fd, g),
           ~ Holds(T, p, fd, g), ~ Holds(U, p, fd, g)
    PROVE  AsMany(U, T, g)
<1>1. PICK R, Q : R = Refs(T, g) /\ Q = Refs(U, g)
  OBVIOUS
<1>2. ASSUME NEW y \in Procs \X Fds PROVE y \in Q <=> y \in R
  <2>1. PICK q \in Procs, k \in Fds : y = <<q, k>>
    OBVIOUS
  <2>2. Holds(U, q, k, g) <=> Holds(T, q, k, g)
    BY DEF OneSlot
  <2> QED BY <1>1, <2>1, <2>2, InRefs
<1>3. Q \subseteq Procs \X Fds /\ R \subseteq Procs \X Fds
  BY <1>1 DEF Refs
<1> QED BY <1>1, <1>2, <1>3 DEF AsMany

\* P are the references to g that c gets with the table t, n of them.
TableRefs(P, c, t, g) == {c} \X {k \in DOMAIN t : t[k] = g} = P
Numbers(P, t, g) == /\ P \subseteq Procs \X Fds /\ IsFiniteSet(P)
                    /\ Uses(t, g) \in Nat /\ Cardinality(P) = Uses(t, g)

\* The references that one table holds are as many as its uses.
LEMMA TableUses ==
    ASSUME NEW t \in Seq(Files), Len(t) <= MaxFds, NEW g, NEW c \in Procs, NEW P, TableRefs(P, c, t, g)
    PROVE  Numbers(P, t, g)
<1>0. PICK S : S = {k \in DOMAIN t : t[k] = g}
  OBVIOUS
<1>1. DOMAIN t = 1 .. Len(t) /\ Len(t) \in Nat
  OBVIOUS
<1>2. S \in SUBSET Fds
  BY <1>0, <1>1, FileBounds DEF Fds
<1>3. IsFiniteSet(Fds)
  BY FileBounds, FS_Interval DEF Fds
<1>4. IsFiniteSet(S) /\ Cardinality(S) \in Nat
  BY <1>2, <1>3, FS_Subset, FS_CardinalityType
<1>5. Uses(t, g) = Cardinality(S)
  BY <1>0 DEF Uses
<1>6. IsFiniteSet({c}) /\ Cardinality({c}) = 1
  BY FS_Singleton
<1>7. IsFiniteSet({c} \X S) /\ Cardinality({c} \X S) = 1 * Cardinality(S)
  BY <1>4, <1>6, FS_Product
<1>8. P = {c} \X S
  BY <1>0 DEF TableRefs
<1> QED BY <1>2, <1>4, <1>5, <1>7, <1>8 DEF Numbers

\* U is T with the table t for process c, which had none.
Adds(U, T, c, t) ==
    /\ T[c] = <<>> /\ U[c] = t /\ \A q \in Procs : q # c => U[q] = T[q]

UsesMore(U, T, t, g) == /\ Uses(t, g) \in Nat
                        /\ Cardinality(Refs(U, g)) = Cardinality(Refs(T, g)) + Uses(t, g)

\* A whole table counts once for each use of the file in it.
LEMMA TableAdds ==
    ASSUME NEW T, NEW U, NEW c \in Procs, NEW t \in Seq(Files), Len(t) <= MaxFds, Adds(U, T, c, t), NEW g
    PROVE  UsesMore(U, T, t, g)
<1>1. PICK S, P, R, Q : /\ S = {k \in DOMAIN t : t[k] = g} /\ P = {c} \X S
                        /\ R = Refs(T, g) /\ Q = Refs(U, g)
  OBVIOUS
<1>2. Numbers(P, t, g)
  <2>1. TableRefs(P, c, t, g)
    BY <1>1 DEF TableRefs
  <2> QED BY <2>1, TableUses
<1>3. DOMAIN T[c] = {}
  BY DEF Adds
<1>4. ASSUME NEW q \in Procs, NEW k \in Fds
      PROVE  /\ <<q, k>> \in Q <=> <<q, k>> \in R \cup P
             /\ ~ (<<q, k>> \in R /\ <<q, k>> \in P)
  <2>1. CASE q = c
    <3>1. <<q, k>> \notin R
      BY <1>1, <1>3, <2>1, InRefs DEF Holds
    <3>2. <<q, k>> \in Q <=> k \in S
      <4>1. Holds(U, q, k, g) <=> k \in S
        BY <1>1, <2>1 DEF Holds, Adds
      <4> QED BY <1>1, <4>1, InRefs
    <3>3. <<q, k>> \in P <=> k \in S
      BY <1>1, <2>1
    <3> QED BY <3>1, <3>2, <3>3
  <2>2. CASE q # c
    <3>1. <<q, k>> \notin P
      BY <1>1, <2>2
    <3>2. Holds(U, q, k, g) <=> Holds(T, q, k, g)
      BY <2>2 DEF Holds, Adds
    <3>3. <<q, k>> \in Q <=> <<q, k>> \in R
      BY <1>1, <3>2, InRefs
    <3> QED BY <3>1, <3>3
  <2> QED BY <2>1, <2>2
<1>5. Q \subseteq Procs \X Fds /\ R \subseteq Procs \X Fds /\ P \subseteq Procs \X Fds
  BY <1>1, <1>2 DEF Refs, Numbers
<1>6. Q = R \cup P /\ R \cap P = {}
  BY <1>4, <1>5
<1>7. IsFiniteSet(R) /\ Cardinality(R) \in Nat
  BY <1>1, RefsFinite
<1>8. Cardinality(R \cup P) = Cardinality(R) + Cardinality(P) - Cardinality(R \cap P)
  BY <1>2, <1>7, FS_Union DEF Numbers
<1>9. Cardinality(R \cap P) = 0
  BY <1>6, FS_EmptySet
<1> QED BY <1>1, <1>2, <1>6, <1>7, <1>8, <1>9 DEF Numbers, UsesMore

\* The lowest free slot, if there is one.
LEMMA LeastNat ==
    ASSUME NEW S, S \subseteq Nat, S # {}
    PROVE  \E x \in S : \A y \in S : x <= y
<1>1. PICK x \in S : \A y \in S : ~ (<<y, x>> \in OpToRel(<, Nat))
  BY NatLessThanWellFounded, WFMin
<1>2. OpToRel(<, Nat) = {ss \in Nat \X Nat : ss[1] < ss[2]}
  BY DEF OpToRel
<1>3. ASSUME NEW y \in S PROVE x <= y
  <2>1. x \in Nat /\ y \in Nat
    OBVIOUS
  <2>2. ~ (y < x)
    BY <1>1, <1>2, <2>1
  <2> QED BY <2>1, <2>2
<1> QED BY <1>3

\* alloc_fd returns a slot that holds nothing, or the one after the last.
LEMMA AllocFdFree ==
    ASSUME NEW t \in Seq(Files), NEW fd, fd = alloc_fd(t)
    PROVE  fd \in 1 .. (Len(t) + 1) /\ (fd \in DOMAIN t => t[fd] = None)
<1>1. PICK gaps : gaps = {k \in DOMAIN t : t[k] = None}
  OBVIOUS
<1>2. DOMAIN t = 1 .. Len(t) /\ Len(t) \in Nat
  OBVIOUS
<1>3. CASE gaps = {}
  <2>1. fd = Len(t) + 1
    BY <1>1, <1>3 DEF alloc_fd
  <2> QED BY <1>2, <2>1
<1>4. CASE gaps # {}
  <2>1. fd = CHOOSE k \in gaps : \A g \in gaps : k <= g
    BY <1>1, <1>4 DEF alloc_fd
  <2>2. gaps \subseteq Nat
    BY <1>1, <1>2
  <2>3. \E k \in gaps : \A g \in gaps : k <= g
    BY <1>4, <2>2, LeastNat
  <2>4. fd \in gaps
    BY <2>1, <2>3
  <2>5. fd \in DOMAIN t /\ t[fd] = None
    BY <1>1, <2>4
  <2> QED BY <1>2, <2>5
<1> QED BY <1>3, <1>4

\* u is t with f in slot fd, which may be the one after the last.
Sets(t, u, fd, f) == /\ u \in Seq(Files) /\ DOMAIN u = DOMAIN t \cup {fd} /\ u[fd] = f
                     /\ \A k \in DOMAIN t : k # fd => u[k] = t[k]
                     /\ Len(u) = Len(t) \/ (Len(u) = fd /\ fd = Len(t) + 1)

\* The table after a slot was set.
LEMMA SetFdTable ==
    ASSUME NEW t \in Seq(Files), NEW fd \in 1 .. (Len(t) + 1), NEW f \in Files, NEW u, u = SetFd(t, fd, f)
    PROVE  Sets(t, u, fd, f)
<1>1. DOMAIN t = 1 .. Len(t) /\ Len(t) \in Nat /\ \A k \in 1 .. Len(t) : t[k] \in Files
  OBVIOUS
<1>2. PICK n : n = IF fd > Len(t) THEN fd ELSE Len(t)
  OBVIOUS
<1>3. /\ n \in Nat /\ 1 .. n = (1 .. Len(t)) \cup {fd}
      /\ n = Len(t) \/ (n = fd /\ fd = Len(t) + 1)
  <2>0. PICK m : m = Len(t)
    OBVIOUS
  <2>1. m \in Nat /\ fd \in Nat /\ fd >= 1 /\ fd <= m + 1
    BY <1>1, <2>0
  <2>2. CASE fd > m
    <3>1. n = fd /\ fd = m + 1
      BY <1>2, <2>0, <2>1, <2>2
    <3>2. 1 .. (m + 1) = (1 .. m) \cup {m + 1}
      BY <2>1
    <3> QED BY <2>0, <2>1, <3>1, <3>2
  <2>3. CASE ~ (fd > m)
    <3>1. n = m /\ fd \in 1 .. m
      BY <1>2, <2>0, <2>1, <2>3
    <3>2. 1 .. m = (1 .. m) \cup {fd}
      BY <3>1
    <3> QED BY <2>0, <2>1, <3>1, <3>2
  <2> QED BY <2>2, <2>3
<1>4. u = [k \in 1 .. n |-> IF k = fd THEN f ELSE t[k]]
  BY <1>2 DEF SetFd
<1>5. u \in [1 .. n -> Files]
  BY <1>1, <1>3, <1>4
<1>6. u \in Seq(Files) /\ Len(u) = n
  BY <1>3, <1>5
<1> QED BY <1>1, <1>3, <1>4, <1>6 DEF Sets

-----------------------------------------------------------------------------
(* One step at a time.                                                     *)

\* A file that some descriptor refers to is open.
LEMMA HeldIsOpen ==
    ASSUME Slots, Counts, NEW p \in Procs, NEW fd \in DOMAIN fd_table[p], fd_table[p][fd] \in Handles
    PROVE  fd \in Fds /\ handle[fd_table[p][fd]] # None
<1>1. PICK h : h = fd_table[p][fd]
  OBVIOUS
<1>2. fd \in Fds
  BY FileBounds DEF Slots, Fds
<1>3. <<p, fd>> \in Refs(fd_table, h)
  BY <1>1, <1>2, InRefs DEF Holds
<1>4. Refs(fd_table, h) # {}
  BY <1>3
<1>5. Cardinality(Refs(fd_table, h)) # 0
  BY <1>4, RefsFinite, FS_EmptySet
<1> QED BY <1>1, <1>2, <1>5 DEF Counts

\* Initially no file is open.
LEMMA InitIInv == ASSUME Init PROVE IInv
<1>1. Types
  BY Sentinels DEF Init, Types
<1>2. \A p \in Procs : fd_table[p] \in Seq(Files) /\ Len(fd_table[p]) <= MaxFds
  <2>1. StdFds \in Seq(Files) /\ Len(StdFds) = 3
    BY DEF StdFds, Files
  <2>2. <<>> \in Seq(Files) /\ Len(<<>>) = 0
    OBVIOUS
  <2>3. ASSUME NEW p \in Procs PROVE fd_table[p] \in Seq(Files) /\ Len(fd_table[p]) <= MaxFds
    <3>1. CASE p = InitProc
      BY <2>1, <3>1, FileBounds DEF Init
    <3>2. CASE p # InitProc
      BY <2>2, <3>2, FileBounds DEF Init
    <3> QED BY <3>1, <3>2
  <2> QED BY <2>3
<1>3. Slots
  BY <1>2 DEF Init, Slots
<1>4. NoTable
  BY DEF Init, NoTable
<1>5. ASSUME NEW p \in Procs, NEW fd \in DOMAIN fd_table[p] PROVE fd_table[p][fd] \notin Handles
  <2>1. CASE p = InitProc
    <3>1. fd_table[p] = <<Stdin, Stdout, Stdout>>
      BY <2>1 DEF Init, StdFds
    <3>2. fd_table[p][fd] \in {Stdin, Stdout}
      BY <3>1
    <3> QED BY <3>2, Sentinels
  <2>2. CASE p # InitProc
    BY <2>2 DEF Init
  <2> QED BY <2>1, <2>2
<1>6. ASSUME NEW h \in Handles PROVE Cardinality(Refs(fd_table, h)) = 0
  <2>1. Refs(fd_table, h) = {}
    BY <1>5 DEF Refs
  <2> QED BY <2>1, FS_EmptySet
<1>7. Counts
  BY <1>6 DEF Init, Counts
<1>8. Origins
  BY <1>5 DEF Origins
<1>9. Offsets
  BY DEF Init, Offsets
<1> QED BY <1>1, <1>3, <1>4, <1>7, <1>8, <1>9 DEF IInv

\* open: a free slot, a file nobody refers to.
LEMMA OpenStep ==
    ASSUME IInv, NEW p \in Procs, NEW name \in Names, NEW flags \in FlagSets, sys_open(p, name, flags)
    PROVE  IInv'
<1> USE DEF IInv
<1>1. PICK h, fd, u : /\ h = FreshHandle /\ fd = alloc_fd(fd_table[p])
                      /\ u = SetFd(fd_table[p], fd, h)
  OBVIOUS
<1>2. h \in Handles /\ strong[h] = 0
  BY <1>1 DEF sys_open, FreshHandle
<1>3. /\ fd_table[p] \in Seq(Files) /\ Len(fd_table[p]) <= MaxFds
      /\ DOMAIN fd_table[p] = 1 .. Len(fd_table[p])
  BY DEF Slots
<1>4. /\ fd \in 1 .. (Len(fd_table[p]) + 1) /\ fd <= MaxFds
      /\ fd \in DOMAIN fd_table[p] => fd_table[p][fd] = None
  <2>1. fd <= MaxFds
    BY <1>1 DEF sys_open
  <2> QED BY <1>1, <1>3, <2>1, AllocFdFree
<1>5. fd \in Fds
  BY <1>3, <1>4, FileBounds DEF Fds
<1>6. /\ u \in Seq(Files) /\ DOMAIN u = DOMAIN fd_table[p] \cup {fd} /\ u[fd] = h
      /\ \A k \in DOMAIN fd_table[p] : k # fd => u[k] = fd_table[p][k]
      /\ Len(u) <= MaxFds
  <2>1. h \in Files
    BY <1>2 DEF Files
  <2>2. Sets(fd_table[p], u, fd, h)
    BY <1>1, <1>3, <1>4, <2>1, SetFdTable
  <2>3. Len(u) <= MaxFds
    <3>1. Len(u) \in Nat /\ (Len(u) = Len(fd_table[p]) \/ Len(u) = fd)
      BY <2>2 DEF Sets
    <3> QED BY <1>3, <1>4, <3>1
  <2> QED BY <2>2, <2>3 DEF Sets
<1>7. /\ fd_table' = [fd_table EXCEPT ![p] = u]
      /\ handle' = [handle EXCEPT ![h] = [name |-> name, offset |-> 0, mode |-> read_write(flags)]]
      /\ strong' = [strong EXCEPT ![h] = 1]
      /\ origin' = [origin EXCEPT ![p][fd] = h]
      /\ moved' = [moved EXCEPT ![h] = 0]
      /\ size' = [size EXCEPT ![name] = OpenedSize(name, flags)]
      /\ state' = state /\ state[p] = "live"
  BY <1>1 DEF sys_open, CanRun
<1>8. /\ fd_table'[p] = u /\ \A q \in Procs : q # p => fd_table'[q] = fd_table[q]
  BY <1>7 DEF Slots
<1>9. OpenedSize(name, flags) \in Nat
  <2>1. size[name] \in Nat \cup {None} /\ ("CREATE" \in flags \/ size[name] # None)
    BY DEF Types, sys_open, open_succeeds
  <2> QED BY <2>1 DEF OpenedSize
<1>10. PICK n : n = [name |-> name, offset |-> 0, mode |-> read_write(flags)]
  OBVIOUS
<1>11. n \in OSInode /\ n.offset = 0 /\ n.name = name
  BY <1>10 DEF OSInode, read_write
<1>12. Types'
  <2>1. handle' \in [Handles -> OSInode \cup {None}]
    BY <1>2, <1>7, <1>10, <1>11 DEF Types
  <2>2. size' \in [Names -> Nat \cup {None}]
    BY <1>7, <1>9 DEF Types
  <2>3. origin' \in [Procs -> [Fds -> Handles \cup {None}]]
    BY <1>2, <1>5, <1>7 DEF Types
  <2>4. strong' \in [Handles -> Nat] /\ moved' \in [Handles -> Nat]
    BY <1>2, <1>7 DEF Types
  <2> QED BY <1>7, <2>1, <2>2, <2>3, <2>4 DEF Types
<1>13. Slots'
  <2>1. fd_table' \in [Procs -> Seq(Files)]
    BY <1>6, <1>7 DEF Slots
  <2> QED BY <1>6, <1>8, <2>1 DEF Slots
<1>14. NoTable'
  BY <1>7, <1>8 DEF NoTable
<1>15. ASSUME NEW g \in Handles
       PROVE  /\ OneSlot(fd_table', fd_table, p, fd, g) /\ ~ Holds(fd_table, p, fd, g)
              /\ Holds(fd_table', p, fd, g) <=> g = h
  <2>1. ~ Holds(fd_table, p, fd, g)
    BY <1>4, Sentinels DEF Holds
  <2>2. Holds(fd_table', p, fd, g) <=> g = h
    BY <1>6, <1>8 DEF Holds
  <2>3. OneSlot(fd_table', fd_table, p, fd, g)
    <3>1. ASSUME NEW q \in Procs, NEW k \in Fds, ~ (q = p /\ k = fd)
          PROVE  Holds(fd_table', q, k, g) <=> Holds(fd_table, q, k, g)
      <4>1. CASE q = p
        BY <1>6, <1>8, <3>1, <4>1 DEF Holds
      <4>2. CASE q # p
        BY <1>8, <4>2 DEF Holds
      <4> QED BY <4>1, <4>2
    <3> QED BY <3>1 DEF OneSlot
  <2> QED BY <2>1, <2>2, <2>3
<1>16. ASSUME NEW g \in Handles
       PROVE  /\ strong'[g] = Cardinality(Refs(fd_table', g))
              /\ (handle'[g] = None) = (strong'[g] = 0)
  <2>1. CASE g = h
    <3>1. OneMore(fd_table', fd_table, g)
      BY <1>5, <1>15, <2>1, SlotGains
    <3>2. Cardinality(Refs(fd_table, g)) = 0
      BY <1>2, <2>1 DEF Counts
    <3>3. Cardinality(Refs(fd_table', g)) = 1
      BY <3>1, <3>2 DEF OneMore
    <3>4. strong'[g] = 1 /\ handle'[g] = n
      BY <1>2, <1>7, <1>10, <2>1 DEF Types
    <3> QED BY <1>11, <3>3, <3>4, Sentinels
  <2>2. CASE g # h
    <3>1. AsMany(fd_table', fd_table, g)
      BY <1>5, <1>15, <2>2, SlotKeeps
    <3>2. strong'[g] = strong[g] /\ handle'[g] = handle[g]
      BY <1>7, <2>2 DEF Types
    <3> QED BY <3>1, <3>2 DEF AsMany, Counts
  <2> QED BY <2>1, <2>2
<1>17. Counts'
  <2>1. ASSUME NEW g \in Handles PROVE Refs(fd_table, g)' = Refs(fd_table', g)
    BY DEF Refs
  <2> QED BY <1>16, <2>1 DEF Counts
<1>18. Origins'
  <2>1. ASSUME NEW q \in Procs, NEW k \in DOMAIN fd_table'[q], fd_table'[q][k] \in Handles
        PROVE  origin'[q][k] = fd_table'[q][k]
    <3>1. CASE q = p /\ k = fd
      BY <1>2, <1>5, <1>6, <1>7, <1>8, <3>1 DEF Types
    <3>2. CASE q = p /\ k # fd
      <4>1. k \in DOMAIN fd_table[p] /\ fd_table'[q][k] = fd_table[p][k]
        BY <1>6, <1>8, <2>1, <3>2
      <4>2. origin'[q][k] = origin[q][k]
        BY <1>5, <1>7, <3>2 DEF Types
      <4> QED BY <2>1, <3>2, <4>1, <4>2 DEF Origins
    <3>3. CASE q # p
      <4>1. origin'[q] = origin[q] /\ fd_table'[q] = fd_table[q]
        BY <1>7, <1>8, <3>3 DEF Types
      <4> QED BY <2>1, <4>1 DEF Origins
    <3> QED BY <3>1, <3>2, <3>3
  <2> QED BY <2>1 DEF Origins
<1>19. Offsets'
  <2>1. ASSUME NEW g \in Handles, handle'[g] # None
        PROVE  handle'[g].offset = moved'[g] /\ size'[handle'[g].name] \in Nat
    <3>1. CASE g = h
      <4>1. handle'[g] = n /\ moved'[g] = 0
        BY <1>2, <1>7, <1>10, <3>1 DEF Types
      <4>2. size'[name] \in Nat
        BY <1>7, <1>9 DEF Types
      <4> QED BY <1>11, <4>1, <4>2
    <3>2. CASE g # h
      <4>1. handle'[g] = handle[g] /\ moved'[g] = moved[g] /\ handle[g] \in OSInode
        BY <1>7, <2>1, <3>2 DEF Types
      <4>2. handle[g].name \in Names /\ size[handle[g].name] \in Nat /\ handle[g].offset = moved[g]
        BY <2>1, <4>1 DEF Offsets, OSInode
      <4>3. size'[handle[g].name] \in Nat
        BY <1>7, <1>9, <4>2 DEF Types
      <4> QED BY <4>1, <4>2, <4>3
    <3> QED BY <3>1, <3>2
  <2> QED BY <2>1 DEF Offsets
<1> QED BY <1>12, <1>13, <1>14, <1>17, <1>18, <1>19

\* close: the slot is emptied, and its file goes with the last reference.
LEMMA CloseStep ==
    ASSUME IInv, NEW p \in Procs, NEW fd \in Fds, sys_close(p, fd)
    PROVE  IInv'
<1> USE DEF IInv
<1>1. PICK h, t, u : h = fd_table[p][fd] /\ t = fd_table[p] /\ u = [t EXCEPT ![fd] = None]
  OBVIOUS
<1>2. t \in Seq(Files) /\ Len(t) <= MaxFds /\ fd \in DOMAIN t /\ t[fd] = h /\ h # None
  BY <1>1 DEF Slots, sys_close
<1>3. /\ u \in Seq(Files) /\ DOMAIN u = DOMAIN t /\ Len(u) = Len(t) /\ u[fd] = None
      /\ \A k \in DOMAIN t : k # fd => u[k] = t[k]
  <2>1. None \in Files
    BY DEF Files
  <2> QED BY <1>1, <1>2, <2>1
<1>4. /\ fd_table' = [fd_table EXCEPT ![p] = u]
      /\ origin' = [origin EXCEPT ![p][fd] = None]
      /\ moved' = [g \in Handles |-> IF handle'[g] = None THEN 0 ELSE moved[g]]
      /\ state' = state /\ size' = size /\ state[p] = "live"
  BY <1>1 DEF sys_close, CanRun, TakeFd, Forget, Slots
<1>5. fd_table'[p] = u /\ \A q \in Procs : q # p => fd_table'[q] = fd_table[q]
  BY <1>4 DEF Slots
<1>6. ASSUME NEW g \in Handles
      PROVE  /\ OneSlot(fd_table, fd_table', p, fd, g) /\ ~ Holds(fd_table', p, fd, g)
             /\ Holds(fd_table, p, fd, g) <=> g = h
  <2>1. ~ Holds(fd_table', p, fd, g)
    BY <1>3, <1>5, Sentinels DEF Holds
  <2>2. Holds(fd_table, p, fd, g) <=> g = h
    BY <1>1, <1>2 DEF Holds
  <2>3. OneSlot(fd_table, fd_table', p, fd, g)
    <3>1. ASSUME NEW q \in Procs, NEW k \in Fds, ~ (q = p /\ k = fd)
          PROVE  Holds(fd_table, q, k, g) <=> Holds(fd_table', q, k, g)
      <4>1. CASE q = p
        BY <1>1, <1>3, <1>5, <3>1, <4>1 DEF Holds
      <4>2. CASE q # p
        BY <1>5, <4>2 DEF Holds
      <4> QED BY <4>1, <4>2
    <3> QED BY <3>1 DEF OneSlot
  <2> QED BY <2>1, <2>2, <2>3
<1>7. /\ strong' \in [Handles -> Nat] /\ handle' \in [Handles -> OSInode \cup {None}]
      /\ \A g \in Handles : /\ strong'[g] = Cardinality(Refs(fd_table', g))
                            /\ (handle'[g] = None) = (strong'[g] = 0)
                            /\ handle'[g] = None \/ handle'[g] = handle[g]
  <2>1. ASSUME NEW g \in Handles, g # h PROVE Cardinality(Refs(fd_table', g)) = Cardinality(Refs(fd_table, g))
    <3>1. AsMany(fd_table, fd_table', g)
      BY <1>6, <2>1, SlotKeeps
    <3> QED BY <3>1 DEF AsMany
  <2>2. CASE h \notin Handles
    <3>1. strong' = strong /\ handle' = handle
      BY <1>1, <2>2 DEF sys_close
    <3> QED BY <2>1, <2>2, <3>1 DEF Counts, Types
  <2>3. CASE h \in Handles
    <3>1. /\ strong' = [strong EXCEPT ![h] = @ - 1]
          /\ handle' = [handle EXCEPT ![h] = Released(h, 1)]
      BY <1>1, <2>3 DEF sys_close
    <3>2. OneMore(fd_table, fd_table', h)
      BY <1>6, <2>3, SlotGains
    <3>3. /\ strong[h] = Cardinality(Refs(fd_table', h)) + 1
          /\ Cardinality(Refs(fd_table', h)) \in Nat /\ handle[h] # None
      BY <2>3, <3>2, RefsFinite DEF OneMore, Counts
    <3>4. strong'[h] = Cardinality(Refs(fd_table', h)) /\ strong' \in [Handles -> Nat]
      BY <2>3, <3>1, <3>3 DEF Types
    <3>5. /\ (handle'[h] = None) = (strong'[h] = 0)
          /\ handle'[h] = None \/ handle'[h] = handle[h]
      <4>1. handle'[h] = IF strong[h] = 1 THEN None ELSE handle[h]
        BY <2>3, <3>1 DEF Released, Types
      <4> QED BY <3>3, <3>4, <4>1
    <3>6. handle' \in [Handles -> OSInode \cup {None}]
      BY <2>3, <3>1 DEF Released, Types
    <3>7. ASSUME NEW g \in Handles, g # h
          PROVE  /\ strong'[g] = Cardinality(Refs(fd_table', g))
                 /\ (handle'[g] = None) = (strong'[g] = 0) /\ handle'[g] = handle[g]
      <4>1. strong'[g] = strong[g] /\ handle'[g] = handle[g]
        BY <2>3, <3>1, <3>7 DEF Types
      <4> QED BY <2>1, <3>7, <4>1 DEF Counts
    <3> QED BY <3>4, <3>5, <3>6, <3>7
  <2> QED BY <2>2, <2>3
<1>8. Types'
  <2>1. moved' \in [Handles -> Nat]
    BY <1>4 DEF Types
  <2>2. origin' \in [Procs -> [Fds -> Handles \cup {None}]]
    BY <1>4 DEF Types
  <2> QED BY <1>4, <1>7, <2>1, <2>2 DEF Types
<1>9. Slots'
  <2>1. fd_table' \in [Procs -> Seq(Files)]
    BY <1>3, <1>4 DEF Slots
  <2> QED BY <1>2, <1>3, <1>5, <2>1 DEF Slots
<1>10. NoTable'
  BY <1>4, <1>5 DEF NoTable
<1>11. Counts'
  <2>1. ASSUME NEW g \in Handles PROVE Refs(fd_table, g)' = Refs(fd_table', g)
    BY DEF Refs
  <2> QED BY <1>7, <2>1 DEF Counts
<1>12. Origins'
  <2>1. ASSUME NEW q \in Procs, NEW k \in DOMAIN fd_table'[q], fd_table'[q][k] \in Handles
        PROVE  origin'[q][k] = fd_table'[q][k]
    <3>1. CASE q = p
      <4>1. k # fd /\ k \in DOMAIN fd_table[p] /\ fd_table'[q][k] = fd_table[p][k]
        BY <1>1, <1>3, <1>5, <2>1, <3>1, Sentinels
      <4>2. origin'[q][k] = origin[q][k]
        BY <1>4, <3>1, <4>1 DEF Types
      <4> QED BY <2>1, <3>1, <4>1, <4>2 DEF Origins
    <3>2. CASE q # p
      <4>1. origin'[q] = origin[q] /\ fd_table'[q] = fd_table[q]
        BY <1>4, <1>5, <3>2 DEF Types
      <4> QED BY <2>1, <4>1 DEF Origins
    <3> QED BY <3>1, <3>2
  <2> QED BY <2>1 DEF Origins
<1>13. Offsets'
  BY <1>4, <1>7 DEF Offsets
<1> QED BY <1>8, <1>9, <1>10, <1>11, <1>12, <1>13

\* Moving n bytes through a descriptor, while files only grow.
Transfer(p, fd, n) ==
    /\ Moved(p, fd, n)
    /\ size' \in [Names -> Nat \cup {None}]
    /\ \A name \in Names : size[name] \in Nat => size'[name] \in Nat
    /\ UNCHANGED <<state, fd_table, strong, origin>>

\* Such a transfer moves offset and history alike.
LEMMA TransferStep ==
    ASSUME IInv, NEW p \in Procs, NEW fd \in DOMAIN fd_table[p], fd_table[p][fd] \in Handles,
           NEW n \in Nat, Transfer(p, fd, n)
    PROVE  IInv'
<1> USE DEF IInv
<1>1. PICK h : h = fd_table[p][fd] /\ h \in Handles
  OBVIOUS
<1>2. handle[h] # None /\ handle[h] \in OSInode /\ origin[p][fd] = h
  <2>1. handle[h] # None
    BY <1>1, HeldIsOpen
  <2> QED BY <1>1, <2>1 DEF Types, Origins
<1>3. PICK x : x = [handle[h] EXCEPT !.offset = @ + n]
  OBVIOUS
<1>4. handle[h].offset \in Nat /\ moved[h] \in Nat /\ handle[h].offset = moved[h]
  BY <1>1, <1>2 DEF OSInode, Types, Offsets
<1>5. x \in OSInode /\ x.offset = handle[h].offset + n /\ x.name = handle[h].name
  BY <1>2, <1>3, <1>4 DEF OSInode
<1>6. handle' = [handle EXCEPT ![h] = x] /\ moved' = [moved EXCEPT ![h] = @ + n]
  BY <1>1, <1>2, <1>3 DEF Transfer, Moved
<1>7. /\ state' = state /\ fd_table' = fd_table /\ strong' = strong /\ origin' = origin
      /\ size' \in [Names -> Nat \cup {None}]
      /\ \A name \in Names : size[name] \in Nat => size'[name] \in Nat
  BY DEF Transfer
<1>8. /\ handle' \in [Handles -> OSInode \cup {None}] /\ moved' \in [Handles -> Nat]
      /\ handle'[h] = x /\ moved'[h] = moved[h] + n
      /\ \A g \in Handles : g # h => handle'[g] = handle[g] /\ moved'[g] = moved[g]
  BY <1>1, <1>4, <1>5, <1>6 DEF Types
<1>9. Types'
  BY <1>7, <1>8 DEF Types
<1>10. Slots' /\ NoTable' /\ Origins'
  BY <1>7 DEF Slots, NoTable, Origins
<1>11. Counts'
  <2>1. ASSUME NEW g \in Handles PROVE Refs(fd_table, g)' = Refs(fd_table, g)
    BY <1>7 DEF Refs
  <2>2. ASSUME NEW g \in Handles PROVE (handle'[g] = None) = (handle[g] = None)
    BY <1>2, <1>5, <1>8, Sentinels
  <2> QED BY <1>7, <2>1, <2>2 DEF Counts
<1>12. Offsets'
  <2>1. ASSUME NEW g \in Handles, handle'[g] # None
        PROVE  handle'[g].offset = moved'[g] /\ size'[handle'[g].name] \in Nat
    <3>1. CASE g = h
      <4>1. handle[h].name \in Names /\ size[handle[h].name] \in Nat
        BY <1>1, <1>2 DEF Offsets, OSInode
      <4> QED BY <1>4, <1>5, <1>7, <1>8, <3>1, <4>1
    <3>2. CASE g # h
      <4>1. handle'[g] = handle[g] /\ moved'[g] = moved[g] /\ handle[g] \in OSInode /\ handle[g] # None
        BY <1>8, <2>1, <3>2 DEF Types
      <4>2. handle[g].name \in Names /\ size[handle[g].name] \in Nat /\ handle[g].offset = moved[g]
        BY <4>1 DEF Offsets, OSInode
      <4> QED BY <1>7, <4>1, <4>2
    <3> QED BY <3>1, <3>2
  <2> QED BY <2>1 DEF Offsets
<1> QED BY <1>9, <1>10, <1>11, <1>12

\* A read from stdout or a write to stdin only stops the kernel.
LEMMA FaultStep ==
    ASSUME IInv, UNCHANGED <<state, fd_table, handle, strong, size, origin, moved>>
    PROVE  IInv'
<1>1. ASSUME NEW g \in Handles PROVE Refs(fd_table, g)' = Refs(fd_table, g)
  BY DEF Refs
<1>2. Counts'
  BY <1>1 DEF IInv, Counts
<1> QED BY <1>2 DEF IInv, Types, Slots, NoTable, Origins, Offsets

\* A read moves at most what the file has left; nothing past its end.
LEMMA ReadStep ==
    ASSUME IInv, NEW p \in Procs, NEW fd \in Fds, NEW n \in Lengths, sys_read(p, fd, n)
    PROVE  IInv'
<1>1. fd \in DOMAIN fd_table[p] /\ UNCHANGED <<state, fd_table, strong, size, origin>>
  BY DEF sys_read
<1>2. CASE fd_table[p][fd] \in Handles
  <2>1. PICK f, s, o : f = fd_table[p][fd] /\ s = size[handle[f].name] /\ o = handle[f].offset
    OBVIOUS
  <2>2. f \in Handles /\ handle[f] # None
    BY <1>1, <1>2, <2>1, HeldIsOpen DEF IInv
  <2>3. s \in Nat /\ o \in Nat /\ n \in Nat
    <3>1. handle[f] \in OSInode
      BY <2>2 DEF IInv, Types
    <3> QED BY <2>1, <2>2, <3>1, FileBounds DEF IInv, Offsets, OSInode
  <2>4. PICK m : m = IF o >= s THEN 0 ELSE Min2(n, s - o)
    OBVIOUS
  <2>5. m \in Nat
    BY <2>3, <2>4 DEF Min2
  <2>6. Moved(p, fd, m)
    BY <1>2, <2>1, <2>4, Sentinels DEF sys_read
  <2>7. Transfer(p, fd, m)
    BY <1>1, <2>6 DEF Transfer, IInv, Types
  <2> QED BY <1>1, <1>2, <2>5, <2>7, TransferStep
<1>3. CASE fd_table[p][fd] \notin Handles
  <2>1. UNCHANGED <<handle, moved>>
    BY <1>3 DEF sys_read
  <2> QED BY <1>1, <2>1, FaultStep
<1> QED BY <1>2, <1>3

\* A write moves all it was given, and the file grows if need be.
LEMMA WriteStep ==
    ASSUME IInv, NEW p \in Procs, NEW fd \in Fds, NEW n \in Lengths, sys_write(p, fd, n)
    PROVE  IInv'
<1>1. fd \in DOMAIN fd_table[p] /\ UNCHANGED <<state, fd_table, strong, origin>>
  BY DEF sys_write
<1>2. CASE fd_table[p][fd] \in Handles
  <2>1. PICK f, e, o : f = fd_table[p][fd] /\ e = handle[f].name /\ o = handle[f].offset
    OBVIOUS
  <2>2. f \in Handles /\ handle[f] # None
    BY <1>1, <1>2, <2>1, HeldIsOpen DEF IInv
  <2>3. e \in Names /\ size[e] \in Nat /\ o \in Nat /\ n \in Nat
    <3>1. handle[f] \in OSInode
      BY <2>2 DEF IInv, Types
    <3> QED BY <2>1, <2>2, <3>1, FileBounds DEF IInv, Offsets, OSInode
  <2>4. size' = [size EXCEPT ![e] = Max2(@, o + n)] /\ Moved(p, fd, n)
    BY <1>2, <2>1, Sentinels DEF sys_write
  <2>5. Max2(size[e], o + n) \in Nat
    BY <2>3 DEF Max2
  <2>6. /\ size' \in [Names -> Nat \cup {None}]
        /\ \A name \in Names : size[name] \in Nat => size'[name] \in Nat
    BY <2>3, <2>4, <2>5 DEF IInv, Types
  <2>7. Transfer(p, fd, n)
    BY <1>1, <2>4, <2>6 DEF Transfer
  <2> QED BY <1>1, <1>2, <2>3, <2>7, TransferStep
<1>3. CASE fd_table[p][fd] \notin Handles
  <2>1. UNCHANGED <<handle, moved, size>>
    BY <1>3 DEF sys_write
  <2> QED BY <1>1, <2>1, FaultStep
<1> QED BY <1>2, <1>3

\* fork and spawn: the child holds what the parent holds, and each of its
\* descriptors is counted.
LEMMA ForkStep ==
    ASSUME IInv, NEW p \in Procs, NEW c \in Procs, sys_fork(p, c)
    PROVE  IInv'
<1> USE DEF IInv
<1>1. PICK t : t = fd_table[p]
  OBVIOUS
<1>2. /\ fd_table' = [fd_table EXCEPT ![c] = t] /\ origin' = [origin EXCEPT ![c] = origin[p]]
      /\ strong' = [h \in Handles |-> strong[h] + Uses(t, h)]
      /\ state' = [state EXCEPT ![c] = "live"] /\ state[c] = "none"
      /\ handle' = handle /\ size' = size /\ moved' = moved
  BY <1>1 DEF sys_fork, copy_fd_table
<1>3. t \in Seq(Files) /\ Len(t) <= MaxFds
  BY <1>1 DEF Slots
<1>4. /\ fd_table'[c] = t /\ origin'[c] = origin[p]
      /\ \A q \in Procs : q # c => fd_table'[q] = fd_table[q] /\ origin'[q] = origin[q]
  BY <1>2 DEF Slots, Types
<1>5. Adds(fd_table', fd_table, c, t)
  BY <1>2, <1>4 DEF Adds, NoTable
<1>6. ASSUME NEW g \in Handles
      PROVE  /\ Uses(t, g) \in Nat /\ strong'[g] = strong[g] + Uses(t, g)
             /\ strong'[g] = Cardinality(Refs(fd_table', g))
             /\ handle[g] = None => Uses(t, g) = 0
  <2>1. UsesMore(fd_table', fd_table, t, g)
    BY <1>3, <1>5, TableAdds
  <2>2. strong'[g] = strong[g] + Uses(t, g)
    BY <1>2
  <2>3. ASSUME handle[g] = None PROVE Uses(t, g) = 0
    <3>1. ASSUME NEW k \in DOMAIN t PROVE t[k] # g
      BY <1>1, <2>3, <3>1, HeldIsOpen
    <3>2. {k \in DOMAIN t : t[k] = g} = {}
      BY <3>1
    <3> QED BY <3>2, FS_EmptySet DEF Uses
  <2> QED BY <2>1, <2>2, <2>3 DEF UsesMore, Counts
<1>7. Types'
  <2>1. strong' \in [Handles -> Nat]
    BY <1>2, <1>6 DEF Types
  <2>2. origin' \in [Procs -> [Fds -> Handles \cup {None}]] /\ state' \in [Procs -> {"none", "live", "zombie"}]
    BY <1>2 DEF Types
  <2> QED BY <1>2, <2>1, <2>2 DEF Types
<1>8. Slots'
  <2>1. fd_table' \in [Procs -> Seq(Files)]
    BY <1>2, <1>3 DEF Slots
  <2> QED BY <1>3, <1>4, <2>1 DEF Slots
<1>9. NoTable'
  BY <1>2, <1>4 DEF NoTable, Types
<1>10. Counts'
  <2>1. ASSUME NEW g \in Handles PROVE Refs(fd_table, g)' = Refs(fd_table', g)
    BY DEF Refs
  <2>2. ASSUME NEW g \in Handles PROVE (handle'[g] = None) = (strong'[g] = 0)
    BY <1>2, <1>6 DEF Counts, Types
  <2> QED BY <1>6, <2>1, <2>2 DEF Counts
<1>11. Origins'
  <2>1. ASSUME NEW q \in Procs, NEW k \in DOMAIN fd_table'[q], fd_table'[q][k] \in Handles
        PROVE  origin'[q][k] = fd_table'[q][k]
    <3>1. CASE q = c
      BY <1>1, <1>4, <2>1, <3>1 DEF Origins
    <3>2. CASE q # c
      BY <1>4, <2>1, <3>2 DEF Origins
    <3> QED BY <3>1, <3>2
  <2> QED BY <2>1 DEF Origins
<1>12. Offsets'
  BY <1>2 DEF Offsets
<1> QED BY <1>7, <1>8, <1>9, <1>10, <1>11, <1>12

\* exit: the zombie keeps its table.
LEMMA ExitStep ==
    ASSUME IInv, NEW p \in Procs, exit_current(p)
    PROVE  IInv'
<1>1. /\ UNCHANGED <<fd_table, handle, strong, size, origin, moved>>
      /\ state' = [state EXCEPT ![p] = "zombie"]
  BY DEF exit_current
<1>2. ASSUME NEW g \in Handles PROVE Refs(fd_table, g)' = Refs(fd_table, g)
  BY <1>1 DEF Refs
<1>3. Counts'
  BY <1>1, <1>2 DEF IInv, Counts
<1>4. Types' /\ NoTable'
  BY <1>1 DEF IInv, Types, NoTable
<1> QED BY <1>1, <1>3, <1>4 DEF IInv, Slots, Origins, Offsets

\* wait: the zombie's table goes, with the files it was the last to hold.
LEMMA ReapStep ==
    ASSUME IInv, NEW p \in Procs, reap(p)
    PROVE  IInv'
<1> USE DEF IInv
<1>1. PICK t : t = fd_table[p]
  OBVIOUS
<1>2. /\ fd_table' = [fd_table EXCEPT ![p] = <<>>] /\ origin' = [origin EXCEPT ![p] = [fd \in Fds |-> None]]
      /\ strong' = [h \in Handles |-> strong[h] - Uses(t, h)]
      /\ handle' = [h \in Handles |-> Released(h, Uses(t, h))]
      /\ moved' = [h \in Handles |-> IF handle'[h] = None THEN 0 ELSE moved[h]]
      /\ state' = [state EXCEPT ![p] = "none"] /\ size' = size
  BY <1>1 DEF reap, Forget
<1>3. t \in Seq(Files) /\ Len(t) <= MaxFds
  BY <1>1 DEF Slots
<1>4. /\ fd_table'[p] = <<>>
      /\ \A q \in Procs : q # p => fd_table'[q] = fd_table[q] /\ origin'[q] = origin[q]
  BY <1>2 DEF Slots, Types
<1>5. Adds(fd_table, fd_table', p, t)
  BY <1>1, <1>4 DEF Adds
<1>6. ASSUME NEW g \in Handles
      PROVE  /\ strong'[g] \in Nat /\ strong'[g] = Cardinality(Refs(fd_table', g))
             /\ (handle'[g] = None) = (strong'[g] = 0)
             /\ handle'[g] = None \/ handle'[g] = handle[g]
  <2>1. UsesMore(fd_table, fd_table', t, g)
    BY <1>3, <1>5, TableAdds
  <2>2. PICK a, b, d : a = strong[g] /\ b = Uses(t, g) /\ d = Cardinality(Refs(fd_table', g))
    OBVIOUS
  <2>3. a = d + b /\ b \in Nat /\ d \in Nat
    BY <2>1, <2>2, RefsFinite DEF UsesMore, Counts
  <2>4. strong'[g] = a - b
    BY <1>2, <2>2
  <2>5. handle'[g] = IF a = b THEN None ELSE handle[g]
    BY <1>2, <2>2 DEF Released
  <2>6. strong'[g] = d
    BY <2>3, <2>4
  <2>7. (handle[g] = None) = (a = 0)
    BY <2>2 DEF Counts
  <2>8. (handle'[g] = None) = (strong'[g] = 0)
    BY <2>3, <2>5, <2>6, <2>7
  <2> QED BY <2>2, <2>3, <2>5, <2>6, <2>8
<1>7. Types'
  <2>1. strong' \in [Handles -> Nat]
    BY <1>2, <1>6
  <2>2. handle' \in [Handles -> OSInode \cup {None}]
    BY <1>2 DEF Released, Types
  <2>3. moved' \in [Handles -> Nat]
    BY <1>2 DEF Types
  <2>4. origin' \in [Procs -> [Fds -> Handles \cup {None}]] /\ state' \in [Procs -> {"none", "live", "zombie"}]
    BY <1>2 DEF Types
  <2> QED BY <1>2, <2>1, <2>2, <2>3, <2>4 DEF Types
<1>8. Slots'
  <2>1. <<>> \in Seq(Files) /\ Len(<<>>) = 0
    OBVIOUS
  <2>2. fd_table' \in [Procs -> Seq(Files)]
    BY <1>2, <2>1 DEF Slots
  <2>3. ASSUME NEW q \in Procs PROVE Len(fd_table'[q]) <= MaxFds
    <3>1. CASE q = p
      BY <1>4, <2>1, <3>1, FileBounds
    <3>2. CASE q # p
      BY <1>4, <3>2 DEF Slots
    <3> QED BY <3>1, <3>2
  <2> QED BY <2>2, <2>3 DEF Slots
<1>9. NoTable'
  BY <1>2, <1>4 DEF NoTable, Types
<1>10. Counts'
  <2>1. ASSUME NEW g \in Handles PROVE Refs(fd_table, g)' = Refs(fd_table', g)
    BY DEF Refs
  <2> QED BY <1>6, <2>1 DEF Counts
<1>11. Origins'
  <2>1. ASSUME NEW q \in Procs, NEW k \in DOMAIN fd_table'[q], fd_table'[q][k] \in Handles
        PROVE  origin'[q][k] = fd_table'[q][k]
    <3>1. CASE q = p
      BY <1>4, <2>1, <3>1
    <3>2. CASE q # p
      BY <1>4, <2>1, <3>2 DEF Origins
    <3> QED BY <3>1, <3>2
  <2> QED BY <2>1 DEF Origins
<1>12. Offsets'
  BY <1>2, <1>6 DEF Offsets
<1> QED BY <1>7, <1>8, <1>9, <1>10, <1>11, <1>12

\* Every call keeps the invariant.
LEMMA NextStep == ASSUME IInv, Next PROVE IInv'
<1>1. ASSUME NEW p \in Procs, NEW name \in Names, NEW flags \in FlagSets, sys_open(p, name, flags)
      PROVE  IInv'
  BY <1>1, OpenStep
<1>2. ASSUME NEW p \in Procs, NEW fd \in Fds, sys_close(p, fd) PROVE IInv'
  BY <1>2, CloseStep
<1>3. ASSUME NEW p \in Procs, NEW fd \in Fds, NEW n \in Lengths, sys_read(p, fd, n) PROVE IInv'
  BY <1>3, ReadStep
<1>4. ASSUME NEW p \in Procs, NEW fd \in Fds, NEW n \in Lengths, sys_write(p, fd, n) PROVE IInv'
  BY <1>4, WriteStep
<1>5. ASSUME NEW p \in Procs, NEW c \in Procs, sys_fork(p, c) PROVE IInv'
  BY <1>5, ForkStep
<1>6. ASSUME NEW p \in Procs, exit_current(p) PROVE IInv'
  BY <1>6, ExitStep
<1>7. ASSUME NEW p \in Procs, reap(p) PROVE IInv'
  BY <1>7, ReapStep
<1>8. CASE Halted
  BY <1>8, FaultStep DEF Halted, vars
<1> QED BY <1>1, <1>2, <1>3, <1>4, <1>5, <1>6, <1>7, <1>8 DEF Next

\* The invariant holds in every reachable state.
THEOREM Invariance == Spec => []IInv
<1>1. Init => IInv
  BY InitIInv
<1>2. IInv /\ [Next]_vars => IInv'
  <2>1. ASSUME IInv, UNCHANGED vars PROVE IInv'
    BY <2>1, FaultStep DEF vars
  <2> QED BY <2>1, NextStep
<1> QED BY <1>1, <1>2, PTL DEF Spec

-----------------------------------------------------------------------------
(* What the invariant says of descriptors.                                 *)

\* Descriptors inherited from one open share its offset: it is what was
\* read and written through all of them together.
THEOREM OffsetIsShared == Spec => []SharedOffset
<1>1. ASSUME IInv PROVE SharedOffset
  <2>1. ASSUME NEW p \in Procs, NEW fd \in DOMAIN fd_table[p], fd_table[p][fd] \in Handles
        PROVE  handle[fd_table[p][fd]].offset = moved[origin[p][fd]]
    <3>1. handle[fd_table[p][fd]] # None
      BY <1>1, <2>1, HeldIsOpen DEF IInv
    <3>2. origin[p][fd] = fd_table[p][fd]
      BY <1>1, <2>1 DEF IInv, Origins
    <3> QED BY <1>1, <2>1, <3>1, <3>2 DEF IInv, Offsets
  <2> QED BY <2>1 DEF SharedOffset
<1> QED BY <1>1, Invariance, PTL

\* A step that changes no used descriptor.
Untouched == \A q \in Procs : \A k \in DOMAIN fd_table[q] :
                fd_table[q][k] = None \/ Kept(q, k)

\* open takes a free slot.
LEMMA OpenKeeps ==
    ASSUME IInv, NEW p \in Procs, NEW name \in Names, NEW flags \in FlagSets, sys_open(p, name, flags)
    PROVE  Untouched
<1>1. PICK t, h, fd, u : /\ t = fd_table[p] /\ h = FreshHandle /\ fd = alloc_fd(t)
                         /\ u = SetFd(t, fd, h)
  OBVIOUS
<1>2. t \in Seq(Files) /\ h \in Files
  BY <1>1 DEF IInv, Slots, sys_open, FreshHandle, Files
<1>3. fd \in 1 .. (Len(t) + 1) /\ (fd \in DOMAIN t => t[fd] = None)
  BY <1>1, <1>2, AllocFdFree
<1>4. Sets(t, u, fd, h)
  BY <1>1, <1>2, <1>3, SetFdTable
<1>5. fd_table'[p] = u /\ \A q \in Procs : q # p => fd_table'[q] = fd_table[q]
  BY <1>1 DEF sys_open, IInv, Slots
<1>6. ASSUME NEW k \in DOMAIN t, t[k] # None PROVE k \in DOMAIN u /\ u[k] = t[k]
  BY <1>3, <1>4, <1>6 DEF Sets
<1> QED BY <1>1, <1>5, <1>6 DEF Untouched, Kept

\* close empties the slot it was given and no other.
LEMMA CloseIsOwn ==
    ASSUME IInv, NEW p \in Procs, NEW fd \in Fds, sys_close(p, fd)
    PROVE  OnlyOwnerCloses
<1>1. /\ fd \in DOMAIN fd_table[p] /\ fd_table'[p] = [fd_table[p] EXCEPT ![fd] = None]
      /\ \A q \in Procs : q # p => fd_table'[q] = fd_table[q]
  BY DEF sys_close, TakeFd, IInv, Slots
<1>2. \A k \in DOMAIN fd_table[p] : k # fd => Kept(p, k)
  <2>1. fd_table[p] \in Seq(Files)
    BY DEF IInv, Slots
  <2> QED BY <1>1, <2>1 DEF Kept
<1>3. \A q \in Procs : q # p => \A k \in DOMAIN fd_table[q] : Kept(q, k)
  BY <1>1 DEF Kept
<1>4. ASSUME NEW q \in Procs, NEW k \in DOMAIN fd_table[q]
      PROVE  Kept(q, k) \/ (q = p /\ k = fd)
  BY <1>2, <1>3
<1> QED BY <1>2, <1>4 DEF OnlyOwnerCloses

\* fork fills only the table of a process that was not there.
LEMMA ForkKeeps ==
    ASSUME IInv, NEW p \in Procs, NEW c \in Procs, sys_fork(p, c)
    PROVE  Untouched
<1>1. fd_table[c] = <<>> /\ \A q \in Procs : q # c => fd_table'[q] = fd_table[q]
  BY DEF sys_fork, copy_fd_table, IInv, Slots, NoTable
<1>2. ASSUME NEW k \in DOMAIN fd_table[c] PROVE FALSE
  BY <1>1
<1> QED BY <1>1, <1>2 DEF Untouched, Kept

\* wait empties only the table of the zombie.
LEMMA ReapIsOwn ==
    ASSUME IInv, NEW p \in Procs, reap(p)
    PROVE  OnlyOwnerCloses
<1>1. \A q \in Procs : q # p => \A k \in DOMAIN fd_table[q] : Kept(q, k)
  BY DEF reap, IInv, Slots, Kept
<1> QED BY <1>1 DEF OnlyOwnerCloses

\* A descriptor in use denotes the same file until its own process closes
\* this very descriptor or is waited for: alloc_fd returns only free slots,
\* close empties only the slot it was given, and no step of one process
\* changes the table of another.
THEOREM DescriptorsKeepFile == Spec => DescriptorsStable
<1>1. ASSUME IInv, Next PROVE OnlyOwnerCloses
  <2>k. ASSUME Untouched PROVE OnlyOwnerCloses
    BY <2>k DEF Untouched, OnlyOwnerCloses
  <2>0. ASSUME fd_table' = fd_table PROVE OnlyOwnerCloses
    <3>1. Untouched
      BY <2>0 DEF Untouched, Kept
    <3> QED BY <3>1, <2>k
  <2>1. ASSUME NEW p \in Procs, NEW name \in Names, NEW flags \in FlagSets, sys_open(p, name, flags)
        PROVE  OnlyOwnerCloses
    BY <1>1, <2>1, <2>k, OpenKeeps
  <2>2. ASSUME NEW p \in Procs, NEW fd \in Fds, sys_close(p, fd) PROVE OnlyOwnerCloses
    BY <1>1, <2>2, CloseIsOwn
  <2>3. ASSUME NEW p \in Procs, NEW fd \in Fds, NEW n \in Lengths, sys_read(p, fd, n) PROVE OnlyOwnerCloses
    BY <2>0, <2>3 DEF sys_read
  <2>4. ASSUME NEW p \in Procs, NEW fd \in Fds, NEW n \in Lengths, sys_write(p, fd, n) PROVE OnlyOwnerCloses
    BY <2>0, <2>4 DEF sys_write
  <2>5. ASSUME NEW p \in Procs, NEW c \in Procs, sys_fork(p, c) PROVE OnlyOwnerCloses
    BY <1>1, <2>5, <2>k, ForkKeeps
  <2>6. ASSUME NEW p \in Procs, exit_current(p) PROVE OnlyOwnerCloses
    BY <2>0, <2>6 DEF exit_current
  <2>7. ASSUME NEW p \in Procs, reap(p) PROVE OnlyOwnerCloses
    BY <1>1, <2>7, ReapIsOwn
  <2>8. CASE Halted
    BY <2>0, <2>8 DEF Halted, vars
  <2> QED BY <1>1, <2>1, <2>2, <2>3, <2>4, <2>5, <2>6, <2>7, <2>8 DEF Next
<1>2. IInv /\ [Next]_vars => [OnlyOwnerCloses]_vars
  BY <1>1
<1> QED BY <1>2, Invariance, PTL DEF Spec, DescriptorsStable
=============================================================================
