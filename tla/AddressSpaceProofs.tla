------------------------- MODULE AddressSpaceProofs -------------------------
(***************************************************************************)
(* Proofs about AddressSpace for every machine size, every set of programs *)
(* and every sequence of calls.  First the operators (frame allocation,    *)
(* areas, tables, push, retain, the moves of the break, fork, from_elf),   *)
(* then the inductive invariant IInv, one lemma per system call, and the   *)
(* effect of each step on what the processes see.                          *)
(***************************************************************************)
EXTENDS AddressSpace, SequenceTheorems, FiniteSetTheorems, FunctionTheorems, TLAPS

\* Ranks count a finite set from 1 up, without gaps and in order.
LEMMA RankCounts ==
    ASSUME NEW S \in SUBSET Int, IsFiniteSet(S)
    PROVE  /\ Cardinality(S) \in Nat
           /\ \A x \in S : Rank(S, x) \in 1 .. Cardinality(S)
           /\ \A x, y \in S : x < y => Rank(S, x) < Rank(S, y)
           /\ \A n \in 1 .. Cardinality(S) : \E x \in S : Rank(S, x) = n
<1> DEFINE Upto(x) == {y \in S : y <= x}
           R == [x \in S |-> Rank(S, x)]
           n == Cardinality(S)
<1>1. n \in Nat
  BY FS_CardinalityType
<1>2. \A x \in S : IsFiniteSet(Upto(x)) /\ Cardinality(Upto(x)) \in Nat /\ Cardinality(Upto(x)) <= n
  <2> SUFFICES ASSUME NEW x \in S
               PROVE  IsFiniteSet(Upto(x)) /\ Cardinality(Upto(x)) \in Nat /\ Cardinality(Upto(x)) <= n
    OBVIOUS
  <2>1. Upto(x) \in SUBSET S
    OBVIOUS
  <2> HIDE DEF Upto
  <2> QED BY <2>1, FS_Subset, FS_CardinalityType
<1>3. \A x \in S : Rank(S, x) \in 1 .. n
  <2> SUFFICES ASSUME NEW x \in S PROVE Rank(S, x) \in 1 .. n
    OBVIOUS
  <2>1. x \in Upto(x)
    OBVIOUS
  <2>2. Rank(S, x) = Cardinality(Upto(x))
    BY DEF Rank
  <2> HIDE DEF Upto
  <2>3. Cardinality(Upto(x)) # 0
    BY <1>2, <2>1, FS_EmptySet
  <2> QED BY <1>1, <1>2, <2>2, <2>3
<1>4. \A x, y \in S : x < y => Rank(S, x) < Rank(S, y)
  <2> SUFFICES ASSUME NEW x \in S, NEW y \in S, x < y PROVE Rank(S, x) < Rank(S, y)
    OBVIOUS
  <2>0. x \in Int /\ y \in Int /\ \A z \in S : z \in Int
    OBVIOUS
  <2>1. Upto(x) \subseteq Upto(y) /\ y \in Upto(y) /\ y \notin Upto(x)
    <3>1. ASSUME NEW z \in Upto(x) PROVE z \in Upto(y)
      <4>1. z \in S /\ z <= x /\ z \in Int
        BY <2>0
      <4>2. z <= y
        BY <2>0, <4>1
      <4> QED BY <4>1, <4>2
    <3>2. y <= y /\ ~(y <= x)
      BY <2>0
    <3> QED BY <3>1, <3>2
  <2>2. Rank(S, x) = Cardinality(Upto(x)) /\ Rank(S, y) = Cardinality(Upto(y))
    BY DEF Rank
  <2> HIDE DEF Upto
  <2>3. Cardinality(Upto(x)) <= Cardinality(Upto(y)) /\ Cardinality(Upto(x)) # Cardinality(Upto(y))
    <3>1. Upto(x) \in SUBSET Upto(y) /\ IsFiniteSet(Upto(y))
      BY <1>2, <2>1
    <3> QED BY <2>1, <3>1, FS_Subset
  <2> QED BY <1>2, <2>2, <2>3
<1>5. \A k \in 1 .. n : \E x \in S : Rank(S, x) = k
  <2>1. R \in [S -> 1 .. n]
    BY <1>3
  <2>2. \A x, y \in S : R[x] = R[y] => x = y
    <3> SUFFICES ASSUME NEW x \in S, NEW y \in S, x # y PROVE Rank(S, x) # Rank(S, y)
      OBVIOUS
    <3>1. x < y \/ y < x
      OBVIOUS
    <3> QED BY <1>1, <1>3, <1>4, <3>1
  <2>3. R \in Injection(S, 1 .. n)
    BY <2>1, <2>2 DEF Injection, IsInjective
  <2>4. IsFiniteSet(1 .. n) /\ Cardinality(1 .. n) = n
    BY <1>1, FS_Interval
  <2> HIDE DEF R
  <2>5. R \in Surjection(S, 1 .. n)
    BY <2>3, <2>4, FS_Injection
  <2>6. \A k \in 1 .. n : \E x \in S : R[x] = k
    BY <2>5 DEF Surjection
  <2> USE DEF R
  <2> QED BY <2>6
<1> QED BY <1>1, <1>3, <1>4, <1>5

\* The n-th member of a finite set of numbers, for each n one of its own.
LEMMA NthMember ==
    ASSUME NEW S \in SUBSET Int, IsFiniteSet(S)
    PROVE  /\ \A n \in 1 .. Cardinality(S) : Nth(S, n) \in S /\ Rank(S, Nth(S, n)) = n
           /\ \A x \in S : Nth(S, Rank(S, x)) = x
<1>1. \A n \in 1 .. Cardinality(S) : Nth(S, n) \in S /\ Rank(S, Nth(S, n)) = n
  BY RankCounts DEF Nth
<1>2. \A x, y \in S : Rank(S, x) = Rank(S, y) => x = y
  <2> SUFFICES ASSUME NEW x \in S, NEW y \in S, x # y PROVE Rank(S, x) # Rank(S, y)
    OBVIOUS
  <2>1. x < y \/ y < x
    OBVIOUS
  <2>2. Rank(S, x) \in Int /\ Rank(S, y) \in Int
    BY RankCounts
  <2>3. Rank(S, x) < Rank(S, y) \/ Rank(S, y) < Rank(S, x)
    BY <2>1, RankCounts
  <2> QED BY <2>2, <2>3
<1>3. \A x \in S : Rank(S, x) \in 1 .. Cardinality(S)
  BY RankCounts
<1>4. ASSUME NEW x \in S PROVE Nth(S, Rank(S, x)) = x
  <2>1. Nth(S, Rank(S, x)) \in S /\ Rank(S, Nth(S, Rank(S, x))) = Rank(S, x)
    BY <1>1, <1>3
  <2> QED BY <1>2, <2>1
<1> QED BY <1>1, <1>4

\* frame_alloc gives every page a free frame, and no two pages the same.
LEMMA AllocDistinct ==
    ASSUME NEW V \in SUBSET Int, IsFiniteSet(V), NEW F \in SUBSET Int, IsFiniteSet(F),
           Cardinality(V) <= Cardinality(F)
    PROVE  /\ AllocFrames(V, F) \in [V -> F]
           /\ \A v, w \in V : AllocFrames(V, F)[v] = AllocFrames(V, F)[w] => v = w
<1>1. \A v \in V : Rank(V, v) \in 1 .. Cardinality(F)
  BY RankCounts
<1>2. \A v \in V : Nth(F, Rank(V, v)) \in F /\ Rank(F, Nth(F, Rank(V, v))) = Rank(V, v)
  BY <1>1, NthMember
<1>3. \A v, w \in V : Rank(V, v) = Rank(V, w) => v = w
  BY NthMember
<1> QED BY <1>2, <1>3 DEF AllocFrames
\* Products keep an order.
LEMMA TimesMonotone ==
    ASSUME NEW a \in Int, NEW b \in Int, NEW d \in Nat, a <= b
    PROVE  a * d <= b * d /\ a * d \in Int /\ b * d \in Int /\ (a + 1) * d = a * d + d
OBVIOUS

\* The quotient n \div d is k exactly between k * d and (k + 1) * d.
LEMMA DivBounds ==
    ASSUME NEW n \in Nat, NEW d \in Nat \ {0}, NEW k \in Int
    PROVE  /\ n \div d \in Nat /\ (n \div d) * d <= n
           /\ k * d <= n => k <= n \div d
           /\ n < k * d => n \div d < k
<1> DEFINE q == n \div d
<1>1. q \in Int /\ q >= 0
  OBVIOUS
<1>2. q * d <= n
  OBVIOUS
<1>3. n < q * d + d
  OBVIOUS
<1> HIDE DEF q
<1>4. q * d \in Int /\ k * d \in Int /\ (q + 1) * d = q * d + d
  BY <1>1
<1>5. ASSUME k * d <= n, k > q PROVE FALSE
  <2>1. q + 1 <= k /\ q + 1 \in Int
    BY <1>1, <1>5
  <2>2. (q + 1) * d <= k * d
    BY <2>1, TimesMonotone
  <2> QED BY <1>3, <1>4, <1>5, <2>2
<1>6. ASSUME n < k * d, k <= q PROVE FALSE
  <2>1. k * d <= q * d
    BY <1>1, <1>6, TimesMonotone
  <2> QED BY <1>2, <1>4, <1>6, <2>1
<1>7. q \in Nat /\ q * d <= n /\ (k * d <= n => k <= q) /\ (n < k * d => q < k)
  BY <1>1, <1>2, <1>5, <1>6
<1> QED BY <1>7 DEF q

\* floor and ceil of addresses, as page numbers.
LEMMA PageNumbers ==
    /\ \A a \in Nat : floor(a) \in Nat /\ ceil(a) \in Nat
    /\ \A a, b \in Nat : a <= b => floor(a) <= ceil(b)
    /\ \A k \in Nat : k * PageSize \in Nat /\ floor(k * PageSize) = k /\ ceil(k * PageSize) = k
    /\ \A a \in Nat : VirtAddr(a) \in Nat /\ floor(VirtAddr(a)) <= Trampoline
                                          /\ ceil(VirtAddr(a)) <= VPages
<1>0. PageSize \in Nat /\ PageSize > 0 /\ VPages \in Nat /\ VPages > 0
  BY Layout
<1>1. ASSUME NEW a \in Nat PROVE floor(a) \in Nat /\ ceil(a) \in Nat
  <2>1. a + PageSize - 1 \in Nat
    BY <1>0
  <2> QED BY <1>0, <2>1, DivBounds DEF floor, ceil
<1>2. ASSUME NEW a \in Nat, NEW b \in Nat, a <= b PROVE floor(a) <= ceil(b)
  <2> DEFINE q == a \div PageSize
             m == b + PageSize - 1
  <2>1. q * PageSize <= a /\ q \in Int /\ m \in Nat /\ a <= m
    BY <1>0, <1>2, DivBounds
  <2>2. q * PageSize \in Int
    BY <1>0, <2>1
  <2>3. q * PageSize <= m
    BY <2>1, <2>2
  <2> HIDE DEF q, m
  <2>4. q <= m \div PageSize
    BY <1>0, <2>1, <2>3, DivBounds
  <2> QED BY <2>4 DEF floor, ceil, q, m
<1>3. ASSUME NEW k \in Nat
      PROVE  k * PageSize \in Nat /\ floor(k * PageSize) = k /\ ceil(k * PageSize) = k
  <2> DEFINE n == k * PageSize
             m == n + PageSize - 1
  <2>1. n \in Nat /\ (k + 1) * PageSize = n + PageSize
    BY <1>0
  <2>2. m \in Nat /\ k \in Int /\ k + 1 \in Int
    BY <1>0, <2>1
  <2>3. n < (k + 1) * PageSize /\ n <= m /\ m < (k + 1) * PageSize
    BY <1>0, <2>1
  <2>4. /\ k <= n \div PageSize /\ n \div PageSize < k + 1
        /\ k <= m \div PageSize /\ m \div PageSize < k + 1
        /\ n \div PageSize \in Nat /\ m \div PageSize \in Nat
    <3> HIDE DEF m
    <3>1. n <= m /\ n <= n
      BY <2>1, <2>3
    <3> QED BY <1>0, <2>1, <2>2, <2>3, <3>1, DivBounds
  <2> HIDE DEF n, m
  <2>5. n \div PageSize = k /\ m \div PageSize = k
    BY <2>4
  <2> QED BY <2>1, <2>5 DEF floor, ceil, n, m
<1>4. ASSUME NEW a \in Nat
      PROVE  VirtAddr(a) \in Nat /\ floor(VirtAddr(a)) <= Trampoline /\ ceil(VirtAddr(a)) <= VPages
  <2> DEFINE n == VirtAddr(a)
             m == n + PageSize - 1
             top == VPages * PageSize
  <2>1. top \in Nat /\ top > 0 /\ (VPages + 1) * PageSize = top + PageSize
    BY <1>0
  <2>2. n \in Nat /\ n < top
    <3> HIDE DEF top
    <3>1. a % top \in Nat /\ a % top < top
      BY <2>1
    <3> QED BY <3>1 DEF VirtAddr, top
  <2>3. n \div PageSize < VPages /\ n \div PageSize \in Nat
    <3> HIDE DEF n
    <3> QED BY <1>0, <2>2, DivBounds
  <2>4. m \in Nat /\ m < (VPages + 1) * PageSize
    <3> HIDE DEF n, top
    <3> QED BY <1>0, <2>1, <2>2
  <2>5. m \div PageSize < VPages + 1 /\ m \div PageSize \in Nat
    <3> HIDE DEF m
    <3> QED BY <1>0, <2>4, DivBounds
  <2> HIDE DEF n, m
  <2>6. n \div PageSize <= VPages - 1 /\ m \div PageSize <= VPages
    BY <1>0, <2>3, <2>5
  <2> QED BY <2>2, <2>6 DEF floor, ceil, n, m, Trampoline
<1> QED BY <1>1, <1>2, <1>3, <1>4
\* What the variables hold: an area tracks one frame for each of its pages,
\* all below the trampoline; a table maps pages to entries.
FrameMaps == UNION {[S -> Frames] : S \in SUBSET Vpns}
Area == {a \in [start : Nat, end : Nat, perm : Perms, frames : FrameMaps] :
           /\ a.start <= a.end /\ a.end <= Trampoline
           /\ DOMAIN a.frames = VPNRange(a.start, a.end)}
Entry == [ppn : Frames, perm : Perms]
Table == UNION {[S -> Entry] : S \in SUBSET Vpns}

\* No frame backs two pages, no page lies in two areas of as.
Injective(as) ==
    \A i, j \in DOMAIN as : \A v \in DOMAIN as[i].frames, w \in DOMAIN as[j].frames :
       as[i].frames[v] = as[j].frames[w] => i = j /\ v = w
Disjoint(as) ==
    \A i, j \in DOMAIN as : \A v \in DOMAIN as[i].frames :
       v \in DOMAIN as[j].frames => i = j

\* The table says what the areas say.
Matches(as, t) ==
    /\ t \in Table
    /\ DOMAIN t = Pages(as)
    /\ \A i \in DOMAIN as : \A v \in DOMAIN as[i].frames :
          t[v] = [ppn |-> as[i].frames[v], perm |-> as[i].perm]

\* The fields of an area.
LEMMA AreaFields ==
    ASSUME NEW a \in Area
    PROVE  /\ a.start \in Nat /\ a.end \in Nat /\ a.start <= a.end /\ a.end <= Trampoline
           /\ a.perm \in Perms
           /\ DOMAIN a.frames = VPNRange(a.start, a.end)
           /\ a.frames \in [VPNRange(a.start, a.end) -> Frames]
           /\ DOMAIN a.frames \subseteq Vpns \ {Trampoline}
           /\ a = [start |-> a.start, end |-> a.end, perm |-> a.perm, frames |-> a.frames]
<1>1. /\ a.start \in Nat /\ a.end \in Nat /\ a.start <= a.end /\ a.end <= Trampoline
      /\ a.perm \in Perms /\ a.frames \in FrameMaps
      /\ DOMAIN a.frames = VPNRange(a.start, a.end)
      /\ a = [start |-> a.start, end |-> a.end, perm |-> a.perm, frames |-> a.frames]
  BY DEF Area
<1>2. PICK S \in SUBSET Vpns : a.frames \in [S -> Frames]
  BY <1>1 DEF FrameMaps
<1>3. a.frames \in [VPNRange(a.start, a.end) -> Frames]
  BY <1>1, <1>2
<1>4. VPNRange(a.start, a.end) \subseteq Vpns \ {Trampoline}
  BY <1>1, Layout DEF VPNRange, Vpns, Trampoline
<1> QED BY <1>1, <1>3, <1>4

\* MapArea::new and map on frames that are there for every page.
LEMMA MapAreaIsArea ==
    ASSUME NEW s \in Nat, NEW e \in Nat, s <= e, e <= Trampoline, NEW perm \in Perms,
           NEW alloc, \A v \in VPNRange(s, e) : alloc[v] \in Frames
    PROVE  LET a == MapArea(s, e, perm, alloc)
           IN  /\ a \in Area /\ a.start = s /\ a.end = e /\ a.perm = perm
               /\ DOMAIN a.frames = VPNRange(s, e)
               /\ \A v \in VPNRange(s, e) : a.frames[v] = alloc[v]
<1> DEFINE fr == [v \in VPNRange(s, e) |-> alloc[v]]
           a == [start |-> s, end |-> e, perm |-> perm, frames |-> fr]
<1>1. VPNRange(s, e) \in SUBSET Vpns
  BY Layout DEF VPNRange, Vpns, Trampoline
<1>2. fr \in [VPNRange(s, e) -> Frames]
  OBVIOUS
<1>3. fr \in FrameMaps
  BY <1>1, <1>2 DEF FrameMaps
<1>4. DOMAIN fr = VPNRange(s, e) /\ \A v \in VPNRange(s, e) : fr[v] = alloc[v]
  OBVIOUS
<1> HIDE DEF fr
<1>5. a \in Area
  BY <1>3, <1>4 DEF Area
<1>6. MapArea(s, e, perm, alloc) = a
  BY DEF MapArea, fr
<1> QED BY <1>4, <1>5, <1>6

\* Which pages and frames a vector of areas covers, member by member.
LEMMA InPages ==
    ASSUME NEW as, NEW v
    PROVE  v \in Pages(as) <=> \E i \in DOMAIN as : v \in DOMAIN as[i].frames
BY Zenon DEF Pages

\* The frame an area tracks for a page is one of the vector's.
LEMMA InOwned ==
    ASSUME NEW as, NEW i \in DOMAIN as, NEW v \in DOMAIN as[i].frames
    PROVE  as[i].frames[v] \in Owned(as)
<1> DEFINE Own(k) == {as[k].frames[w] : w \in DOMAIN as[k].frames}
<1>1. as[i].frames[v] \in Own(i)
  OBVIOUS
<1>2. Own(i) \in {Own(k) : k \in DOMAIN as}
  OBVIOUS
<1>3. Owned(as) = UNION {Own(k) : k \in DOMAIN as}
  BY DEF Owned
<1> HIDE DEF Own
<1> QED BY <1>1, <1>2, <1>3

\* A frame of the vector is tracked by some area for some page.
LEMMA OwnedBy ==
    ASSUME NEW as, NEW f \in Owned(as)
    PROVE  \E i \in DOMAIN as : \E v \in DOMAIN as[i].frames : f = as[i].frames[v]
<1> DEFINE Own(i) == {as[i].frames[v] : v \in DOMAIN as[i].frames}
<1>1. PICK i \in DOMAIN as : f \in Own(i)
  BY Zenon DEF Owned
<1>2. PICK v \in DOMAIN as[i].frames : f = as[i].frames[v]
  BY <1>1, Zenon
<1> QED BY <1>2, Zenon

\* The fields of a page table entry.
LEMMA EntryFields ==
    \A r, f, perm : r = [ppn |-> f, perm |-> perm] => r.ppn = f /\ r.perm = perm
OBVIOUS

\* The indices and the members of a vector.
LEMMA VecMembers ==
    ASSUME NEW S, NEW s \in Seq(S)
    PROVE  DOMAIN s = 1 .. Len(s) /\ Len(s) \in Nat /\ \A i \in DOMAIN s : s[i] \in S
<1>1. DOMAIN s = 1 .. Len(s) /\ Len(s) \in Nat
  OBVIOUS
<1>2. \A i \in 1 .. Len(s) : s[i] \in S
  OBVIOUS
<1> QED BY <1>1, <1>2

\* A vector of one area.
LEMMA OneArea ==
    ASSUME NEW a
    PROVE  /\ Pages(<<a>>) = DOMAIN a.frames
           /\ Owned(<<a>>) = {a.frames[v] : v \in DOMAIN a.frames}
           /\ DOMAIN TableOf(<<a>>) = DOMAIN a.frames
           /\ \A v \in DOMAIN a.frames :
                 TableOf(<<a>>)[v] = [ppn |-> a.frames[v], perm |-> a.perm]
<1>1. DOMAIN <<a>> = {1} /\ <<a>>[1] = a
  OBVIOUS
<1>2. Pages(<<a>>) = DOMAIN a.frames /\ Owned(<<a>>) = {a.frames[v] : v \in DOMAIN a.frames}
  <2>1. \A v : v \in Pages(<<a>>) <=> v \in DOMAIN a.frames
    BY <1>1, InPages
  <2>2. \A v \in DOMAIN a.frames : a.frames[v] \in Owned(<<a>>)
    BY <1>1, InOwned
  <2>3. \A f \in Owned(<<a>>) : \E v \in DOMAIN a.frames : f = a.frames[v]
    BY <1>1, OwnedBy
  <2> QED BY <2>1, <2>2, <2>3
<1>3. \A v \in DOMAIN a.frames : (CHOOSE j \in DOMAIN <<a>> : v \in DOMAIN <<a>>[j].frames) = 1
  BY <1>1
<1> QED BY <1>1, <1>2, <1>3 DEF TableOf

\* The pages of areas are pages below the trampoline, their frames frames.
LEMMA PagesInSpace ==
    ASSUME NEW as \in Seq(Area)
    PROVE  /\ Pages(as) \subseteq Vpns \ {Trampoline} /\ Owned(as) \subseteq Frames
           /\ IsFiniteSet(Pages(as)) /\ Pages(as) \subseteq Nat
<1>1. \A i \in DOMAIN as : as[i] \in Area
  BY VecMembers
<1>2. Pages(as) \subseteq Vpns \ {Trampoline} /\ Owned(as) \subseteq Frames
  <2>1. ASSUME NEW v \in Pages(as) PROVE v \in Vpns \ {Trampoline}
    <3>1. PICK i \in DOMAIN as : v \in DOMAIN as[i].frames
      BY InPages
    <3> QED BY <1>1, <3>1, AreaFields
  <2>2. ASSUME NEW f \in Owned(as) PROVE f \in Frames
    <3>1. PICK i \in DOMAIN as : \E v \in DOMAIN as[i].frames : f = as[i].frames[v]
      BY OwnedBy
    <3>2. PICK v \in DOMAIN as[i].frames : f = as[i].frames[v]
      BY <3>1
    <3>3. as[i].frames \in [DOMAIN as[i].frames -> Frames]
      BY <1>1, AreaFields
    <3> QED BY <3>2, <3>3
  <2> QED BY <2>1, <2>2
<1>3. IsFiniteSet(Vpns) /\ Vpns \subseteq Nat
  BY Layout, FS_Interval DEF Vpns
<1>4. Pages(as) \in SUBSET Vpns
  BY <1>2
<1> QED BY <1>2, <1>3, <1>4, FS_Subset

\* Mapping disjoint areas into a bare table (map_one).
LEMMA TableOfMatches ==
    ASSUME NEW as \in Seq(Area), Disjoint(as)
    PROVE  Matches(as, TableOf(as))
<1>1. \A i \in DOMAIN as : as[i] \in Area
  BY VecMembers
<1>2. DOMAIN TableOf(as) = Pages(as)
  BY DEF TableOf
<1>3. ASSUME NEW i \in DOMAIN as, NEW v \in DOMAIN as[i].frames
      PROVE  TableOf(as)[v] = [ppn |-> as[i].frames[v], perm |-> as[i].perm]
  <2>1. v \in Pages(as)
    BY InPages
  <2>2. (CHOOSE j \in DOMAIN as : v \in DOMAIN as[j].frames) = i
    BY DEF Disjoint
  <2> QED BY <2>1, <2>2 DEF TableOf
<1>4. \A v \in Pages(as) : TableOf(as)[v] \in Entry
  <2> SUFFICES ASSUME NEW v \in Pages(as) PROVE TableOf(as)[v] \in Entry
    OBVIOUS
  <2>1. PICK i \in DOMAIN as : v \in DOMAIN as[i].frames
    BY InPages
  <2>2. as[i].frames[v] \in Frames /\ as[i].perm \in Perms
    BY <1>1, <2>1, AreaFields
  <2>3. [ppn |-> as[i].frames[v], perm |-> as[i].perm] \in Entry
    BY <2>2 DEF Entry
  <2> QED BY <1>3, <2>1, <2>3
<1>5. TableOf(as) \in [Pages(as) -> Entry]
  BY <1>4 DEF TableOf
<1>6. TableOf(as) \in Table
  BY <1>5, PagesInSpace DEF Table
<1> QED BY <1>2, <1>3, <1>6 DEF Matches

\* Areas whose table matches and whose frames are distinct do not overlap.
LEMMA MatchedDisjoint ==
    ASSUME NEW as, NEW t, Matches(as, t), Injective(as)
    PROVE  Disjoint(as)
<1> SUFFICES ASSUME NEW i \in DOMAIN as, NEW j \in DOMAIN as, NEW v \in DOMAIN as[i].frames,
                    v \in DOMAIN as[j].frames
             PROVE  i = j
  BY DEF Disjoint
<1>1. t[v] = [ppn |-> as[i].frames[v], perm |-> as[i].perm]
  BY DEF Matches
<1>2. t[v] = [ppn |-> as[j].frames[v], perm |-> as[j].perm]
  BY DEF Matches
<1>3. t[v].ppn = as[i].frames[v]
  BY <1>1, EntryFields, Zenon
<1>4. t[v].ppn = as[j].frames[v]
  BY <1>2, EntryFields, Zenon
<1> QED BY <1>3, <1>4 DEF Injective

\* A matching entry is that of one of the areas, with its frame.
LEMMA MatchedEntry ==
    ASSUME NEW as \in Seq(Area), NEW t, Matches(as, t), NEW v \in Pages(as)
    PROVE  \E i \in DOMAIN as : /\ v \in DOMAIN as[i].frames
                                /\ t[v] = [ppn |-> as[i].frames[v], perm |-> as[i].perm]
                                /\ t[v].ppn = as[i].frames[v] /\ t[v].ppn \in Frames
                                /\ t[v].ppn \in Owned(as)
<1>1. PICK i \in DOMAIN as : v \in DOMAIN as[i].frames
  BY InPages
<1>2. t[v] = [ppn |-> as[i].frames[v], perm |-> as[i].perm]
  BY <1>1 DEF Matches
<1>3. t[v].ppn = as[i].frames[v]
  BY <1>2
<1>4. as[i].frames[v] \in Frames
  <2>1. as[i] \in Area
    BY VecMembers
  <2>2. as[i].frames \in [DOMAIN as[i].frames -> Frames]
    BY <2>1, AreaFields
  <2> QED BY <1>1, <2>2
<1>5. as[i].frames[v] \in Owned(as)
  BY <1>1, InOwned
<1> QED BY <1>1, <1>2, <1>3, <1>4, <1>5

\* A table is a function.
IsTable(u) == u = [v \in DOMAIN u |-> u[v]]

\* A table with the pages of the areas and, page by page, their entries.
LEMMA MatchesIfEqual ==
    ASSUME NEW as \in Seq(Area), NEW u, IsTable(u), DOMAIN u = Pages(as),
           \A i \in DOMAIN as : \A v \in DOMAIN as[i].frames :
              u[v] = [ppn |-> as[i].frames[v], perm |-> as[i].perm]
    PROVE  Matches(as, u)
<1>1. \A i \in DOMAIN as : as[i] \in Area
  BY VecMembers
<1>2. DOMAIN u = Pages(as)
  OBVIOUS
<1>3. \A v \in Pages(as) : u[v] \in Entry
  <2> SUFFICES ASSUME NEW v \in Pages(as) PROVE u[v] \in Entry
    OBVIOUS
  <2>1. PICK i \in DOMAIN as : v \in DOMAIN as[i].frames
    BY InPages
  <2>2. as[i].frames[v] \in Frames /\ as[i].perm \in Perms
    BY <1>1, <2>1, AreaFields
  <2>3. [ppn |-> as[i].frames[v], perm |-> as[i].perm] \in Entry
    BY <2>2 DEF Entry
  <2> QED BY <2>1, <2>3
<1>4. u \in [Pages(as) -> Entry]
  BY <1>2, <1>3 DEF IsTable
<1>5. u \in Table
  BY <1>4, PagesInSpace DEF Table
<1> QED BY <1>2, <1>5 DEF Matches

\* Reading off that no frame backs two pages.
LEMMA InjectiveAt ==
    ASSUME NEW as, Injective(as), NEW i \in DOMAIN as, NEW j \in DOMAIN as,
           NEW v \in DOMAIN as[i].frames, NEW w \in DOMAIN as[j].frames,
           as[i].frames[v] = as[j].frames[w]
    PROVE  i = j /\ v = w
BY DEF Injective

\* Within one area, two pages on one frame are one page.
LEMMA InjectivePage ==
    ASSUME NEW as, Injective(as), NEW i \in DOMAIN as,
           NEW v \in DOMAIN as[i].frames, NEW w \in DOMAIN as[i].frames,
           as[i].frames[v] = as[i].frames[w]
    PROVE  v = w
BY DEF Injective

\* The frames of a single area are owned by the vector of that area.
LEMMA FramesOfOne ==
    ASSUME NEW a, NEW v \in DOMAIN a.frames
    PROVE  a.frames[v] \in Owned(<<a>>)
<1>1. 1 \in DOMAIN <<a>> /\ <<a>>[1] = a
  OBVIOUS
<1>2. v \in DOMAIN <<a>>[1].frames
  BY <1>1
<1> QED BY <1>1, <1>2, InOwned

\* bs is as with the area a at a new index n (Vec::push).
Extends(bs, as, n, a) ==
    /\ n \notin DOMAIN as /\ DOMAIN bs = DOMAIN as \cup {n}
    /\ bs[n] = a /\ \A i \in DOMAIN as : bs[i] = as[i]

\* Append is such an extension.
LEMMA AppendExtends ==
    ASSUME NEW S, NEW s \in Seq(S), NEW e \in S
    PROVE  Append(s, e) \in Seq(S) /\ Extends(Append(s, e), s, Len(s) + 1, e)
<1>1. /\ Append(s, e) \in Seq(S) /\ Len(Append(s, e)) = Len(s) + 1
      /\ Append(s, e)[Len(s) + 1] = e
      /\ \A i \in 1 .. Len(s) : Append(s, e)[i] = s[i]
  BY AppendProperties
<1>2. DOMAIN s = 1 .. Len(s) /\ Len(s) \in Nat
  BY VecMembers
<1>3. DOMAIN Append(s, e) = 1 .. Len(s) + 1
  BY <1>1, VecMembers
<1> QED BY <1>1, <1>2, <1>3 DEF Extends

\* The pages and the frames of the extended vector.
LEMMA ExtendedPages ==
    ASSUME NEW as, NEW bs, NEW n, NEW a, Extends(bs, as, n, a)
    PROVE  Pages(bs) = Pages(as) \cup DOMAIN a.frames
<1>1. ASSUME NEW v PROVE v \in Pages(bs) <=> v \in Pages(as) \/ v \in DOMAIN a.frames
  <2>1. v \in Pages(bs) <=> \E i \in DOMAIN bs : v \in DOMAIN bs[i].frames
    BY InPages
  <2>2. v \in Pages(as) <=> \E i \in DOMAIN as : v \in DOMAIN as[i].frames
    BY InPages
  <2> QED BY <2>1, <2>2 DEF Extends
<1> QED BY <1>1

\* A push adds the frames of the area pushed.
LEMMA ExtendedOwned ==
    ASSUME NEW as, NEW bs, NEW n, NEW a, Extends(bs, as, n, a)
    PROVE  Owned(bs) = Owned(as) \cup Owned(<<a>>)
<1>1. ASSUME NEW f \in Owned(bs) PROVE f \in Owned(as) \cup Owned(<<a>>)
  <2>1. PICK i \in DOMAIN bs : \E v \in DOMAIN bs[i].frames : f = bs[i].frames[v]
    BY OwnedBy
  <2>2. PICK v \in DOMAIN bs[i].frames : f = bs[i].frames[v]
    BY <2>1
  <2>3. CASE i = n
    <3>1. f \in {a.frames[x] : x \in DOMAIN a.frames}
      BY <2>2, <2>3 DEF Extends
    <3> QED BY <3>1, OneArea
  <2>4. CASE i \in DOMAIN as
    <3>1. v \in DOMAIN as[i].frames /\ f = as[i].frames[v]
      BY <2>2, <2>4 DEF Extends
    <3> QED BY <2>4, <3>1, InOwned
  <2> QED BY <2>3, <2>4 DEF Extends
<1>2. ASSUME NEW f \in Owned(as) PROVE f \in Owned(bs)
  <2>1. PICK i \in DOMAIN as : \E v \in DOMAIN as[i].frames : f = as[i].frames[v]
    BY OwnedBy
  <2>2. PICK v \in DOMAIN as[i].frames : f = as[i].frames[v]
    BY <2>1
  <2>3. i \in DOMAIN bs /\ v \in DOMAIN bs[i].frames /\ f = bs[i].frames[v]
    BY <2>2 DEF Extends
  <2> QED BY <2>3, InOwned
<1>3. ASSUME NEW f \in Owned(<<a>>) PROVE f \in Owned(bs)
  <2>1. PICK v \in DOMAIN a.frames : f = a.frames[v]
    BY OneArea
  <2>2. n \in DOMAIN bs /\ v \in DOMAIN bs[n].frames /\ f = bs[n].frames[v]
    BY <2>1 DEF Extends
  <2> QED BY <2>2, InOwned
<1> QED BY <1>1, <1>2, <1>3

\* The frames of one area are pairwise distinct.
OneToOne(f) == \A v, w \in DOMAIN f : f[v] = f[w] => v = w

\* A push of an area on new frames keeps one page per frame.
LEMMA ExtendedInjective ==
    ASSUME NEW as, NEW bs, NEW n, NEW a, Extends(bs, as, n, a), Injective(as),
           OneToOne(a.frames), Owned(<<a>>) \cap Owned(as) = {}
    PROVE  Injective(bs)
<1>1. \A v \in DOMAIN a.frames : a.frames[v] \notin Owned(as)
  BY FramesOfOne
<1>2. SUFFICES ASSUME NEW i \in DOMAIN bs, NEW j \in DOMAIN bs,
                    NEW v \in DOMAIN bs[i].frames, NEW w \in DOMAIN bs[j].frames,
                    bs[i].frames[v] = bs[j].frames[w]
             PROVE  i = j /\ v = w
  BY DEF Injective
<1>3. CASE i \in DOMAIN as /\ j \in DOMAIN as
  <2>1. /\ v \in DOMAIN as[i].frames /\ w \in DOMAIN as[j].frames
        /\ as[i].frames[v] = as[j].frames[w]
    BY <1>2, <1>3 DEF Extends
  <2>2. i = j
    BY <1>3, <2>1, InjectiveAt
  <2>3. v = w
    BY <1>3, <2>1, <2>2, InjectivePage
  <2> QED BY <2>2, <2>3
<1>4. CASE i = n /\ j = n
  BY <1>2, <1>4 DEF Extends, OneToOne
<1>5. CASE i \in DOMAIN as /\ j = n
  <2>1. as[i].frames[v] \in Owned(as) /\ as[i].frames[v] = a.frames[w] /\ w \in DOMAIN a.frames
    BY <1>2, <1>5, InOwned DEF Extends
  <2> QED BY <1>1, <2>1
<1>6. CASE i = n /\ j \in DOMAIN as
  <2>1. as[j].frames[w] \in Owned(as) /\ as[j].frames[w] = a.frames[v] /\ v \in DOMAIN a.frames
    BY <1>2, <1>6, InOwned DEF Extends
  <2> QED BY <1>1, <2>1
<1> QED BY <1>3, <1>4, <1>5, <1>6 DEF Extends

\* A push of an area on new pages keeps table and areas in step.
LEMMA ExtendedMatches ==
    ASSUME NEW as, NEW bs \in Seq(Area), NEW n, NEW a, Extends(bs, as, n, a),
           NEW t, Matches(as, t), DOMAIN a.frames \cap Pages(as) = {},
           NEW u, u = Merge(t, TableOf(<<a>>))
    PROVE  Matches(bs, u)
<1>1. DOMAIN t = Pages(as)
  BY DEF Matches
<1>2. /\ u = [v \in Pages(as) \cup DOMAIN a.frames |-> u[v]]
      /\ DOMAIN u = Pages(as) \cup DOMAIN a.frames
      /\ \A v \in DOMAIN a.frames : u[v] = TableOf(<<a>>)[v]
      /\ \A v \in Pages(as) : u[v] = t[v]
  BY <1>1, OneArea DEF Merge
<1>3. IsTable(u) /\ DOMAIN u = Pages(bs)
  BY <1>2, ExtendedPages DEF IsTable
<1>4. ASSUME NEW i \in DOMAIN bs, NEW v \in DOMAIN bs[i].frames
      PROVE  u[v] = [ppn |-> bs[i].frames[v], perm |-> bs[i].perm]
  <2>1. CASE i = n
    BY <1>2, <2>1, OneArea DEF Extends
  <2>2. CASE i \in DOMAIN as
    <3>1. v \in DOMAIN as[i].frames /\ bs[i] = as[i]
      BY <2>2 DEF Extends
    <3>2. v \in Pages(as)
      BY <2>2, <3>1, InPages
    <3>3. t[v] = [ppn |-> as[i].frames[v], perm |-> as[i].perm]
      BY <2>2, <3>1 DEF Matches
    <3> QED BY <1>2, <3>1, <3>2, <3>3
  <2> QED BY <2>1, <2>2 DEF Extends
<1> QED BY <1>3, <1>4, MatchesIfEqual

\* MemorySet::push: a new area on pages that are not mapped and frames that
\* are not owned keeps table and areas in step.
LEMMA PushArea ==
    ASSUME NEW as \in Seq(Area), NEW t, Matches(as, t), Injective(as), NEW a \in Area,
           DOMAIN a.frames \cap Pages(as) = {}, OneToOne(a.frames),
           Owned(<<a>>) \cap Owned(as) = {}
    PROVE  /\ Append(as, a) \in Seq(Area) /\ Injective(Append(as, a))
           /\ Matches(Append(as, a), Merge(t, TableOf(<<a>>)))
           /\ Owned(Append(as, a)) = Owned(as) \cup Owned(<<a>>)
           /\ \A i \in DOMAIN as : i \in DOMAIN Append(as, a) /\ Append(as, a)[i] = as[i]
<1>1. Append(as, a) \in Seq(Area) /\ Extends(Append(as, a), as, Len(as) + 1, a)
  BY AppendExtends
<1>2. Owned(Append(as, a)) = Owned(as) \cup Owned(<<a>>)
  BY <1>1, ExtendedOwned
<1>3. Injective(Append(as, a))
  BY <1>1, ExtendedInjective
<1>4. Matches(Append(as, a), Merge(t, TableOf(<<a>>)))
  BY <1>1, ExtendedMatches
<1> QED BY <1>1, <1>2, <1>3, <1>4 DEF Extends

\* bs holds the areas of as whose indices are in K, each once: bs[n] is as[g[n]].
Selects(bs, as, K, g) ==
    /\ K \subseteq DOMAIN as /\ g \in [DOMAIN bs -> K]
    /\ \A m, n \in DOMAIN bs : g[m] = g[n] => m = n
    /\ \A i \in K : \E n \in DOMAIN bs : g[n] = i
    /\ \A n \in DOMAIN bs : bs[n] = as[g[n]]

\* The selection keeps the order.
Ordered(bs, g) == \A m, n \in DOMAIN bs : m < n <=> g[m] < g[n]

\* The indices of K in their order.
Picks(K) == [n \in 1 .. Cardinality(K) |-> Nth(K, n)]

\* The areas of as with an index in hit, as munmap_area collects them.
Hit(as, hit) == [i \in hit |-> as[i]]

\* Vec::retain keeps the areas of K in their order.
LEMMA RetainSelects ==
    ASSUME NEW S, NEW as \in Seq(S), NEW K \in SUBSET DOMAIN as
    PROVE  /\ Retain(as, K) \in Seq(S) /\ Selects(Retain(as, K), as, K, Picks(K))
           /\ Ordered(Retain(as, K), Picks(K))
<1> DEFINE bs == Retain(as, K)
           g == Picks(K)
           c == Cardinality(K)
<1>1. DOMAIN as = 1 .. Len(as) /\ Len(as) \in Nat /\ \A i \in DOMAIN as : as[i] \in S
  BY VecMembers
<1>2. K \in SUBSET Int /\ IsFiniteSet(K)
  <2>1. IsFiniteSet(DOMAIN as)
    <3>1. ASSUME NEW k \in Nat PROVE IsFiniteSet(1 .. k)
      BY FS_Interval
    <3> QED BY <1>1, <3>1
  <2>2. IsFiniteSet(K)
    BY <2>1, FS_Subset
  <2>3. ASSUME NEW i \in K PROVE i \in Int
    <3>1. i \in DOMAIN as
      OBVIOUS
    <3>2. i \in 1 .. Len(as)
      BY <1>1, <3>1, Zenon
    <3> QED BY <1>1, <3>2
  <2> QED BY <2>2, <2>3
<1>3. /\ c \in Nat /\ \A n \in 1 .. c : Nth(K, n) \in K /\ Rank(K, Nth(K, n)) = n
      /\ \A i \in K : Rank(K, i) \in 1 .. c /\ Nth(K, Rank(K, i)) = i
  BY <1>2, RankCounts, NthMember
<1>4. \A i, j \in K : i < j => Rank(K, i) < Rank(K, j)
  BY <1>2, RankCounts
<1>5. \A n \in 1 .. c : as[Nth(K, n)] \in S
  BY <1>1, <1>3
<1>6. DOMAIN bs = 1 .. c /\ \A n \in 1 .. c : bs[n] = as[Nth(K, n)]
  BY DEF Retain
<1>7. bs \in Seq(S)
  <2>1. bs \in [1 .. c -> S]
    BY <1>5, <1>6 DEF Retain
  <2>2. [1 .. c -> S] \subseteq Seq(S)
    BY <1>3, SeqDef
  <2> QED BY <2>1, <2>2
<1>8. /\ g \in [DOMAIN bs -> K] /\ \A n \in 1 .. c : g[n] = Nth(K, n)
  BY <1>3, <1>6 DEF Picks
<1> HIDE DEF bs, c, g
<1>9. \A m, n \in DOMAIN bs : g[m] = g[n] => m = n
  BY <1>3, <1>6, <1>8
<1>10. ASSUME NEW i \in K PROVE \E n \in DOMAIN bs : g[n] = i
  <2>1. Rank(K, i) \in DOMAIN bs /\ g[Rank(K, i)] = i
    BY <1>3, <1>6, <1>8
  <2> QED BY <2>1
<1>11. \A n \in DOMAIN bs : bs[n] = as[g[n]]
  BY <1>6, <1>8
<1>12. ASSUME NEW m \in DOMAIN bs, NEW n \in DOMAIN bs PROVE m < n <=> g[m] < g[n]
  <2>1. m \in Int /\ n \in Int /\ g[m] \in K /\ g[n] \in K /\ Rank(K, g[m]) = m /\ Rank(K, g[n]) = n
    BY <1>3, <1>6, <1>8
  <2>2. g[m] \in Int /\ g[n] \in Int
    BY <1>2, <2>1
  <2>3. CASE g[m] < g[n]
    BY <1>4, <2>1, <2>3
  <2>4. CASE g[n] < g[m]
    BY <1>4, <2>1, <2>2, <2>4
  <2>5. CASE g[m] = g[n]
    BY <2>1, <2>2, <2>5
  <2> QED BY <2>2, <2>3, <2>4, <2>5
<1>13. Selects(bs, as, K, g)
  BY <1>8, <1>9, <1>10, <1>11 DEF Selects
<1>14. Ordered(bs, g)
  BY <1>12 DEF Ordered
<1> QED BY <1>7, <1>13, <1>14 DEF bs, g

\* What a selection keeps of pages and frames.
LEMMA SelectedPages ==
    ASSUME NEW as, NEW bs, NEW hit \in SUBSET DOMAIN as, NEW g,
           Selects(bs, as, DOMAIN as \ hit, g), Disjoint(as)
    PROVE  Pages(bs) = Pages(as) \ Pages(Hit(as, hit))
<1>1. ASSUME NEW v \in Pages(bs) PROVE v \in Pages(as) \ Pages(Hit(as, hit))
  <2>1. PICK n \in DOMAIN bs : v \in DOMAIN bs[n].frames
    BY InPages
  <2>2. g[n] \in DOMAIN as /\ g[n] \notin hit /\ v \in DOMAIN as[g[n]].frames
    BY <2>1 DEF Selects
  <2>3. v \in Pages(as)
    BY <2>2, InPages
  <2>4. ASSUME v \in Pages(Hit(as, hit)) PROVE FALSE
    <3>1. PICK i \in DOMAIN Hit(as, hit) : v \in DOMAIN Hit(as, hit)[i].frames
      BY <2>4, InPages
    <3>2. i \in hit /\ i \in DOMAIN as /\ v \in DOMAIN as[i].frames
      BY <3>1 DEF Hit
    <3>3. i = g[n]
      BY <2>2, <3>2 DEF Disjoint
    <3> QED BY <2>2, <3>2, <3>3
  <2> QED BY <2>3, <2>4
<1>2. ASSUME NEW v \in Pages(as), v \notin Pages(Hit(as, hit)) PROVE v \in Pages(bs)
  <2>1. PICK i \in DOMAIN as : v \in DOMAIN as[i].frames
    BY InPages
  <2>2. i \notin hit
    <3>1. ASSUME i \in hit PROVE FALSE
      <4>1. i \in DOMAIN Hit(as, hit) /\ v \in DOMAIN Hit(as, hit)[i].frames
        BY <2>1, <3>1 DEF Hit
      <4> QED BY <1>2, <4>1, InPages
    <3> QED BY <3>1
  <2>3. PICK n \in DOMAIN bs : g[n] = i
    BY <2>2 DEF Selects
  <2>4. v \in DOMAIN bs[n].frames
    BY <2>1, <2>3 DEF Selects
  <2> QED BY <2>4, InPages
<1> QED BY <1>1, <1>2

\* The areas that retain keeps own what the areas it drops do not.
LEMMA SelectedOwned ==
    ASSUME NEW as, NEW bs, NEW hit \in SUBSET DOMAIN as, NEW g,
           Selects(bs, as, DOMAIN as \ hit, g), Injective(as)
    PROVE  /\ Owned(bs) = Owned(as) \ Owned(Hit(as, hit))
           /\ Owned(Hit(as, hit)) \subseteq Owned(as)
<1>1. ASSUME NEW f \in Owned(Hit(as, hit))
      PROVE  \E i \in hit : i \in DOMAIN as /\ \E v \in DOMAIN as[i].frames : f = as[i].frames[v]
  <2>1. PICK i \in DOMAIN Hit(as, hit) :
              \E v \in DOMAIN Hit(as, hit)[i].frames : f = Hit(as, hit)[i].frames[v]
    BY OwnedBy
  <2>2. i \in hit /\ i \in DOMAIN as /\ Hit(as, hit)[i] = as[i]
    BY <2>1 DEF Hit
  <2> QED BY <2>1, <2>2
<1>2. Owned(Hit(as, hit)) \subseteq Owned(as)
  <2> SUFFICES ASSUME NEW f \in Owned(Hit(as, hit)) PROVE f \in Owned(as)
    OBVIOUS
  <2>1. PICK i \in hit : i \in DOMAIN as /\ \E v \in DOMAIN as[i].frames : f = as[i].frames[v]
    BY <1>1
  <2>2. PICK v \in DOMAIN as[i].frames : f = as[i].frames[v]
    BY <2>1
  <2> QED BY <2>1, <2>2, InOwned
<1>3. ASSUME NEW f \in Owned(bs) PROVE f \in Owned(as) /\ f \notin Owned(Hit(as, hit))
  <2>1. PICK n \in DOMAIN bs : \E v \in DOMAIN bs[n].frames : f = bs[n].frames[v]
    BY OwnedBy
  <2>2. PICK v \in DOMAIN bs[n].frames : f = bs[n].frames[v]
    BY <2>1
  <2>3. g[n] \in DOMAIN as /\ g[n] \notin hit /\ bs[n] = as[g[n]]
    BY DEF Selects
  <2>4. v \in DOMAIN as[g[n]].frames /\ f = as[g[n]].frames[v]
    BY <2>2, <2>3
  <2>5. f \in Owned(as)
    BY <2>3, <2>4, InOwned
  <2>6. ASSUME f \in Owned(Hit(as, hit)) PROVE FALSE
    <3>1. PICK i \in hit : i \in DOMAIN as /\ \E w \in DOMAIN as[i].frames : f = as[i].frames[w]
      BY <1>1, <2>6
    <3>2. PICK w \in DOMAIN as[i].frames : f = as[i].frames[w]
      BY <3>1
    <3>3. as[i].frames[w] = as[g[n]].frames[v]
      BY <2>4, <3>2
    <3>4. i = g[n]
      BY <2>3, <2>4, <3>1, <3>2, <3>3, InjectiveAt
    <3> QED BY <2>3, <3>4
  <2> QED BY <2>5, <2>6
<1>4. ASSUME NEW f \in Owned(as), f \notin Owned(Hit(as, hit)) PROVE f \in Owned(bs)
  <2>1. PICK i \in DOMAIN as : \E v \in DOMAIN as[i].frames : f = as[i].frames[v]
    BY OwnedBy
  <2>2. PICK v \in DOMAIN as[i].frames : f = as[i].frames[v]
    BY <2>1
  <2>3. i \notin hit
    <3>1. ASSUME i \in hit PROVE FALSE
      <4>1. i \in DOMAIN Hit(as, hit) /\ Hit(as, hit)[i] = as[i]
        BY <3>1 DEF Hit
      <4>2. v \in DOMAIN Hit(as, hit)[i].frames /\ f = Hit(as, hit)[i].frames[v]
        BY <2>2, <4>1
      <4> QED BY <1>4, <4>1, <4>2, InOwned
    <3> QED BY <3>1
  <2>4. PICK n \in DOMAIN bs : g[n] = i
    BY <2>3 DEF Selects
  <2>5. bs[n] = as[i]
    BY <2>4 DEF Selects
  <2>6. v \in DOMAIN bs[n].frames /\ f = bs[n].frames[v]
    BY <2>2, <2>5
  <2> QED BY <2>6, InOwned
<1> QED BY <1>2, <1>3, <1>4

\* The areas that retain keeps have one page per frame.
LEMMA SelectedInjective ==
    ASSUME NEW as, NEW bs, NEW K, NEW g, Selects(bs, as, K, g), Injective(as)
    PROVE  Injective(bs)
<1>1. SUFFICES ASSUME NEW m \in DOMAIN bs, NEW n \in DOMAIN bs,
                      NEW v \in DOMAIN bs[m].frames, NEW w \in DOMAIN bs[n].frames,
                      bs[m].frames[v] = bs[n].frames[w]
               PROVE  m = n /\ v = w
  BY DEF Injective
<1>2. /\ g[m] \in DOMAIN as /\ g[n] \in DOMAIN as
      /\ v \in DOMAIN as[g[m]].frames /\ w \in DOMAIN as[g[n]].frames
      /\ as[g[m]].frames[v] = as[g[n]].frames[w]
  BY <1>1 DEF Selects
<1>3. g[m] = g[n]
  <2>1. PICK i, j : i = g[m] /\ j = g[n]
    OBVIOUS
  <2>2. /\ i \in DOMAIN as /\ j \in DOMAIN as
        /\ v \in DOMAIN as[i].frames /\ w \in DOMAIN as[j].frames
        /\ as[i].frames[v] = as[j].frames[w]
    BY <1>2, <2>1
  <2>3. i = j
    BY <2>2, InjectiveAt
  <2> QED BY <2>1, <2>3
<1>4. v = w
  BY <1>2, <1>3, InjectivePage
<1> QED BY <1>3, <1>4 DEF Selects

\* unmap_one for the pages of the areas that go keeps the table in step.
LEMMA SelectedMatches ==
    ASSUME NEW as, NEW bs \in Seq(Area), NEW hit \in SUBSET DOMAIN as, NEW g,
           Selects(bs, as, DOMAIN as \ hit, g), Injective(as), NEW t, Matches(as, t),
           NEW u, u = Without(t, Pages(Hit(as, hit)))
    PROVE  Matches(bs, u)
<1>1. DOMAIN t = Pages(as) /\ Disjoint(as)
  BY MatchedDisjoint DEF Matches
<1>2. /\ DOMAIN u = Pages(as) \ Pages(Hit(as, hit)) /\ \A v \in DOMAIN u : u[v] = t[v]
      /\ IsTable(u)
  BY <1>1 DEF Without, IsTable
<1>3. DOMAIN u = Pages(bs)
  BY <1>1, <1>2, SelectedPages
<1>4. ASSUME NEW n \in DOMAIN bs, NEW v \in DOMAIN bs[n].frames
      PROVE  u[v] = [ppn |-> bs[n].frames[v], perm |-> bs[n].perm]
  <2>1. g[n] \in DOMAIN as /\ bs[n] = as[g[n]]
    BY DEF Selects
  <2>2. v \in DOMAIN as[g[n]].frames
    BY <2>1
  <2>3. t[v] = [ppn |-> as[g[n]].frames[v], perm |-> as[g[n]].perm]
    BY <2>1, <2>2 DEF Matches
  <2>4. v \in DOMAIN u
    BY <1>3, InPages
  <2> QED BY <1>2, <2>1, <2>3, <2>4
<1> QED BY <1>2, <1>3, <1>4, MatchesIfEqual

\* big is small with the pages V added to the area at index i, on the frames fr.
Widens(big, small, i, V, fr) ==
    /\ i \in DOMAIN small /\ DOMAIN big = DOMAIN small
    /\ \A j \in DOMAIN small : j # i => big[j] = small[j]
    /\ big[i].perm = small[i].perm
    /\ DOMAIN big[i].frames = DOMAIN small[i].frames \cup V
    /\ V \cap DOMAIN small[i].frames = {}
    /\ \A v \in DOMAIN small[i].frames : big[i].frames[v] = small[i].frames[v]
    /\ \A v \in V : big[i].frames[v] = fr[v]

\* The frames behind the pages V.
Taken(fr, V) == {fr[v] : v \in V}

\* The narrow vector is part of the wide one.
LEMMA WidensKeeps ==
    ASSUME NEW big, NEW small, NEW i, NEW V, NEW fr, Widens(big, small, i, V, fr),
           NEW j \in DOMAIN small, NEW v \in DOMAIN small[j].frames
    PROVE  /\ j \in DOMAIN big /\ v \in DOMAIN big[j].frames
           /\ big[j].frames[v] = small[j].frames[v] /\ big[j].perm = small[j].perm
           /\ ~ (j = i /\ v \in V)
<1>1. CASE j = i
  BY <1>1 DEF Widens
<1>2. CASE j # i
  BY <1>2 DEF Widens
<1> QED BY <1>1, <1>2

\* A page of the wide vector is one of the narrow vector or one of V.
LEMMA WidensAdds ==
    ASSUME NEW big, NEW small, NEW i, NEW V, NEW fr, Widens(big, small, i, V, fr),
           NEW j \in DOMAIN big, NEW v \in DOMAIN big[j].frames
    PROVE  /\ j \in DOMAIN small /\ big[j].perm = small[j].perm
           /\ \/ v \in DOMAIN small[j].frames /\ big[j].frames[v] = small[j].frames[v]
              \/ j = i /\ v \in V /\ big[j].frames[v] = fr[v]
<1>1. CASE j = i
  BY <1>1 DEF Widens
<1>2. CASE j # i
  BY <1>2 DEF Widens
<1> QED BY <1>1, <1>2

\* The pages V are pages of the wide vector, on the frames fr.
LEMMA WidensNew ==
    ASSUME NEW big, NEW small, NEW i, NEW V, NEW fr, Widens(big, small, i, V, fr),
           NEW v \in V
    PROVE  i \in DOMAIN big /\ v \in DOMAIN big[i].frames /\ big[i].frames[v] = fr[v]
BY DEF Widens

\* The pages of the wide vector are those of the narrow one and V.
LEMMA WidenedPages ==
    ASSUME NEW big, NEW small, NEW i, NEW V, NEW fr, Widens(big, small, i, V, fr)
    PROVE  Pages(big) = Pages(small) \cup V
<1>1. ASSUME NEW v \in Pages(big) PROVE v \in Pages(small) \cup V
  <2>1. PICK j \in DOMAIN big : v \in DOMAIN big[j].frames
    BY InPages
  <2>2. j \in DOMAIN small /\ (v \in DOMAIN small[j].frames \/ v \in V)
    BY <2>1, WidensAdds
  <2> QED BY <2>2, InPages
<1>2. ASSUME NEW v \in Pages(small) PROVE v \in Pages(big)
  <2>1. PICK j \in DOMAIN small : v \in DOMAIN small[j].frames
    BY InPages
  <2>2. j \in DOMAIN big /\ v \in DOMAIN big[j].frames
    BY <2>1, WidensKeeps
  <2> QED BY <2>2, InPages
<1>3. ASSUME NEW v \in V PROVE v \in Pages(big)
  <2>1. i \in DOMAIN big /\ v \in DOMAIN big[i].frames
    BY WidensNew
  <2> QED BY <2>1, InPages
<1> QED BY <1>1, <1>2, <1>3

\* The frames of the wide vector are those of the narrow one and those of V.
LEMMA WidenedOwned ==
    ASSUME NEW big, NEW small, NEW i, NEW V, NEW fr, Widens(big, small, i, V, fr)
    PROVE  Owned(big) = Owned(small) \cup Taken(fr, V)
<1>1. ASSUME NEW f \in Owned(big) PROVE f \in Owned(small) \cup {fr[v] : v \in V}
  <2>1. PICK j \in DOMAIN big : \E v \in DOMAIN big[j].frames : f = big[j].frames[v]
    BY OwnedBy
  <2>2. PICK v \in DOMAIN big[j].frames : f = big[j].frames[v]
    BY <2>1
  <2>3. j \in DOMAIN small /\ \/ v \in DOMAIN small[j].frames /\ big[j].frames[v] = small[j].frames[v]
                              \/ v \in V /\ big[j].frames[v] = fr[v]
    BY WidensAdds
  <2>4. CASE v \in DOMAIN small[j].frames /\ big[j].frames[v] = small[j].frames[v]
    <3>1. small[j].frames[v] \in Owned(small)
      BY <2>3, <2>4, InOwned
    <3> QED BY <2>2, <2>4, <3>1
  <2>5. CASE v \in V /\ big[j].frames[v] = fr[v]
    <3>1. f = fr[v]
      BY <2>2, <2>5
    <3> QED BY <2>5, <3>1, Zenon
  <2> QED BY <2>3, <2>4, <2>5
<1>2. ASSUME NEW f \in Owned(small) PROVE f \in Owned(big)
  <2>1. PICK j \in DOMAIN small : \E v \in DOMAIN small[j].frames : f = small[j].frames[v]
    BY OwnedBy
  <2>2. PICK v \in DOMAIN small[j].frames : f = small[j].frames[v]
    BY <2>1
  <2>3. j \in DOMAIN big /\ v \in DOMAIN big[j].frames /\ big[j].frames[v] = small[j].frames[v]
    BY WidensKeeps
  <2>4. big[j].frames[v] \in Owned(big)
    BY <2>3, InOwned
  <2> QED BY <2>2, <2>3, <2>4
<1>3. ASSUME NEW v \in V PROVE fr[v] \in Owned(big)
  <2>1. i \in DOMAIN big /\ v \in DOMAIN big[i].frames /\ big[i].frames[v] = fr[v]
    BY WidensNew
  <2>2. big[i].frames[v] \in Owned(big)
    BY <2>1, InOwned
  <2> QED BY <2>1, <2>2
<1> QED BY <1>1, <1>2, <1>3 DEF Taken

\* The narrow vector inherits that frames back one page each, and none of
\* its frames is one of those the wider area had more.
LEMMA NarrowedInjective ==
    ASSUME NEW big, NEW small, NEW i, NEW V, NEW fr, Widens(big, small, i, V, fr), Injective(big)
    PROVE  Injective(small) /\ Owned(small) \cap Taken(fr, V) = {}
<1>1. Injective(small)
  <2>1. SUFFICES ASSUME NEW j \in DOMAIN small, NEW k \in DOMAIN small,
                        NEW v \in DOMAIN small[j].frames, NEW w \in DOMAIN small[k].frames,
                        small[j].frames[v] = small[k].frames[w]
                 PROVE  j = k /\ v = w
    BY DEF Injective
  <2>2. j \in DOMAIN big /\ v \in DOMAIN big[j].frames /\ big[j].frames[v] = small[j].frames[v]
    BY WidensKeeps
  <2>3. k \in DOMAIN big /\ w \in DOMAIN big[k].frames /\ big[k].frames[w] = small[k].frames[w]
    BY WidensKeeps
  <2>4. big[j].frames[v] = big[k].frames[w]
    BY <2>1, <2>2, <2>3
  <2>5. j = k
    BY <2>2, <2>3, <2>4, InjectiveAt
  <2>6. v = w
    BY <2>2, <2>3, <2>4, <2>5, InjectivePage
  <2> QED BY <2>5, <2>6
<1>2. ASSUME NEW f \in Owned(small), NEW w \in V, f = fr[w] PROVE FALSE
  <2>1. PICK j \in DOMAIN small : \E v \in DOMAIN small[j].frames : f = small[j].frames[v]
    BY OwnedBy
  <2>2. PICK v \in DOMAIN small[j].frames : f = small[j].frames[v]
    BY <2>1
  <2>3. /\ j \in DOMAIN big /\ v \in DOMAIN big[j].frames /\ big[j].frames[v] = small[j].frames[v]
        /\ ~ (j = i /\ v \in V)
    BY WidensKeeps
  <2>4. i \in DOMAIN big /\ w \in DOMAIN big[i].frames /\ big[i].frames[w] = fr[w]
    BY WidensNew
  <2>5. big[j].frames[v] = big[i].frames[w]
    BY <1>2, <2>2, <2>3, <2>4
  <2>6. j = i
    BY <2>3, <2>4, <2>5, InjectiveAt
  <2>7. v = w
    BY <2>3, <2>4, <2>5, <2>6, InjectivePage
  <2> QED BY <2>3, <2>6, <2>7
<1> QED BY <1>1, <1>2 DEF Taken

\* The wide vector keeps one page per frame when the frames added are new.
LEMMA WidenedInjective ==
    ASSUME NEW big, NEW small, NEW i, NEW V, NEW fr, Widens(big, small, i, V, fr), Injective(small),
           \A v, w \in V : fr[v] = fr[w] => v = w, \A v \in V : fr[v] \notin Owned(small)
    PROVE  Injective(big)
<1>1. SUFFICES ASSUME NEW j \in DOMAIN big, NEW k \in DOMAIN big,
                      NEW v \in DOMAIN big[j].frames, NEW w \in DOMAIN big[k].frames,
                      big[j].frames[v] = big[k].frames[w]
               PROVE  j = k /\ v = w
  BY DEF Injective
<1>2. j \in DOMAIN small /\ \/ v \in DOMAIN small[j].frames /\ big[j].frames[v] = small[j].frames[v]
                            \/ j = i /\ v \in V /\ big[j].frames[v] = fr[v]
  BY WidensAdds
<1>3. k \in DOMAIN small /\ \/ w \in DOMAIN small[k].frames /\ big[k].frames[w] = small[k].frames[w]
                            \/ k = i /\ w \in V /\ big[k].frames[w] = fr[w]
  BY WidensAdds
<1>4. CASE v \in DOMAIN small[j].frames /\ big[j].frames[v] = small[j].frames[v]
  <2>1. small[j].frames[v] \in Owned(small)
    BY <1>2, <1>4, InOwned
  <2>2. w \in DOMAIN small[k].frames /\ big[k].frames[w] = small[k].frames[w]
    BY <1>1, <1>3, <1>4, <2>1
  <2>3. small[j].frames[v] = small[k].frames[w]
    BY <1>1, <1>4, <2>2
  <2>4. j = k
    BY <1>2, <1>3, <1>4, <2>2, <2>3, InjectiveAt
  <2>5. v = w
    BY <1>2, <1>4, <2>2, <2>3, <2>4, InjectivePage
  <2> QED BY <2>4, <2>5
<1>5. CASE j = i /\ v \in V /\ big[j].frames[v] = fr[v]
  <2>1. ~ (w \in DOMAIN small[k].frames /\ big[k].frames[w] = small[k].frames[w])
    <3>1. ASSUME w \in DOMAIN small[k].frames, big[k].frames[w] = small[k].frames[w] PROVE FALSE
      <4>1. small[k].frames[w] \in Owned(small)
        BY <1>3, <3>1, InOwned
      <4> QED BY <1>1, <1>5, <3>1, <4>1
    <3> QED BY <3>1
  <2>2. k = i /\ w \in V /\ fr[v] = fr[w]
    BY <1>1, <1>3, <1>5, <2>1
  <2> QED BY <1>5, <2>2
<1> QED BY <1>2, <1>4, <1>5

\* shrink_to: unmap_one for the pages given up keeps the table in step.
LEMMA NarrowedMatches ==
    ASSUME NEW big, NEW small \in Seq(Area), NEW i, NEW V, NEW fr, Widens(big, small, i, V, fr),
           Injective(big), NEW t, Matches(big, t), NEW u, u = Without(t, V)
    PROVE  Matches(small, u)
<1>1. DOMAIN t = Pages(big) /\ Disjoint(big)
  BY MatchedDisjoint DEF Matches
<1>2. DOMAIN u = Pages(big) \ V /\ \A v \in DOMAIN u : u[v] = t[v]
  BY <1>1 DEF Without
<1>3. IsTable(u)
  BY <1>1 DEF Without, IsTable
<1>4. ASSUME NEW v \in V PROVE v \notin Pages(small)
  <2>1. ASSUME v \in Pages(small) PROVE FALSE
    <3>1. PICK j \in DOMAIN small : v \in DOMAIN small[j].frames
      BY <2>1, InPages
    <3>2. j \in DOMAIN big /\ v \in DOMAIN big[j].frames /\ ~ (j = i /\ v \in V)
      BY <3>1, WidensKeeps
    <3>3. i \in DOMAIN big /\ v \in DOMAIN big[i].frames
      BY WidensNew
    <3>4. j = i
      BY <1>1, <3>2, <3>3 DEF Disjoint
    <3> QED BY <3>2, <3>4
  <2> QED BY <2>1
<1>5. DOMAIN u = Pages(small)
  <2>1. Pages(big) = Pages(small) \cup V
    BY WidenedPages
  <2> QED BY <1>2, <1>4, <2>1
<1>6. ASSUME NEW j \in DOMAIN small, NEW v \in DOMAIN small[j].frames
      PROVE  u[v] = [ppn |-> small[j].frames[v], perm |-> small[j].perm]
  <2>1. /\ j \in DOMAIN big /\ v \in DOMAIN big[j].frames
        /\ big[j].frames[v] = small[j].frames[v] /\ big[j].perm = small[j].perm
    BY WidensKeeps
  <2>2. t[v] = [ppn |-> big[j].frames[v], perm |-> big[j].perm]
    BY <2>1 DEF Matches
  <2>3. v \in DOMAIN u
    BY <1>5, InPages
  <2> QED BY <1>2, <2>1, <2>2, <2>3
<1> QED BY <1>3, <1>5, <1>6, MatchesIfEqual

\* append_to: map_one for the pages gained keeps the table in step.
LEMMA WidenedMatches ==
    ASSUME NEW small, NEW big \in Seq(Area), NEW i, NEW V, NEW fr, Widens(big, small, i, V, fr),
           NEW t, Matches(small, t), V \cap Pages(small) = {}, Injective(small),
           NEW u, u = Merge(t, TableOf(<<big[i]>>))
    PROVE  Matches(big, u)
<1>1. DOMAIN t = Pages(small) /\ Disjoint(small)
  BY MatchedDisjoint DEF Matches
<1>2. i \in DOMAIN big /\ i \in DOMAIN small /\ DOMAIN big[i].frames = DOMAIN small[i].frames \cup V
  BY DEF Widens
<1>3. DOMAIN u = Pages(small) \cup DOMAIN big[i].frames
  BY <1>1, OneArea DEF Merge
<1>4. IsTable(u)
  BY <1>1 DEF Merge, IsTable
<1>5. /\ \A v \in DOMAIN big[i].frames : u[v] = [ppn |-> big[i].frames[v], perm |-> big[i].perm]
      /\ \A v \in Pages(small) : v \notin DOMAIN big[i].frames => u[v] = t[v]
  BY <1>1, OneArea DEF Merge
<1>6. DOMAIN u = Pages(big)
  <2>1. Pages(big) = Pages(small) \cup V
    BY WidenedPages
  <2>2. ASSUME NEW v \in DOMAIN small[i].frames PROVE v \in Pages(small)
    BY <1>2, InPages
  <2> QED BY <1>2, <1>3, <2>1, <2>2
<1>7. ASSUME NEW j \in DOMAIN big, NEW v \in DOMAIN big[j].frames
      PROVE  u[v] = [ppn |-> big[j].frames[v], perm |-> big[j].perm]
  <2>1. CASE j = i
    BY <1>5, <2>1
  <2>2. CASE j # i
    <3>1. /\ j \in DOMAIN small /\ v \in DOMAIN small[j].frames
          /\ big[j].frames[v] = small[j].frames[v] /\ big[j].perm = small[j].perm
      BY <2>2, WidensAdds
    <3>2. v \in Pages(small)
      BY <3>1, InPages
    <3>3. v \notin DOMAIN small[i].frames
      BY <1>1, <1>2, <2>2, <3>1 DEF Disjoint
    <3>4. v \notin DOMAIN big[i].frames
      BY <1>2, <3>2, <3>3
    <3>5. t[v] = [ppn |-> small[j].frames[v], perm |-> small[j].perm]
      BY <3>1 DEF Matches
    <3> QED BY <1>5, <3>1, <3>2, <3>4, <3>5
  <2> QED BY <2>1, <2>2
<1> QED BY <1>4, <1>6, <1>7, MatchesIfEqual

\* Assigning to a member of a vector.
SetAt(s, i, e) == [s EXCEPT ![i] = e]

Replaced(r, s, i, e) == /\ DOMAIN r = DOMAIN s /\ r[i] = e
                        /\ \A j \in DOMAIN s : j # i => r[j] = s[j]

\* Replacing one entry of a vector.
LEMMA SetAtIndex ==
    ASSUME NEW S, NEW s \in Seq(S), NEW i \in DOMAIN s, NEW e \in S
    PROVE  SetAt(s, i, e) \in Seq(S) /\ Replaced(SetAt(s, i, e), s, i, e)
<1>1. DOMAIN s = 1 .. Len(s)
  BY VecMembers
<1>2. i \in 1 .. Len(s)
  BY <1>1
<1>3. SetAt(s, i, e) \in Seq(S)
  BY <1>2, ExceptSeq DEF SetAt
<1> QED BY <1>3 DEF SetAt, Replaced

\* The area at i has a new end, and is otherwise the one it was.
Moved(bs, as, i, e) ==
    bs[i].start = as[i].start /\ bs[i].end = e /\ bs[i].perm = as[i].perm

\* The area that shrink_to leaves, inside the one it found.
LEMMA ShrunkArea ==
    ASSUME NEW as \in Seq(Area), NEW i \in DOMAIN as, NEW e \in Nat, NEW b, NEW bs
    PROVE  /\ as[i].start <= e /\ e <= as[i].end
           /\ b = MapArea(as[i].start, e, as[i].perm, as[i].frames) /\ bs = SetAt(as, i, b)
           => /\ bs \in Seq(Area) /\ bs[i] = b /\ Moved(bs, as, i, e)
              /\ Widens(as, bs, i, VPNRange(e, as[i].end), as[i].frames)
<1>0. SUFFICES ASSUME as[i].start <= e, e <= as[i].end,
                      b = MapArea(as[i].start, e, as[i].perm, as[i].frames), bs = SetAt(as, i, b)
               PROVE  /\ bs \in Seq(Area) /\ bs[i] = b /\ Moved(bs, as, i, e)
                      /\ Widens(as, bs, i, VPNRange(e, as[i].end), as[i].frames)
  OBVIOUS
<1>1. as[i] \in Area
  BY VecMembers
<1>2. PICK a : a = as[i]
  OBVIOUS
<1>3. /\ a \in Area /\ a.start \in Nat /\ a.end \in Nat /\ a.end <= Trampoline /\ a.perm \in Perms
      /\ DOMAIN a.frames = VPNRange(a.start, a.end) /\ a.frames \in [VPNRange(a.start, a.end) -> Frames]
      /\ a.start <= e /\ e <= a.end
  BY <1>0, <1>1, <1>2, AreaFields
<1>4. /\ VPNRange(a.start, a.end) = VPNRange(a.start, e) \cup VPNRange(e, a.end)
      /\ VPNRange(e, a.end) \cap VPNRange(a.start, e) = {}
  BY <1>3 DEF VPNRange
<1>5. e <= Trampoline
  BY <1>0, <1>3, Layout DEF Trampoline
<1>6. \A v \in VPNRange(a.start, e) : a.frames[v] \in Frames
  BY <1>0, <1>3, <1>4
<1>7. /\ b \in Area /\ b.start = a.start /\ b.end = e /\ b.perm = a.perm
      /\ DOMAIN b.frames = VPNRange(a.start, e)
      /\ \A v \in VPNRange(a.start, e) : b.frames[v] = a.frames[v]
  <2>1. b = MapArea(a.start, e, a.perm, a.frames)
    BY <1>0, <1>2, Zenon
  <2> QED BY <1>3, <1>5, <1>6, <2>1, MapAreaIsArea
<1>8. /\ bs \in Seq(Area) /\ DOMAIN bs = DOMAIN as /\ bs[i] = b
      /\ \A j \in DOMAIN as : j # i => bs[j] = as[j]
  <2>0. bs = SetAt(as, i, b)
    BY <1>0
  <2>1. b \in Area
    BY <1>7
  <2>2. bs \in Seq(Area) /\ Replaced(bs, as, i, b)
    BY <2>0, <2>1, SetAtIndex
  <2> QED BY <2>2 DEF Replaced
<1>9. Widens(as, bs, i, VPNRange(e, a.end), a.frames)
  BY <1>2, <1>3, <1>4, <1>7, <1>8 DEF Widens
<1>10. Moved(bs, as, i, e)
  BY <1>2, <1>7, <1>8 DEF Moved
<1> QED BY <1>2, <1>8, <1>9, <1>10

\* The area at i grown to page e on the frames fr.
Grows(bs, as, i, e, fr) ==
    /\ as[i].end <= e /\ e <= Trampoline /\ fr \in [VPNRange(as[i].end, e) -> Frames]
    /\ bs = SetAt(as, i, MapArea(as[i].start, e, as[i].perm, Merge(as[i].frames, fr)))

\* The area that append_to leaves, around the one it found.
LEMMA GrownArea ==
    ASSUME NEW as \in Seq(Area), NEW i \in DOMAIN as, NEW e \in Nat, NEW fr, NEW bs, NEW V
    PROVE  Grows(bs, as, i, e, fr) /\ V = VPNRange(as[i].end, e)
           => bs \in Seq(Area) /\ Moved(bs, as, i, e) /\ Widens(bs, as, i, V, fr)
<1>14. SUFFICES ASSUME Grows(bs, as, i, e, fr), V = VPNRange(as[i].end, e)
                PROVE  bs \in Seq(Area) /\ Moved(bs, as, i, e) /\ Widens(bs, as, i, V, fr)
  OBVIOUS
<1>15. PICK b : b = MapArea(as[i].start, e, as[i].perm, Merge(as[i].frames, fr))
  OBVIOUS
<1>0. /\ as[i].end <= e /\ e <= Trampoline /\ fr \in [VPNRange(as[i].end, e) -> Frames]
      /\ b = MapArea(as[i].start, e, as[i].perm, Merge(as[i].frames, fr)) /\ bs = SetAt(as, i, b)
  BY <1>14, <1>15 DEF Grows
<1>1. as[i] \in Area
  BY VecMembers
<1>2. PICK a : a = as[i]
  OBVIOUS
<1>3. /\ a \in Area /\ a.start \in Nat /\ a.end \in Nat /\ a.start <= a.end /\ a.perm \in Perms
      /\ DOMAIN a.frames = VPNRange(a.start, a.end) /\ a.frames \in [VPNRange(a.start, a.end) -> Frames]
      /\ a.end <= e
  BY <1>0, <1>1, <1>2, AreaFields
<1>4. /\ VPNRange(a.start, e) = VPNRange(a.start, a.end) \cup VPNRange(a.end, e)
      /\ VPNRange(a.end, e) \cap VPNRange(a.start, a.end) = {}
  BY <1>3 DEF VPNRange
<1>5. PICK m : m = Merge(a.frames, fr)
  OBVIOUS
<1>6. DOMAIN fr = VPNRange(a.end, e) /\ \A v \in VPNRange(a.end, e) : fr[v] \in Frames
  BY <1>0, <1>2
<1>7. /\ \A v \in VPNRange(a.start, a.end) : m[v] = a.frames[v]
      /\ \A v \in VPNRange(a.end, e) : m[v] = fr[v]
  BY <1>3, <1>4, <1>5, <1>6 DEF Merge
<1>8. \A v \in VPNRange(a.start, e) : m[v] \in Frames
  BY <1>3, <1>4, <1>6, <1>7
<1>9. a.start <= e /\ b = MapArea(a.start, e, a.perm, m)
  <2>1. b = MapArea(a.start, e, a.perm, m)
    BY <1>0, <1>2, <1>5, Zenon
  <2>2. a.start <= e
    BY <1>3
  <2> QED BY <2>1, <2>2
<1>10. /\ b \in Area /\ b.start = a.start /\ b.end = e /\ b.perm = a.perm
       /\ DOMAIN b.frames = VPNRange(a.start, e)
       /\ \A v \in VPNRange(a.start, e) : b.frames[v] = m[v]
  BY <1>0, <1>3, <1>8, <1>9, MapAreaIsArea
<1>11. /\ bs \in Seq(Area) /\ DOMAIN bs = DOMAIN as /\ bs[i] = b
       /\ \A j \in DOMAIN as : j # i => bs[j] = as[j]
  <2>0. bs = SetAt(as, i, b)
    BY <1>0
  <2>1. b \in Area
    BY <1>10
  <2>2. bs \in Seq(Area) /\ Replaced(bs, as, i, b)
    BY <2>0, <2>1, SetAtIndex
  <2> QED BY <2>2 DEF Replaced
<1>12. Widens(bs, as, i, VPNRange(a.end, e), fr)
  BY <1>2, <1>3, <1>4, <1>7, <1>10, <1>11 DEF Widens
<1>13. Moved(bs, as, i, e)
  BY <1>2, <1>10, <1>11 DEF Moved
<1>16. V = VPNRange(a.end, e)
  BY <1>2, <1>14
<1> QED BY <1>11, <1>12, <1>13, <1>16

\* Every page of the areas lies on the frame that one allocation gave it.
Placed(as, fr) == \A i \in DOMAIN as : \A v \in DOMAIN as[i].frames : as[i].frames[v] = fr[v]

\* Areas that do not overlap, placed by one allocation, keep a frame each.
LEMMA PlacedAreas ==
    ASSUME NEW as \in Seq(Area), Disjoint(as), NEW fr, Placed(as, fr), NEW F, NEW V,
           Pages(as) \subseteq V, fr \in [V -> F], \A v, w \in V : fr[v] = fr[w] => v = w
    PROVE  Injective(as) /\ Owned(as) \subseteq F
<1>1. ASSUME NEW i \in DOMAIN as, NEW v \in DOMAIN as[i].frames
      PROVE  v \in V /\ as[i].frames[v] = fr[v]
  <2>1. v \in Pages(as)
    BY InPages
  <2>2. as[i].frames[v] = fr[v]
    BY DEF Placed
  <2> QED BY <2>1, <2>2
<1>2. Injective(as)
  <2>1. SUFFICES ASSUME NEW i \in DOMAIN as, NEW j \in DOMAIN as,
                        NEW v \in DOMAIN as[i].frames, NEW w \in DOMAIN as[j].frames,
                        as[i].frames[v] = as[j].frames[w]
                 PROVE  i = j /\ v = w
    BY DEF Injective
  <2>2. v \in V /\ as[i].frames[v] = fr[v]
    BY <1>1
  <2>3. w \in V /\ as[j].frames[w] = fr[w]
    BY <1>1
  <2>4. fr[v] = fr[w]
    BY <2>1, <2>2, <2>3
  <2>5. v = w
    BY <2>2, <2>3, <2>4
  <2>6. i = j
    BY <2>5 DEF Disjoint
  <2> QED BY <2>5, <2>6
<1>3. ASSUME NEW f \in Owned(as) PROVE f \in F
  <2>1. PICK i \in DOMAIN as : \E v \in DOMAIN as[i].frames : f = as[i].frames[v]
    BY OwnedBy
  <2>2. PICK v \in DOMAIN as[i].frames : f = as[i].frames[v]
    BY <2>1
  <2>3. v \in V /\ as[i].frames[v] = fr[v]
    BY <1>1
  <2>4. fr[v] \in F
    BY <2>3
  <2> QED BY <2>2, <2>3, <2>4
<1> QED BY <1>2, <1>3

\* cs has the areas of as, on the frames fr (MapArea::from_another).
Copies(cs, as, fr) ==
    /\ DOMAIN cs = DOMAIN as
    /\ \A i \in DOMAIN as :
         /\ cs[i].start = as[i].start /\ cs[i].end = as[i].end /\ cs[i].perm = as[i].perm
         /\ DOMAIN cs[i].frames = DOMAIN as[i].frames
         /\ \A v \in DOMAIN as[i].frames : cs[i].frames[v] = fr[v]

\* from_existed_user: the same ranges and permissions.
LEMMA CopiesAreas ==
    ASSUME NEW as \in Seq(Area), NEW fr, \A v \in Pages(as) : fr[v] \in Frames,
           NEW cs, cs = [i \in DOMAIN as |-> from_another(as[i], fr)]
    PROVE  cs \in Seq(Area) /\ Copies(cs, as, fr)
<1>1. DOMAIN as = 1 .. Len(as) /\ Len(as) \in Nat /\ \A i \in DOMAIN as : as[i] \in Area
  BY VecMembers
<1>2. ASSUME NEW i \in DOMAIN as
      PROVE  /\ from_another(as[i], fr) \in Area
             /\ from_another(as[i], fr).start = as[i].start
             /\ from_another(as[i], fr).end = as[i].end
             /\ from_another(as[i], fr).perm = as[i].perm
             /\ DOMAIN from_another(as[i], fr).frames = DOMAIN as[i].frames
             /\ \A v \in DOMAIN as[i].frames : from_another(as[i], fr).frames[v] = fr[v]
  <2>1. PICK a : a = as[i]
    OBVIOUS
  <2>2. /\ a.start \in Nat /\ a.end \in Nat /\ a.start <= a.end /\ a.end <= Trampoline
        /\ a.perm \in Perms /\ DOMAIN a.frames = VPNRange(a.start, a.end)
    BY <1>1, <2>1, AreaFields
  <2>3. ASSUME NEW v \in VPNRange(a.start, a.end) PROVE fr[v] \in Frames
    <3>1. v \in DOMAIN as[i].frames
      BY <2>1, <2>2
    <3>2. v \in Pages(as)
      BY <3>1, InPages
    <3> QED BY <3>2
  <2>4. PICK b : b = MapArea(a.start, a.end, a.perm, fr)
    OBVIOUS
  <2>5. /\ b \in Area /\ b.start = a.start /\ b.end = a.end /\ b.perm = a.perm
        /\ DOMAIN b.frames = VPNRange(a.start, a.end)
        /\ \A v \in VPNRange(a.start, a.end) : b.frames[v] = fr[v]
    BY <2>2, <2>3, <2>4, MapAreaIsArea
  <2>6. b = from_another(as[i], fr)
    BY <2>1, <2>4, Zenon DEF from_another
  <2>7. a.start = as[i].start /\ a.end = as[i].end /\ a.perm = as[i].perm /\ a.frames = as[i].frames
    BY <2>1
  <2> QED BY <2>2, <2>5, <2>6, <2>7
<1>3. DOMAIN cs = DOMAIN as /\ \A i \in DOMAIN as : cs[i] = from_another(as[i], fr)
  OBVIOUS
<1>4. cs \in Seq(Area)
  <2>1. cs \in [1 .. Len(as) -> Area]
    BY <1>1, <1>2
  <2>2. [1 .. Len(as) -> Area] \subseteq Seq(Area)
    BY <1>1, SeqDef
  <2> QED BY <2>1, <2>2
<1>5. Copies(cs, as, fr)
  BY <1>2, <1>3 DEF Copies
<1> QED BY <1>4, <1>5

\* A copy has the pages of the original, on the frames of the allocation.
LEMMA CopiesPages ==
    ASSUME NEW cs, NEW as, NEW fr, Copies(cs, as, fr)
    PROVE  /\ Pages(cs) = Pages(as) /\ Placed(cs, fr) /\ (Disjoint(as) => Disjoint(cs))
<1>1. ASSUME NEW v PROVE v \in Pages(cs) <=> v \in Pages(as)
  <2>1. v \in Pages(cs) <=> \E i \in DOMAIN cs : v \in DOMAIN cs[i].frames
    BY InPages
  <2>2. v \in Pages(as) <=> \E i \in DOMAIN as : v \in DOMAIN as[i].frames
    BY InPages
  <2> QED BY <2>1, <2>2 DEF Copies
<1>2. Placed(cs, fr)
  BY DEF Copies, Placed
<1>3. Disjoint(as) => Disjoint(cs)
  BY DEF Copies, Disjoint
<1> QED BY <1>1, <1>2, <1>3

\* as is laid out without overlap over the pages P, on the frames fr.
Laid(as, fr, P) == as \in Seq(Area) /\ Disjoint(as) /\ Placed(as, fr) /\ Pages(as) = P

\* A push of an area on new pages overlaps nothing.
LEMMA ExtendedDisjoint ==
    ASSUME NEW as, NEW bs, NEW n, NEW a, Extends(bs, as, n, a), Disjoint(as),
           DOMAIN a.frames \cap Pages(as) = {}
    PROVE  Disjoint(bs)
<1>1. SUFFICES ASSUME NEW i \in DOMAIN bs, NEW j \in DOMAIN bs,
                      NEW v \in DOMAIN bs[i].frames, v \in DOMAIN bs[j].frames
               PROVE  i = j
  BY DEF Disjoint
<1>2. ASSUME NEW k \in DOMAIN bs, v \in DOMAIN bs[k].frames
      PROVE  \/ k = n /\ v \notin Pages(as)
             \/ k \in DOMAIN as /\ v \in DOMAIN as[k].frames /\ v \in Pages(as)
  <2>1. CASE k = n
    BY <1>2, <2>1 DEF Extends
  <2>2. CASE k \in DOMAIN as
    <3>1. v \in DOMAIN as[k].frames
      BY <1>2, <2>2 DEF Extends
    <3> QED BY <2>2, <3>1, InPages
  <2> QED BY <2>1, <2>2 DEF Extends
<1>3. \/ i = n /\ v \notin Pages(as)
      \/ i \in DOMAIN as /\ v \in DOMAIN as[i].frames /\ v \in Pages(as)
  BY <1>2
<1>4. \/ j = n /\ v \notin Pages(as)
      \/ j \in DOMAIN as /\ v \in DOMAIN as[j].frames /\ v \in Pages(as)
  BY <1>1, <1>2
<1> QED BY <1>3, <1>4 DEF Disjoint

\* One more push of from_elf.
LEMMA LaidPush ==
    ASSUME NEW as, NEW fr, NEW P, NEW s \in Nat, NEW e \in Nat, NEW perm \in Perms,
           NEW a, a = MapArea(s, e, perm, fr)
    PROVE  /\ Laid(as, fr, P) /\ s <= e /\ e <= Trampoline
           /\ VPNRange(s, e) \cap P = {} /\ (\A v \in VPNRange(s, e) : fr[v] \in Frames)
           => /\ Laid(Append(as, a), fr, P \cup VPNRange(s, e))
              /\ a \in Area /\ a.start = s /\ a.end = e /\ a.perm = perm
<1>0. SUFFICES ASSUME Laid(as, fr, P), s <= e, e <= Trampoline,
                      VPNRange(s, e) \cap P = {}, \A v \in VPNRange(s, e) : fr[v] \in Frames
               PROVE  /\ Laid(Append(as, a), fr, P \cup VPNRange(s, e))
                      /\ a \in Area /\ a.start = s /\ a.end = e /\ a.perm = perm
  OBVIOUS
<1>1. as \in Seq(Area) /\ Disjoint(as) /\ Placed(as, fr) /\ Pages(as) = P
  BY <1>0 DEF Laid
<1>2. /\ a \in Area /\ a.start = s /\ a.end = e /\ a.perm = perm
      /\ DOMAIN a.frames = VPNRange(s, e) /\ \A v \in VPNRange(s, e) : a.frames[v] = fr[v]
  BY <1>0, MapAreaIsArea
<1>3. PICK bs : bs = Append(as, a)
  OBVIOUS
<1>4. PICK n : n = Len(as) + 1
  OBVIOUS
<1>5. bs \in Seq(Area) /\ Extends(bs, as, n, a)
  BY <1>1, <1>2, <1>3, <1>4, AppendExtends
<1>6. DOMAIN a.frames \cap Pages(as) = {}
  BY <1>0, <1>1, <1>2
<1>7. Disjoint(bs)
  BY <1>1, <1>5, <1>6, ExtendedDisjoint
<1>8. Pages(bs) = P \cup VPNRange(s, e)
  <2>1. Pages(bs) = Pages(as) \cup DOMAIN a.frames
    BY <1>5, ExtendedPages
  <2> QED BY <1>1, <1>2, <2>1
<1>9. Placed(bs, fr)
  <2>1. ASSUME NEW i \in DOMAIN bs, NEW v \in DOMAIN bs[i].frames PROVE bs[i].frames[v] = fr[v]
    <3>1. CASE i = n
      BY <1>2, <1>5, <3>1 DEF Extends
    <3>2. CASE i \in DOMAIN as
      BY <1>1, <1>5, <3>2 DEF Placed, Extends
    <3> QED BY <1>5, <3>1, <3>2 DEF Extends
  <2> QED BY <2>1 DEF Placed
<1> QED BY <1>2, <1>3, <1>5, <1>7, <1>8, <1>9 DEF Laid

\* The first area that starts at s ends at e and is the user's to write: what
\* change_program_brk must find.
HeapAt(as, s, e) ==
    \E i \in DOMAIN as : /\ as[i].start = s /\ as[i].end = e /\ as[i].perm = {"U", "R", "W"}
                         /\ \A j \in DOMAIN as : as[j].start = s => i <= j
NoStart(as, s) == \A i \in DOMAIN as : as[i].start # s

\* A push neither hides the heap nor makes one unless it is one.
LEMMA HeapPush ==
    ASSUME NEW as \in Seq(Area), NEW a \in Area, NEW s, NEW e
    PROVE  /\ HeapAt(as, s, e) => HeapAt(Append(as, a), s, e)
           /\ NoStart(as, s) /\ a.start # s => NoStart(Append(as, a), s)
           /\ NoStart(as, s) /\ a.start = s /\ a.end = e /\ a.perm = {"U", "R", "W"}
              => HeapAt(Append(as, a), s, e)
<1>1. PICK bs : bs = Append(as, a)
  OBVIOUS
<1>2. PICK n : n = Len(as) + 1
  OBVIOUS
<1>3. bs \in Seq(Area) /\ Extends(bs, as, n, a)
  BY <1>1, <1>2, AppendExtends
<1>4. \A i \in DOMAIN as : i \in Int /\ i <= n /\ n \in Int
  <2>1. DOMAIN as = 1 .. Len(as) /\ Len(as) \in Nat
    BY VecMembers
  <2>2. ASSUME NEW i \in 1 .. Len(as) PROVE i \in Int /\ i <= Len(as) + 1
    <3>1. ASSUME NEW k \in Nat, NEW x \in 1 .. k PROVE x \in Int /\ x <= k + 1
      OBVIOUS
    <3> QED BY <2>1, <3>1, Zenon
  <2>3. Len(as) + 1 \in Int
    BY <2>1
  <2> QED BY <1>2, <2>1, <2>2, <2>3
<1>5. n \in Int
  BY <1>2, VecMembers
<1>6. ASSUME HeapAt(as, s, e) PROVE HeapAt(bs, s, e)
  <2>1. PICK i \in DOMAIN as :
           /\ as[i].start = s /\ as[i].end = e /\ as[i].perm = {"U", "R", "W"}
           /\ \A j \in DOMAIN as : as[j].start = s => i <= j
    BY <1>6 DEF HeapAt
  <2>2. i \in DOMAIN bs /\ bs[i].start = s /\ bs[i].end = e /\ bs[i].perm = {"U", "R", "W"}
    BY <1>3, <2>1 DEF Extends
  <2>3. ASSUME NEW j \in DOMAIN bs, bs[j].start = s PROVE i <= j
    <3>1. CASE j = n
      BY <1>4, <3>1
    <3>2. CASE j \in DOMAIN as
      BY <1>3, <2>1, <2>3, <3>2 DEF Extends
    <3> QED BY <1>3, <3>1, <3>2 DEF Extends
  <2> QED BY <2>2, <2>3 DEF HeapAt
<1>7. ASSUME NoStart(as, s), a.start # s PROVE NoStart(bs, s)
  BY <1>3, <1>7 DEF Extends, NoStart
<1>8. ASSUME NoStart(as, s), a.start = s, a.end = e, a.perm = {"U", "R", "W"} PROVE HeapAt(bs, s, e)
  <2>1. n \in DOMAIN bs /\ bs[n].start = s /\ bs[n].end = e /\ bs[n].perm = {"U", "R", "W"}
    BY <1>3, <1>8 DEF Extends
  <2>2. ASSUME NEW j \in DOMAIN bs, bs[j].start = s PROVE n <= j
    <3>1. j = n
      BY <1>3, <1>8, <2>2 DEF Extends, NoStart
    <3> QED BY <1>5, <3>1
  <2> QED BY <2>1, <2>2 DEF HeapAt
<1> QED BY <1>1, <1>6, <1>7, <1>8

\* MemorySet::from_elf lays the areas over ElfPages(app), and the heap it
\* leaves is empty and begins where the stack ends.
LEMMA ElfLaid ==
    ASSUME NEW app \in Apps, NEW F, NEW fr, fr = AllocFrames(ElfPages(app), F),
           \A v \in ElfPages(app) : fr[v] \in Frames
    PROVE  /\ Laid(from_elf(app, F), fr, ElfPages(app))
           /\ HeapAt(from_elf(app, F), app + 1 + StackPages, app + 1 + StackPages)
<1> DEFINE top == app + 1 + StackPages
           rw == {"U", "R", "W"}
           P1 == VPNRange(0, app)
           P2 == P1 \cup VPNRange(app + 1, top)
<1>1. /\ app \in Nat /\ 1 <= app /\ StackPages \in Nat /\ 1 <= StackPages /\ top \in Nat
      /\ Trampoline \in Nat /\ TrapContext \in Nat /\ TrapContext + 1 = Trampoline
      /\ top < TrapContext
  BY Layout DEF Trampoline, TrapContext
<1>2. floor(UserSp(app)) = top
  BY <1>1, PageNumbers DEF UserSp
<1>3. /\ rw \in Perms /\ {"U", "R", "X"} \in Perms /\ {"R", "W"} \in Perms
  BY DEF Perms
<1>4. /\ ElfPages(app) = P2 \cup VPNRange(TrapContext, Trampoline)
      /\ VPNRange(TrapContext, Trampoline) = {TrapContext}
      /\ VPNRange(top, top) = {} /\ P2 \cup VPNRange(top, top) = P2
      /\ VPNRange(app + 1, top) \cap P1 = {}
      /\ TrapContext \notin P2
  <2>1. VPNRange(TrapContext, Trampoline) = {TrapContext}
    BY <1>1 DEF VPNRange
  <2>2. VPNRange(top, top) = {}
    BY <1>1 DEF VPNRange
  <2>3. VPNRange(app + 1, top) \cap P1 = {}
    BY <1>1 DEF VPNRange
  <2>4. TrapContext \notin P1
    BY <1>1 DEF VPNRange
  <2>5. TrapContext \notin VPNRange(app + 1, top)
    BY <1>1 DEF VPNRange
  <2> QED BY <2>1, <2>2, <2>3, <2>4, <2>5 DEF ElfPages
<1>5. /\ \A v \in P1 : fr[v] \in Frames
      /\ \A v \in VPNRange(app + 1, top) : fr[v] \in Frames
      /\ \A v \in VPNRange(TrapContext, Trampoline) : fr[v] \in Frames
  BY <1>4
<1> HIDE DEF rw
<1>6. PICK a1, text : /\ a1 = MapArea(0, 1, {"U", "R", "X"}, fr) /\ text = <<a1>>
  OBVIOUS
<1>7. Laid(text, fr, VPNRange(0, 1)) /\ NoStart(text, top)
  <2>1. \A v \in VPNRange(0, 1) : fr[v] \in Frames
    BY <1>1, <1>5 DEF VPNRange
  <2>2. /\ a1 \in Area /\ a1.start = 0 /\ DOMAIN a1.frames = VPNRange(0, 1)
        /\ \A v \in VPNRange(0, 1) : a1.frames[v] = fr[v]
    BY <1>1, <1>3, <1>6, <2>1, MapAreaIsArea
  <2>3. text \in Seq(Area) /\ DOMAIN text = {1} /\ text[1] = a1
    BY <1>6, <2>2
  <2>4. Pages(text) = VPNRange(0, 1)
    BY <1>6, <2>2, OneArea
  <2>5. Disjoint(text)
    BY <2>3 DEF Disjoint
  <2>6. Placed(text, fr)
    BY <2>2, <2>3 DEF Placed
  <2>7. NoStart(text, top)
    BY <1>1, <2>2, <2>3 DEF NoStart
  <2> QED BY <2>3, <2>4, <2>5, <2>6, <2>7 DEF Laid
<1>8. PICK a2, image : /\ a2 = MapArea(1, app, rw, fr)
                       /\ image = IF app = 1 THEN text ELSE Append(text, a2)
  OBVIOUS
<1>9. Laid(image, fr, P1) /\ NoStart(image, top)
  <2>1. CASE app = 1
    BY <1>7, <1>8, <2>1
  <2>2. CASE app # 1
    <3>1. image = Append(text, a2)
      BY <1>8, <2>2
    <3>2. VPNRange(1, app) \cap VPNRange(0, 1) = {}
      BY <1>1 DEF VPNRange
    <3>3. VPNRange(0, 1) \cup VPNRange(1, app) = P1
      BY <1>1 DEF VPNRange
    <3>4. \A v \in VPNRange(1, app) : fr[v] \in Frames
      BY <1>5, <3>3
    <3>5. app <= Trampoline
      BY <1>1
    <3>6. Laid(image, fr, P1) /\ a2 \in Area /\ a2.start = 1
      <4> HIDE DEF P1
      <4>1. Laid(text, fr, VPNRange(0, 1)) /\ 1 \in Nat /\ app \in Nat /\ 1 <= app
        BY <1>1, <1>7
      <4>2. a2 = MapArea(1, app, rw, fr)
        BY <1>8
      <4>3. Laid(Append(text, a2), fr, VPNRange(0, 1) \cup VPNRange(1, app)) /\ a2 \in Area /\ a2.start = 1
        BY <1>3, <3>2, <3>4, <3>5, <4>1, <4>2, LaidPush
      <4> QED BY <3>1, <3>3, <4>3
    <3>7. text \in Seq(Area)
      BY <1>7 DEF Laid
    <3>8. 1 # top
      BY <1>1
    <3>9. NoStart(image, top)
      BY <1>7, <3>1, <3>6, <3>7, <3>8, HeapPush
    <3> QED BY <3>6, <3>9
  <2> QED BY <2>1, <2>2
<1>10. PICK a3, stack : /\ a3 = MapArea(app + 1, top, rw, fr) /\ stack = Append(image, a3)
  OBVIOUS
<1>11. Laid(stack, fr, P2) /\ NoStart(stack, top)
  <2>1. app + 1 \in Nat /\ app + 1 <= top /\ top <= Trampoline
    BY <1>1
  <2>2. Laid(stack, fr, P2) /\ a3 \in Area /\ a3.start = app + 1
    <3> HIDE DEF P1, top
    <3>1. Laid(image, fr, P1) /\ top \in Nat
      BY <1>1, <1>9
    <3>2. VPNRange(app + 1, top) \cap P1 = {} /\ \A v \in VPNRange(app + 1, top) : fr[v] \in Frames
      BY <1>4, <1>5
    <3>3. a3 = MapArea(app + 1, top, rw, fr)
      BY <1>10
    <3>4. Laid(Append(image, a3), fr, P1 \cup VPNRange(app + 1, top)) /\ a3 \in Area /\ a3.start = app + 1
      BY <1>3, <2>1, <3>1, <3>2, <3>3, LaidPush
    <3> QED BY <1>10, <3>4
  <2>3. image \in Seq(Area)
    BY <1>9 DEF Laid
  <2>4. app + 1 # top
    BY <1>1
  <2>5. NoStart(stack, top)
    BY <1>9, <1>10, <2>2, <2>3, <2>4, HeapPush
  <2> QED BY <2>2, <2>5
<1>12. PICK a4, heap : /\ a4 = MapArea(top, top, rw, fr) /\ heap = Append(stack, a4)
  OBVIOUS
<1>13. Laid(heap, fr, P2) /\ HeapAt(heap, top, top)
  <2>1. top <= Trampoline /\ VPNRange(top, top) \cap P2 = {}
        /\ \A v \in VPNRange(top, top) : fr[v] \in Frames
    BY <1>1, <1>4
  <2>2. /\ Laid(heap, fr, P2 \cup VPNRange(top, top))
        /\ a4 \in Area /\ a4.start = top /\ a4.end = top /\ a4.perm = rw
    <3> HIDE DEF P2, top
    <3>1. Laid(stack, fr, P2) /\ top \in Nat /\ top <= top /\ a4 = MapArea(top, top, rw, fr)
      BY <1>1, <1>11, <1>12
    <3>2. /\ Laid(Append(stack, a4), fr, P2 \cup VPNRange(top, top))
          /\ a4 \in Area /\ a4.start = top /\ a4.end = top /\ a4.perm = rw
      BY <1>3, <2>1, <3>1, LaidPush
    <3> QED BY <1>12, <3>2
  <2>3. stack \in Seq(Area)
    BY <1>11 DEF Laid
  <2>4. HeapAt(heap, top, top)
    BY <1>11, <1>12, <2>2, <2>3, HeapPush DEF rw
  <2> QED BY <1>4, <2>2, <2>4
<1>14. PICK a5, all : /\ a5 = MapArea(TrapContext, Trampoline, {"R", "W"}, fr)
                      /\ all = Append(heap, a5)
  OBVIOUS
<1>15. Laid(all, fr, ElfPages(app)) /\ HeapAt(all, top, top)
  <2>1. TrapContext <= Trampoline /\ Trampoline <= Trampoline
    BY <1>1
  <2>2. VPNRange(TrapContext, Trampoline) \cap P2 = {}
    BY <1>4
  <2>3. Laid(all, fr, ElfPages(app)) /\ a5 \in Area
    <3> HIDE DEF P2
    <3>1. /\ Laid(heap, fr, P2) /\ TrapContext \in Nat /\ Trampoline \in Nat
          /\ \A v \in VPNRange(TrapContext, Trampoline) : fr[v] \in Frames
      BY <1>1, <1>5, <1>13
    <3>2. a5 = MapArea(TrapContext, Trampoline, {"R", "W"}, fr)
      BY <1>14
    <3>3. Laid(Append(heap, a5), fr, P2 \cup VPNRange(TrapContext, Trampoline)) /\ a5 \in Area
      BY <1>3, <2>1, <2>2, <3>1, <3>2, LaidPush
    <3> QED BY <1>4, <1>14, <3>3
  <2>4. heap \in Seq(Area)
    BY <1>13 DEF Laid
  <2> QED BY <1>13, <1>14, <2>3, <2>4, HeapPush
<1>16. from_elf(app, F) = all
  BY <1>2, <1>6, <1>8, <1>10, <1>12, <1>14, Zenon DEF from_elf, rw
<1> QED BY <1>15, <1>16

\* i is the first area that starts at s.
FirstAt(as, s, i) == /\ i \in DOMAIN as /\ as[i].start = s
                     /\ \A j \in DOMAIN as : as[j].start = s => i <= j

\* A nonempty finite set of numbers has a least member.
LEMMA Least ==
    ASSUME NEW S \in SUBSET Int, IsFiniteSet(S), S # {}
    PROVE  \E x \in S : \A y \in S : x <= y
<1>1. /\ Cardinality(S) \in Nat /\ \A x \in S : Rank(S, x) \in 1 .. Cardinality(S)
      /\ \A x, y \in S : x < y => Rank(S, x) < Rank(S, y)
  BY RankCounts
<1>2. 1 \in 1 .. Cardinality(S)
  <2>1. PICK x \in S : TRUE
    OBVIOUS
  <2>2. Rank(S, x) \in 1 .. Cardinality(S)
    BY <1>1
  <2> QED BY <1>1, <2>2
<1>3. PICK x \in S : Rank(S, x) = 1
  BY <1>2, RankCounts
<1>4. ASSUME NEW y \in S PROVE x <= y
  <2>1. ~ (y < x)
    <3>1. ASSUME y < x PROVE FALSE
      <4>1. Rank(S, y) < 1 /\ Rank(S, y) \in 1 .. Cardinality(S)
        BY <1>1, <1>3, <3>1
      <4> QED BY <1>1, <4>1
    <3> QED BY <3>1
  <2>2. x \in Int /\ y \in Int
    OBVIOUS
  <2> QED BY <2>1, <2>2
<1> QED BY <1>4

\* The search of shrink_to and append_to finds the first such area.
LEMMA FindAreaFirst ==
    ASSUME NEW as \in Seq(Area), NEW s
    PROVE  /\ FindArea(as, s) # 0 => FirstAt(as, s, FindArea(as, s))
           /\ \A i : FirstAt(as, s, i) => FindArea(as, s) = i /\ FindArea(as, s) # 0
<1> DEFINE S == {i \in DOMAIN as : as[i].start = s}
<1>1. DOMAIN as = 1 .. Len(as) /\ Len(as) \in Nat
  BY VecMembers
<1>2. S \in SUBSET Int /\ IsFiniteSet(S) /\ 0 \notin S
  <2>1. IsFiniteSet(1 .. Len(as)) /\ (1 .. Len(as)) \subseteq Int
    <3>1. ASSUME NEW k \in Nat PROVE IsFiniteSet(1 .. k) /\ (1 .. k) \subseteq Int
      BY FS_Interval
    <3> QED BY <1>1, <3>1
  <2>2. S \in SUBSET (1 .. Len(as))
    BY <1>1
  <2>3. 0 \notin S
    <3>1. ASSUME NEW k \in Nat PROVE 0 \notin 1 .. k
      OBVIOUS
    <3>2. 0 \notin 1 .. Len(as)
      BY <1>1, <3>1
    <3> QED BY <2>2, <3>2
  <2> HIDE DEF S
  <2> QED BY <2>1, <2>2, <2>3, FS_Subset
<1>3. FindArea(as, s) = IF S = {} THEN 0 ELSE CHOOSE i \in S : \A j \in S : i <= j
  BY DEF FindArea
<1>4. \A i : FirstAt(as, s, i) <=> i \in S /\ \A j \in S : i <= j
  BY DEF FirstAt
<1> HIDE DEF S
<1>5. ASSUME FindArea(as, s) # 0 PROVE FirstAt(as, s, FindArea(as, s))
  <2>1. S # {} /\ FindArea(as, s) = CHOOSE i \in S : \A j \in S : i <= j
    BY <1>3, <1>5
  <2>2. \E i \in S : \A j \in S : i <= j
    BY <1>2, <2>1, Least
  <2>3. FindArea(as, s) \in S /\ \A j \in S : FindArea(as, s) <= j
    BY <2>1, <2>2
  <2> QED BY <1>4, <2>3
<1>6. ASSUME NEW i, FirstAt(as, s, i) PROVE FindArea(as, s) = i /\ FindArea(as, s) # 0
  <2>1. i \in S /\ \A j \in S : i <= j
    BY <1>4, <1>6
  <2>2. \A k \in S : (\A j \in S : k <= j) => k = i
    <3>1. ASSUME NEW k \in S, \A j \in S : k <= j PROVE k = i
      <4>1. k <= i /\ i <= k /\ k \in Int /\ i \in Int
        BY <1>2, <2>1, <3>1
      <4> QED BY <4>1
    <3> QED BY <3>1
  <2>3. FindArea(as, s) = CHOOSE k \in S : \A j \in S : k <= j
    BY <1>3, <2>1
  <2>4. FindArea(as, s) = i
    BY <2>1, <2>2, <2>3
  <2> QED BY <1>2, <2>1, <2>4
<1> QED BY <1>5, <1>6

\* The heap is the first area that starts at its bottom.
LEMMA HeapIsFirst ==
    ASSUME NEW as, NEW s, NEW e
    PROVE  HeapAt(as, s, e) <=> \E i : FirstAt(as, s, i) /\ as[i].end = e /\ as[i].perm = {"U", "R", "W"}
BY DEF HeapAt, FirstAt

\* munmap of areas that start elsewhere leaves the heap where it was.
LEMMA HeapRetained ==
    ASSUME NEW as \in Seq(Area), NEW bs \in Seq(Area), NEW hit, NEW g,
           Selects(bs, as, DOMAIN as \ hit, g),
           Ordered(bs, g),
           NEW s, NEW e, HeapAt(as, s, e), \A i \in hit : i \in DOMAIN as => as[i].start # s
    PROVE  HeapAt(bs, s, e)
<1>1. PICK i \in DOMAIN as :
         /\ as[i].start = s /\ as[i].end = e /\ as[i].perm = {"U", "R", "W"}
         /\ \A j \in DOMAIN as : as[j].start = s => i <= j
  BY DEF HeapAt
<1>2. PICK n \in DOMAIN bs : g[n] = i
  BY <1>1 DEF Selects
<1>3. bs[n].start = s /\ bs[n].end = e /\ bs[n].perm = {"U", "R", "W"}
  BY <1>1, <1>2 DEF Selects
<1>4. ASSUME NEW m \in DOMAIN bs, bs[m].start = s PROVE n <= m
  <2>1. g[m] \in DOMAIN as /\ as[g[m]].start = s
    BY <1>4 DEF Selects
  <2>2. i <= g[m]
    BY <1>1, <2>1
  <2>3. \A k \in DOMAIN as : k \in Int
    <3>1. DOMAIN as = 1 .. Len(as) /\ Len(as) \in Nat
      BY VecMembers
    <3>2. ASSUME NEW l \in Nat, NEW k \in 1 .. l PROVE k \in Int
      OBVIOUS
    <3> QED BY <3>1, <3>2, Zenon
  <2>4. \A k \in DOMAIN bs : k \in Int
    <3>1. DOMAIN bs = 1 .. Len(bs) /\ Len(bs) \in Nat
      BY VecMembers
    <3>2. ASSUME NEW l \in Nat, NEW k \in 1 .. l PROVE k \in Int
      OBVIOUS
    <3> QED BY <3>1, <3>2, Zenon
  <2>5. ~ (g[m] < g[n])
    <3>1. g[m] \in Int /\ i \in Int
      BY <2>1, <2>3, Zenon
    <3>2. ~ (g[m] < i)
      BY <2>2, <3>1
    <3> QED BY <1>2, <3>2
  <2>6. ~ (m < n)
    BY <2>5 DEF Ordered
  <2> QED BY <2>4, <2>6
<1> QED BY <1>3, <1>4 DEF HeapAt

\* sbrk moves the end of the area it found, and of no other.
LEMMA HeapMoved ==
    ASSUME NEW as, NEW bs, NEW i, NEW s, NEW e, NEW e0, FirstAt(as, s, i), HeapAt(as, s, e0),
           \A j, k \in DOMAIN as : j <= k /\ k <= j => j = k,
           DOMAIN bs = DOMAIN as, \A j \in DOMAIN as : j # i => bs[j] = as[j],
           bs[i].start = as[i].start, bs[i].end = e, bs[i].perm = as[i].perm
    PROVE  HeapAt(bs, s, e)
<1>1. PICK k \in DOMAIN as :
         /\ as[k].start = s /\ as[k].end = e0 /\ as[k].perm = {"U", "R", "W"}
         /\ \A j \in DOMAIN as : as[j].start = s => k <= j
  BY DEF HeapAt
<1>2. k = i
  BY <1>1 DEF FirstAt
<1>3. i \in DOMAIN bs /\ bs[i].start = s /\ bs[i].perm = {"U", "R", "W"}
  BY <1>1, <1>2 DEF FirstAt
<1>4. ASSUME NEW j \in DOMAIN bs, bs[j].start = s PROVE i <= j
  <2>1. j \in DOMAIN as /\ as[j].start = s
    BY <1>1, <1>2, <1>4
  <2> QED BY <2>1 DEF FirstAt
<1> QED BY <1>3, <1>4 DEF HeapAt

\* fork keeps every area where it is.
LEMMA HeapCopied ==
    ASSUME NEW as, NEW cs, NEW fr, Copies(cs, as, fr), NEW s, NEW e, HeapAt(as, s, e)
    PROVE  HeapAt(cs, s, e)
BY DEF Copies, HeapAt

-----------------------------------------------------------------------------
(* The inductive invariant.                                                *)

\* Who owns which frame: nobody shares one, and F is what is left.
OnceIn(A, F) ==
    /\ F = Frames \ UNION {Owned(A[p]) : p \in Procs}
    /\ \A p \in Procs : Injective(A[p])
    /\ \A p, q \in Procs : p # q => Owned(A[p]) \cap Owned(A[q]) = {}

\* The invariant, by parts: plain values; areas and tables well formed; only
\* running processes have areas; their tables match; their heaps are in place.
Scalars ==
    /\ state \in [Procs -> {"none", "live", "zombie"}]
    /\ heap_bottom \in [Procs -> Nat] /\ program_brk \in [Procs -> Nat]
    /\ \A p \in Procs : heap_bottom[p] <= program_brk[p]
    /\ data \in [Frames -> Contents]
    /\ tame \in [Procs -> BOOLEAN]
    /\ fault \in Faults
Vectors == areas \in [Procs -> Seq(Area)] /\ ptes \in [Procs -> Table]
Empties == \A p \in Procs : state[p] # "live" => areas[p] = <<>>
Tables == \A p \in Procs : state[p] = "live" => Matches(areas[p], ptes[p])
Heaps == \A p \in Procs : state[p] = "live" /\ tame[p] =>
            HeapAt(areas[p], floor(heap_bottom[p]), ceil(program_brk[p]))

IInv == Scalars /\ Vectors /\ Empties /\ Tables /\ OnceIn(areas, free) /\ Heaps

\* Owning a frame, process by process.
OwnedByAll(A) == UNION {Owned(A[p]) : p \in Procs}

\* A frame is owned when some process owns it.
LEMMA InOwnedByAll ==
    ASSUME NEW A, NEW f
    PROVE  f \in OwnedByAll(A) <=> \E p \in Procs : f \in Owned(A[p])
BY Zenon DEF OwnedByAll

\* The form the invariant gives to frame ownership implies the property.
LEMMA OnceIsFramesOwnedOnce ==
    ASSUME OnceIn(areas, free)
    PROVE  FramesOwnedOnce
<1>1. free = Frames \ UNION {Owned(areas[p]) : p \in Procs}
  BY DEF OnceIn
<1>2. ASSUME NEW p \in Procs, NEW q \in Procs, NEW i \in DOMAIN areas[p], NEW j \in DOMAIN areas[q],
             NEW v \in DOMAIN areas[p][i].frames, NEW w \in DOMAIN areas[q][j].frames,
             areas[p][i].frames[v] = areas[q][j].frames[w]
      PROVE  p = q /\ i = j /\ v = w
  <2>1. PICK as, bs : as = areas[p] /\ bs = areas[q]
    OBVIOUS
  <2>2. /\ i \in DOMAIN as /\ v \in DOMAIN as[i].frames /\ j \in DOMAIN bs /\ w \in DOMAIN bs[j].frames
        /\ as[i].frames[v] = bs[j].frames[w]
    BY <1>2, <2>1
  <2>3. as[i].frames[v] \in Owned(as) /\ bs[j].frames[w] \in Owned(bs)
    BY <2>2, InOwned
  <2>4. p = q
    <3>1. ASSUME p # q PROVE FALSE
      <4>1. Owned(as) \cap Owned(bs) = {}
        BY <2>1, <3>1 DEF OnceIn
      <4> QED BY <2>2, <2>3, <4>1
    <3> QED BY <3>1
  <2>5. Injective(as) /\ as = bs
    BY <2>1, <2>4 DEF OnceIn
  <2>6. /\ j \in DOMAIN as /\ w \in DOMAIN as[j].frames /\ as[i].frames[v] = as[j].frames[w]
    BY <2>2, <2>5
  <2>7. i = j
    BY <2>2, <2>5, <2>6, InjectiveAt
  <2>8. v = w
    BY <2>2, <2>5, <2>6, <2>7, InjectivePage
  <2> QED BY <2>4, <2>7, <2>8
<1> QED BY <1>1, <1>2, Zenon DEF FramesOwnedOnce

\* One memory set is replaced by another whose frames are its own or were
\* free: still no frame is shared or lost.
LEMMA OnceStep ==
    ASSUME NEW A, A \in [Procs -> Seq(Area)], NEW F, OnceIn(A, F), NEW p \in Procs,
           NEW as, Injective(as), Owned(as) \subseteq F \cup Owned(A[p]),
           NEW B, B = [A EXCEPT ![p] = as], NEW G, G = (F \cup Owned(A[p])) \ Owned(as)
    PROVE  OnceIn(B, G)
<1>1. B[p] = as /\ \A q \in Procs : q # p => B[q] = A[q]
  OBVIOUS
<1>2. \A q \in Procs : Injective(B[q])
  BY <1>1 DEF OnceIn
<1>3. \A f \in F : f \in Frames /\ \A q \in Procs : f \notin Owned(A[q])
  <2>1. F = Frames \ OwnedByAll(A)
    BY DEF OnceIn, OwnedByAll
  <2> QED BY <2>1, InOwnedByAll
<1>4. ASSUME NEW q \in Procs, q # p PROVE Owned(as) \cap Owned(A[q]) = {}
  <2>1. Owned(A[p]) \cap Owned(A[q]) = {}
    BY <1>4 DEF OnceIn
  <2> QED BY <1>3, <2>1
<1>5. ASSUME NEW q \in Procs, NEW r \in Procs, q # r PROVE Owned(B[q]) \cap Owned(B[r]) = {}
  <2>1. CASE q = p
    BY <1>1, <1>4, <1>5, <2>1
  <2>2. CASE r = p
    BY <1>1, <1>4, <1>5, <2>2
  <2>3. CASE q # p /\ r # p
    BY <1>1, <1>5, <2>3 DEF OnceIn
  <2> QED BY <2>1, <2>2, <2>3
<1>6. G = Frames \ OwnedByAll(B)
  <2>1. F = Frames \ OwnedByAll(A)
    BY DEF OnceIn, OwnedByAll
  <2>2. Owned(A[p]) \subseteq Frames
    <3>1. A[p] \in Seq(Area)
      OBVIOUS
    <3> QED BY <3>1, PagesInSpace
  <2>3. ASSUME NEW f \in G PROVE f \in Frames \ OwnedByAll(B)
    <3>1. f \in Frames
      BY <1>3, <2>2
    <3>2. ASSUME NEW q \in Procs, f \in Owned(B[q]) PROVE FALSE
      <4>1. q # p
        BY <1>1, <3>2
      <4>2. f \in Owned(A[q])
        BY <1>1, <3>2, <4>1
      <4>3. f \notin F /\ f \notin Owned(A[p])
        BY <1>3, <4>1, <4>2 DEF OnceIn
      <4> QED BY <4>3
    <3> QED BY <3>1, <3>2, InOwnedByAll
  <2>4. ASSUME NEW f \in Frames, f \notin OwnedByAll(B) PROVE f \in G
    <3>1. f \notin Owned(as)
      BY <1>1, <2>4, InOwnedByAll
    <3>2. CASE f \in OwnedByAll(A)
      <4>1. PICK q \in Procs : f \in Owned(A[q])
        BY <3>2, InOwnedByAll
      <4>2. q = p
        BY <1>1, <2>4, <4>1, InOwnedByAll
      <4> QED BY <3>1, <4>1, <4>2
    <3>3. CASE f \notin OwnedByAll(A)
      BY <2>1, <3>1, <3>3
    <3> QED BY <3>2, <3>3
  <2> QED BY <2>3, <2>4
<1> QED BY <1>2, <1>5, <1>6 DEF OnceIn, OwnedByAll

\* The allocator's free frames are frames that nobody owns.
LEMMA FreeFrames ==
    ASSUME NEW A, NEW F, OnceIn(A, F)
    PROVE  /\ F \subseteq Frames /\ \A p \in Procs : F \cap Owned(A[p]) = {}
           /\ F \in SUBSET Int /\ IsFiniteSet(F)
<1>1. F = Frames \ OwnedByAll(A)
  BY DEF OnceIn, OwnedByAll
<1>2. \A p \in Procs : F \cap Owned(A[p]) = {}
  BY <1>1, InOwnedByAll
<1>3. F \in SUBSET Frames /\ IsFiniteSet(Frames) /\ Frames \subseteq Int
  BY <1>1, Layout
<1>4. IsFiniteSet(F)
  BY <1>3, FS_Subset
<1> QED BY <1>2, <1>3, <1>4

\* A step that replaces the memory set of p: table, areas and frames.
LEMMA SpaceStep ==
    ASSUME Vectors, Empties, Tables, OnceIn(areas, free),
           NEW p \in Procs, NEW as \in Seq(Area), NEW t, Matches(as, t), Injective(as),
           Owned(as) \subseteq free \cup Owned(areas[p]),
           areas' = [areas EXCEPT ![p] = as], ptes' = [ptes EXCEPT ![p] = t],
           free' = (free \cup Owned(areas[p])) \ Owned(as),
           state'[p] = "live", \A q \in Procs : q # p => state'[q] = state[q]
    PROVE  Vectors' /\ Empties' /\ Tables' /\ OnceIn(areas, free)'
<1>1. Vectors'
  <2>1. t \in Table
    BY DEF Matches
  <2> QED BY <2>1 DEF Vectors
<1>2. areas'[p] = as /\ ptes'[p] = t /\ \A q \in Procs : q # p => areas'[q] = areas[q] /\ ptes'[q] = ptes[q]
  BY DEF Vectors
<1>3. Empties'
  BY <1>2 DEF Empties
<1>4. Tables'
  BY <1>2 DEF Tables
<1>5. OnceIn(areas, free)'
  <2>1. areas \in [Procs -> Seq(Area)]
    BY DEF Vectors
  <2>2. OnceIn(areas', free')
    BY <2>1, OnceStep
  <2> QED BY <2>2
<1> QED BY <1>1, <1>3, <1>4, <1>5

\* The heaps of the other processes stay where they are.
LEMMA HeapStep ==
    ASSUME Vectors, Heaps, NEW p \in Procs, NEW as, areas' = [areas EXCEPT ![p] = as],
           \A q \in Procs : q # p => /\ state'[q] = state[q] /\ tame'[q] = tame[q]
                                     /\ heap_bottom'[q] = heap_bottom[q]
                                     /\ program_brk'[q] = program_brk[q],
           state'[p] = "live" /\ tame'[p] => HeapAt(as, floor(heap_bottom'[p]), ceil(program_brk'[p]))
    PROVE  Heaps'
<1>1. areas'[p] = as /\ \A q \in Procs : q # p => areas'[q] = areas[q]
  BY DEF Vectors
<1>2. SUFFICES ASSUME NEW q \in Procs, state'[q] = "live", tame'[q]
               PROVE  HeapAt(areas'[q], floor(heap_bottom'[q]), ceil(program_brk'[q]))
  BY DEF Heaps, HeapAt, floor, ceil
<1>3. CASE q = p
  BY <1>1, <1>2, <1>3
<1>4. CASE q # p
  BY <1>1, <1>2, <1>4 DEF Heaps
<1> QED BY <1>3, <1>4

\* An area on frames of its own, taken from the free ones (MapArea::map).
LEMMA AllocArea ==
    ASSUME NEW s \in Nat, NEW e \in Nat, s <= e, e <= Trampoline, NEW perm \in Perms,
           NEW F, F \subseteq Frames, IsFiniteSet(F),
           ~ (Cardinality(VPNRange(s, e)) > Cardinality(F)),
           NEW fr, fr = AllocFrames(VPNRange(s, e), F), NEW a, a = MapArea(s, e, perm, fr)
    PROVE  /\ fr \in [VPNRange(s, e) -> F] /\ \A v, w \in VPNRange(s, e) : fr[v] = fr[w] => v = w
           /\ a \in Area /\ a.start = s /\ a.end = e /\ a.perm = perm
           /\ DOMAIN a.frames = VPNRange(s, e) /\ OneToOne(a.frames) /\ Owned(<<a>>) \subseteq F
<1> DEFINE V == VPNRange(s, e)
<1>1. V \in SUBSET Int /\ IsFiniteSet(V)
  BY FS_Interval DEF VPNRange
<1>2. F \in SUBSET Int
  BY Layout
<1> HIDE DEF V
<1>3. Cardinality(V) \in Nat /\ Cardinality(F) \in Nat
  BY <1>1, FS_CardinalityType
<1>4. Cardinality(V) <= Cardinality(F)
  BY <1>3 DEF V
<1>5. fr \in [V -> F] /\ \A v, w \in V : fr[v] = fr[w] => v = w
  BY <1>1, <1>2, <1>4, AllocDistinct DEF V
<1>6. \A v \in V : fr[v] \in Frames
  BY <1>5
<1>7. /\ a \in Area /\ a.start = s /\ a.end = e /\ a.perm = perm
      /\ DOMAIN a.frames = V /\ \A v \in V : a.frames[v] = fr[v]
  BY <1>6, MapAreaIsArea DEF V
<1>8. OneToOne(a.frames)
  BY <1>5, <1>7 DEF OneToOne
<1>9. Owned(<<a>>) \subseteq F
  <2>1. Owned(<<a>>) = {a.frames[v] : v \in DOMAIN a.frames}
    BY OneArea
  <2> QED BY <1>5, <1>7, <2>1
<1> QED BY <1>5, <1>7, <1>8, <1>9 DEF V

\* A failed unwrap or assertion changes nothing but fault.
LEMMA PanicStep ==
    ASSUME IInv, NEW why \in Faults, Panic(why)
    PROVE  IInv'
BY DEF Panic, IInv, Scalars, Vectors, Empties, Tables, OnceIn, Heaps, HeapAt

\* The arguments of mmap and munmap as page numbers.
LEMMA CallPages ==
    ASSUME NEW c, c.start \in Nat, c.len \in Nat
    PROVE  /\ StartVpn(c) \in Nat /\ EndVpn(c) \in Nat
           /\ StartVpn(c) <= Trampoline /\ EndVpn(c) <= VPages
<1>1. c.start + c.len \in Nat
  OBVIOUS
<1>2. /\ VirtAddr(c.start) \in Nat /\ VirtAddr(c.start + c.len) \in Nat
      /\ floor(VirtAddr(c.start)) <= Trampoline /\ ceil(VirtAddr(c.start + c.len)) <= VPages
  BY <1>1, PageNumbers
<1>3. floor(VirtAddr(c.start)) \in Nat /\ ceil(VirtAddr(c.start + c.len)) \in Nat
  BY <1>2, PageNumbers
<1> QED BY <1>2, <1>3 DEF StartVpn, EndVpn

\* The permission mmap builds from port.
LEMMA PortPermIsPerm == \A port : PortPerm(port) \in Perms
BY DEF PortPerm, Perms

\* A range that meets no mapped page ends below the trampoline.
LEMMA BelowTrampoline ==
    ASSUME NEW p, NEW s \in Nat, NEW e \in Nat, s <= Trampoline, VPNRange(s, e) \cap Mapped(p) = {}
    PROVE  e <= Trampoline
<1>1. Trampoline \notin VPNRange(s, e)
  BY DEF Mapped
<1>2. Trampoline \in Int
  BY Layout DEF Trampoline
<1> QED BY <1>1, <1>2 DEF VPNRange

\* A live process: its areas, its table, and its share of the frames.
LEMMA LiveSpace ==
    ASSUME IInv, NEW p \in Procs, state[p] = "live"
    PROVE  /\ areas[p] \in Seq(Area) /\ Matches(areas[p], ptes[p]) /\ Injective(areas[p])
           /\ DOMAIN ptes[p] = Pages(areas[p]) /\ Disjoint(areas[p])
           /\ free \subseteq Frames /\ free \cap Owned(areas[p]) = {} /\ IsFiniteSet(free)
           /\ free \in SUBSET Int /\ Owned(areas[p]) \subseteq Frames
<1>1. areas[p] \in Seq(Area) /\ Matches(areas[p], ptes[p]) /\ Injective(areas[p])
  BY DEF IInv, Vectors, Tables, OnceIn
<1>2. DOMAIN ptes[p] = Pages(areas[p]) /\ Disjoint(areas[p])
  BY <1>1, MatchedDisjoint DEF Matches
<1>3. /\ free \subseteq Frames /\ free \cap Owned(areas[p]) = {} /\ IsFiniteSet(free)
      /\ free \in SUBSET Int
  BY FreeFrames DEF IInv
<1>4. Owned(areas[p]) \subseteq Frames
  BY <1>1, PagesInSpace
<1> QED BY <1>1, <1>2, <1>3, <1>4

\* A user store keeps the invariant.
LEMMA StoreStep ==
    ASSUME IInv, NEW p \in Procs, NEW v, UserStore(p, v)
    PROVE  IInv'
<1>1. data' \in [Frames -> Contents]
  BY DEF UserStore, IInv, Scalars, Contents
<1>2. UNCHANGED <<state, areas, ptes, heap_bottom, program_brk, free, tame, fault>>
  BY DEF UserStore
<1>3. Scalars'
  BY <1>1, <1>2 DEF IInv, Scalars
<1>4. Vectors' /\ Empties' /\ Tables'
  BY <1>2 DEF IInv, Vectors, Empties, Tables
<1>5. OnceIn(areas, free)'
  BY <1>2 DEF IInv, OnceIn
<1>6. Heaps'
  BY <1>2 DEF IInv, Heaps, HeapAt
<1> QED BY <1>3, <1>4, <1>5, <1>6 DEF IInv

\* mmap keeps the invariant: the new area is on new pages and free frames.
LEMMA MmapStep ==
    ASSUME IInv, NEW p \in Procs, NEW c \in MmapCalls, sys_mmap(p, c)
    PROVE  IInv'
<1> DEFINE s == StartVpn(c)
           e == EndVpn(c)
           V == VPNRange(s, e)
           fr == AllocFrames(V, free)
           a == MapArea(s, e, PortPerm(c.port), fr)
<1>1. s \in Nat /\ e \in Nat /\ s <= Trampoline /\ e <= VPages
  <2>1. c.start \in Nat /\ c.len \in Nat
    BY Layout
  <2> QED BY <2>1, CallPages
<1>2. state[p] = "live" /\ fault = "none"
  BY DEF sys_mmap, CanRun
<1>3. CASE e < s
  BY <1>3, PanicStep DEF sys_mmap, Faults
<1>4. CASE ~ (e < s) /\ Cardinality(V) > Cardinality(free)
  BY <1>4, PanicStep DEF sys_mmap, Faults
<1>5. CASE ~ (e < s) /\ ~ (Cardinality(V) > Cardinality(free))
  <2>1. /\ ~ check_mapping(p, V) /\ insert_framed_area(p, a)
        /\ free' = free \ Owned(<<a>>) /\ data' = Zeroed(Owned(<<a>>))
        /\ UNCHANGED <<state, heap_bottom, program_brk, tame, fault>>
    BY <1>5 DEF sys_mmap
  <2>2. PICK as : as = areas[p]
    OBVIOUS
  <2>3. /\ as \in Seq(Area) /\ Matches(as, ptes[p]) /\ Injective(as)
        /\ DOMAIN ptes[p] = Pages(as) /\ free \subseteq Frames /\ IsFiniteSet(free)
        /\ free \cap Owned(as) = {}
    BY <1>2, <2>2, LiveSpace
  <2>4. V \cap Mapped(p) = {}
    BY <2>1 DEF check_mapping
  <2>5. s <= e /\ e <= Trampoline
    BY <1>1, <1>5, <2>4, BelowTrampoline
  <2>6. PortPerm(c.port) \in Perms
    BY PortPermIsPerm
  <2> HIDE DEF s, e, fr, a
  <2>7. /\ a \in Area /\ DOMAIN a.frames = V /\ OneToOne(a.frames) /\ Owned(<<a>>) \subseteq free
    BY <1>1, <1>5, <2>3, <2>5, <2>6, AllocArea DEF a, fr
  <2>8. DOMAIN a.frames \cap Pages(as) = {}
    BY <2>3, <2>4, <2>7 DEF Mapped
  <2>9. Owned(<<a>>) \cap Owned(as) = {}
    BY <2>3, <2>7
  <2>10. PICK bs, t : bs = Append(as, a) /\ t = Merge(ptes[p], TableOf(<<a>>))
    OBVIOUS
  <2>11. /\ bs \in Seq(Area) /\ Injective(bs) /\ Matches(bs, t)
         /\ Owned(bs) = Owned(as) \cup Owned(<<a>>)
    BY <2>3, <2>7, <2>8, <2>9, <2>10, PushArea
  <2>12. areas' = [areas EXCEPT ![p] = bs] /\ ptes' = [ptes EXCEPT ![p] = t]
    BY <2>1, <2>2, <2>10, Zenon DEF insert_framed_area
  <2>13. Owned(bs) \subseteq free \cup Owned(areas[p])
    BY <2>2, <2>7, <2>11
  <2>14. free' = (free \cup Owned(areas[p])) \ Owned(bs)
    BY <2>1, <2>2, <2>3, <2>11
  <2>15. Vectors' /\ Empties' /\ Tables' /\ OnceIn(areas, free)'
    BY <1>2, <2>1, <2>11, <2>12, <2>13, <2>14, SpaceStep DEF IInv
  <2>16. Heaps'
    <3>1. ASSUME tame[p] PROVE HeapAt(bs, floor(heap_bottom[p]), ceil(program_brk[p]))
      <4>1. HeapAt(as, floor(heap_bottom[p]), ceil(program_brk[p]))
        BY <1>2, <2>2, <3>1 DEF IInv, Heaps
      <4> QED BY <2>3, <2>7, <2>10, <4>1, HeapPush
    <3> QED BY <2>1, <2>12, <3>1, HeapStep DEF IInv
  <2>17. Scalars'
    <3>1. data' \in [Frames -> Contents]
      BY <2>1 DEF IInv, Scalars, Zeroed, Contents
    <3> QED BY <2>1, <3>1 DEF IInv, Scalars
  <2> QED BY <2>15, <2>16, <2>17 DEF IInv
<1> QED BY <1>3, <1>4, <1>5

\* munmap keeps the invariant: the areas it drops give back all they have.
LEMMA MunmapStep ==
    ASSUME IInv, NEW p \in Procs, NEW c \in MunmapCalls, sys_munmap(p, c)
    PROVE  IInv'
<1>1. state[p] = "live" /\ fault = "none"
  BY DEF sys_munmap, CanRun
<1>2. CASE Panic("range")
  BY <1>2, PanicStep DEF Faults
<1>3. CASE /\ munmap_area(p, c) /\ Breaks(p, MunmapContract(p, c))
           /\ UNCHANGED <<state, heap_bottom, program_brk, fault>>
  <2>1. PICK as : as = areas[p]
    OBVIOUS
  <2>2. /\ as \in Seq(Area) /\ Matches(as, ptes[p]) /\ Injective(as) /\ free \cap Owned(as) = {}
    BY <1>1, <2>1, LiveSpace
  <2>3. PICK hit : hit = {i \in DOMAIN as : Contains(as[i], c)}
    OBVIOUS
  <2>4. hit \in SUBSET DOMAIN as
    BY <2>3
  <2>5. PICK K, g, bs, gone : /\ K = DOMAIN as \ hit /\ g = Picks(K)
                              /\ bs = Retain(as, K) /\ gone = Hit(as, hit)
    OBVIOUS
  <2>6. /\ bs \in Seq(Area) /\ Selects(bs, as, DOMAIN as \ hit, g)
        /\ Ordered(bs, g)
    <3>1. K \in SUBSET DOMAIN as
      BY <2>5
    <3>2. /\ Retain(as, K) \in Seq(Area) /\ Selects(Retain(as, K), as, K, Picks(K))
          /\ Ordered(Retain(as, K), Picks(K))
      BY <2>2, <3>1, RetainSelects
    <3> QED BY <2>5, <3>2
  <2>7. PICK t : t = Without(ptes[p], Pages(gone))
    OBVIOUS
  <2>8. Injective(bs)
    BY <2>2, <2>6, SelectedInjective
  <2>9. Matches(bs, t)
    BY <2>2, <2>4, <2>5, <2>6, <2>7, SelectedMatches
  <2>10. Owned(bs) = Owned(as) \ Owned(gone) /\ Owned(gone) \subseteq Owned(as)
    BY <2>2, <2>4, <2>5, <2>6, SelectedOwned
  <2>11. /\ areas' = [areas EXCEPT ![p] = bs] /\ ptes' = [ptes EXCEPT ![p] = t]
         /\ free' = free \cup Owned(gone) /\ data' = Junked(data, Owned(gone))
    <3>1. hit = {i \in DOMAIN areas[p] : Contains(areas[p][i], c)} /\ gone = [i \in hit |-> areas[p][i]]
      BY <2>1, <2>3, <2>5, Zenon DEF Hit
    <3>2. areas' = [areas EXCEPT ![p] = Retain(areas[p], DOMAIN areas[p] \ hit)]
      BY <1>3, <3>1, Zenon DEF munmap_area
    <3>3. /\ ptes' = [ptes EXCEPT ![p] = Without(ptes[p], Pages(gone))]
          /\ free' = free \cup Owned(gone) /\ data' = Junked(data, Owned(gone))
      BY <1>3, <3>1, Zenon DEF munmap_area
    <3> QED BY <2>1, <2>5, <2>7, <3>2, <3>3, Zenon
  <2>12. Owned(bs) \subseteq free \cup Owned(areas[p])
    BY <2>1, <2>10
  <2>13. free' = (free \cup Owned(areas[p])) \ Owned(bs)
    BY <2>1, <2>2, <2>10, <2>11
  <2>14. Vectors' /\ Empties' /\ Tables' /\ OnceIn(areas, free)'
    BY <1>1, <1>3, <2>6, <2>8, <2>9, <2>11, <2>12, <2>13, SpaceStep DEF IInv
  <2>15. tame' = [tame EXCEPT ![p] = tame[p] /\ MunmapContract(p, c)]
    BY <1>3 DEF Breaks
  <2>16. Scalars'
    <3>1. data' \in [Frames -> Contents]
      BY <2>11 DEF IInv, Scalars, Junked, Contents
    <3>2. tame' \in [Procs -> BOOLEAN]
      <4>1. tame \in [Procs -> BOOLEAN] /\ MunmapContract(p, c) \in BOOLEAN
        BY DEF IInv, Scalars, MunmapContract
      <4> QED BY <2>15, <4>1
    <3> QED BY <1>3, <3>1, <3>2 DEF IInv, Scalars
  <2>17. Heaps'
    <3>1. ASSUME tame'[p] PROVE HeapAt(bs, floor(heap_bottom[p]), ceil(program_brk[p]))
      <4>1. tame[p] /\ MunmapContract(p, c)
        BY <2>15, <3>1 DEF IInv, Scalars
      <4>2. HeapAt(as, floor(heap_bottom[p]), ceil(program_brk[p]))
        BY <1>1, <2>1, <4>1 DEF IInv, Heaps
      <4>3. \A i \in hit : i \in DOMAIN as => as[i].start # floor(heap_bottom[p])
        BY <2>1, <2>3, <4>1 DEF MunmapContract
      <4> QED BY <2>2, <2>6, <4>2, <4>3, HeapRetained
    <3>2. \A q \in Procs : q # p => tame'[q] = tame[q]
      BY <2>15 DEF IInv, Scalars
    <3> QED BY <1>3, <2>11, <3>1, <3>2, HeapStep DEF IInv
  <2> QED BY <2>14, <2>16, <2>17 DEF IInv
<1> QED BY <1>2, <1>3 DEF sys_munmap

\* The set that two sets make up.
Joins(X, Y, Z) == X = Y \cup Z

\* The frames of the wider vector, as a fact that can be carried around.
LEMMA JoinsOwned ==
    ASSUME NEW big, NEW small, NEW i, NEW V, NEW fr, Widens(big, small, i, V, fr)
    PROVE  Joins(Owned(big), Owned(small), Taken(fr, V))
BY WidenedOwned DEF Joins

\* A range of pages is a finite set of numbers.
LEMMA RangeSet ==
    ASSUME NEW x \in Nat, NEW y \in Nat
    PROVE  VPNRange(x, y) \in SUBSET Int /\ IsFiniteSet(VPNRange(x, y))
BY FS_Interval DEF VPNRange

\* What a move of the break, to page e, does to the memory set of p.
LEMMA BreakStep ==
    ASSUME IInv, NEW p \in Procs, NEW bs, NEW t, NEW i, NEW brk \in Nat, NEW fs
    PROVE  /\ state[p] = "live" /\ fault = "none"
           /\ FirstAt(areas[p], floor(heap_bottom[p]), i) /\ heap_bottom[p] <= brk
           /\ bs \in Seq(Area) /\ Injective(bs) /\ Matches(bs, t) /\ DOMAIN bs = DOMAIN areas[p]
           /\ \A j \in DOMAIN areas[p] : j # i => bs[j] = areas[p][j]
           /\ Moved(bs, areas[p], i, ceil(brk))
           /\ Owned(bs) \subseteq free \cup Owned(areas[p])
           /\ areas' = [areas EXCEPT ![p] = bs] /\ ptes' = [ptes EXCEPT ![p] = t]
           /\ free' = (free \cup Owned(areas[p])) \ Owned(bs)
           /\ data' \in [Frames -> Contents]
           /\ program_brk' = [program_brk EXCEPT ![p] = brk]
           /\ UNCHANGED <<state, heap_bottom, tame, fault>>
           => IInv'
<1>0. SUFFICES ASSUME
           state[p] = "live", fault = "none",
           FirstAt(areas[p], floor(heap_bottom[p]), i), heap_bottom[p] <= brk,
           bs \in Seq(Area), Injective(bs), Matches(bs, t), DOMAIN bs = DOMAIN areas[p],
           \A j \in DOMAIN areas[p] : j # i => bs[j] = areas[p][j],
           Moved(bs, areas[p], i, ceil(brk)),
           Owned(bs) \subseteq free \cup Owned(areas[p]),
           areas' = [areas EXCEPT ![p] = bs], ptes' = [ptes EXCEPT ![p] = t],
           free' = (free \cup Owned(areas[p])) \ Owned(bs),
           data' \in [Frames -> Contents],
           program_brk' = [program_brk EXCEPT ![p] = brk],
           UNCHANGED <<state, heap_bottom, tame, fault>>
        PROVE IInv'
  OBVIOUS
<1>1. Vectors' /\ Empties' /\ Tables' /\ OnceIn(areas, free)'
  BY <1>0, SpaceStep DEF IInv
<1>2. Scalars'
  BY <1>0 DEF IInv, Scalars
<1>3. Heaps'
  <2>1. ASSUME tame[p] PROVE HeapAt(bs, floor(heap_bottom[p]), ceil(brk))
    <3>1. PICK as, s, e0, e : /\ as = areas[p] /\ s = floor(heap_bottom[p]) /\ e0 = ceil(program_brk[p])
                              /\ e = ceil(brk)
      OBVIOUS
    <3>2. HeapAt(as, s, e0)
      BY <1>0, <2>1, <3>1 DEF IInv, Heaps
    <3>3. FirstAt(as, s, i) /\ DOMAIN bs = DOMAIN as /\ \A j \in DOMAIN as : j # i => bs[j] = as[j]
      BY <1>0, <3>1
    <3>4. bs[i].start = as[i].start /\ bs[i].end = e /\ bs[i].perm = as[i].perm
      BY <1>0, <3>1 DEF Moved
    <3>5. \A j, k \in DOMAIN as : j <= k /\ k <= j => j = k
      <4>1. DOMAIN as = 1 .. Len(as) /\ Len(as) \in Nat
        <5>1. as \in Seq(Area)
          BY <3>1 DEF IInv, Vectors
        <5> QED BY <5>1, VecMembers
      <4>2. ASSUME NEW n \in Nat, NEW j \in 1 .. n, NEW k \in 1 .. n, j <= k, k <= j PROVE j = k
        BY <4>2
      <4> QED BY <4>1, <4>2
    <3>6. HeapAt(bs, s, e)
      BY <3>2, <3>3, <3>4, <3>5, HeapMoved
    <3> QED BY <3>1, <3>6
  <2>2. program_brk'[p] = brk /\ \A q \in Procs : q # p => program_brk'[q] = program_brk[q]
    BY <1>0 DEF IInv, Scalars
  <2>3. state'[p] = "live" /\ tame'[p] => HeapAt(bs, floor(heap_bottom'[p]), ceil(program_brk'[p]))
    BY <1>0, <2>1, <2>2
  <2>4. \A q \in Procs : q # p => /\ state'[q] = state[q] /\ tame'[q] = tame[q]
                                  /\ heap_bottom'[q] = heap_bottom[q] /\ program_brk'[q] = program_brk[q]
    BY <1>0, <2>2
  <2>5. areas' = [areas EXCEPT ![p] = bs]
    BY <1>0
  <2> QED BY <2>3, <2>4, <2>5, HeapStep DEF IInv
<1> QED BY <1>1, <1>2, <1>3 DEF IInv

\* The pages and frames that shrink_to gives back.
LEMMA ShrinkStep ==
    ASSUME IInv, NEW p \in Procs, NEW i, NEW brk \in Nat, state[p] = "live", fault = "none",
           FirstAt(areas[p], floor(heap_bottom[p]), i), heap_bottom[p] <= brk,
           shrink_to(p, i, ceil(brk)),
           program_brk' = IF fault' = "none" THEN [program_brk EXCEPT ![p] = brk] ELSE program_brk
    PROVE  IInv'
<1>1. PICK as, a, e : as = areas[p] /\ a = as[i] /\ e = ceil(brk)
  OBVIOUS
<1>2. CASE e > a.end
  <2>1. Panic("range")
    BY <1>1, <1>2 DEF shrink_to, Panic
  <2> QED BY <2>1, PanicStep DEF Faults
<1>3. CASE ~ (e > a.end)
  <2>1. /\ as \in Seq(Area) /\ Matches(as, ptes[p]) /\ Injective(as) /\ free \cap Owned(as) = {}
    BY <1>1, LiveSpace
  <2>2. i \in DOMAIN as /\ a.start = floor(heap_bottom[p])
    BY <1>1 DEF FirstAt
  <2>3. a \in Area /\ a.start \in Nat /\ a.end \in Nat
    BY <1>1, <2>1, <2>2, VecMembers, AreaFields
  <2>4. e \in Nat /\ a.start <= e /\ e <= a.end
    <3>1. e \in Nat
      BY <1>1, PageNumbers
    <3>2. floor(heap_bottom[p]) <= ceil(brk)
      BY PageNumbers DEF IInv, Scalars
    <3> QED BY <1>1, <1>3, <2>2, <2>3, <3>1, <3>2
  <2>5. PICK b, V, bs, t : /\ b = MapArea(a.start, e, a.perm, a.frames) /\ V = VPNRange(e, a.end)
                           /\ bs = SetAt(as, i, b) /\ t = Without(ptes[p], V)
    OBVIOUS
  <2>6. bs \in Seq(Area) /\ Moved(bs, as, i, e) /\ Widens(as, bs, i, V, a.frames)
    <3>1. /\ as[i].start <= e /\ e <= as[i].end
          /\ b = MapArea(as[i].start, e, as[i].perm, as[i].frames) /\ bs = SetAt(as, i, b)
      BY <1>1, <2>4, <2>5
    <3>2. /\ bs \in Seq(Area) /\ Moved(bs, as, i, e)
          /\ Widens(as, bs, i, VPNRange(e, as[i].end), as[i].frames)
      BY <2>1, <2>2, <2>4, <3>1, ShrunkArea
    <3> QED BY <1>1, <2>5, <3>2
  <2>7. Injective(bs) /\ Owned(bs) \cap Taken(a.frames, V) = {}
    BY <2>1, <2>6, NarrowedInjective
  <2>8. Owned(as) = Owned(bs) \cup Taken(a.frames, V)
    <3>1. PICK fr : fr = a.frames
      OBVIOUS
    <3>2. Widens(as, bs, i, V, fr)
      BY <2>6, <3>1
    <3>3. Joins(Owned(as), Owned(bs), Taken(fr, V))
      BY <3>2, JoinsOwned
    <3> QED BY <3>1, <3>3 DEF Joins
  <2>9. Matches(bs, t)
    BY <2>1, <2>5, <2>6, NarrowedMatches
  <2>10. PICK G : G = Taken(a.frames, V)
    OBVIOUS
  <2>11. /\ areas' = [areas EXCEPT ![p] = bs] /\ ptes' = [ptes EXCEPT ![p] = t]
         /\ free' = free \cup G /\ data' = Junked(data, G)
         /\ UNCHANGED <<state, heap_bottom, tame, fault>>
    <3>1. /\ areas' = [areas EXCEPT ![p][i] = b]
          /\ ptes' = [ptes EXCEPT ![p] = Without(ptes[p], V)]
          /\ free' = free \cup G /\ data' = Junked(data, G)
          /\ UNCHANGED <<state, heap_bottom, tame, fault>>
      BY <1>1, <1>3, <2>5, <2>10 DEF shrink_to, Taken
    <3>2. areas' = [areas EXCEPT ![p] = SetAt(areas[p], i, b)]
      BY <3>1 DEF SetAt
    <3> QED BY <1>1, <2>5, <3>1, <3>2
  <2>12. DOMAIN bs = DOMAIN as /\ \A j \in DOMAIN as : j # i => bs[j] = as[j]
    BY <2>6 DEF Widens
  <2>13. Owned(bs) \subseteq free \cup Owned(areas[p])
    BY <1>1, <2>8
  <2>14. free' = (free \cup Owned(areas[p])) \ Owned(bs)
    BY <1>1, <2>1, <2>7, <2>8, <2>10, <2>11
  <2>15. data' \in [Frames -> Contents]
    BY <2>11 DEF IInv, Scalars, Junked, Contents
  <2>16. program_brk' = [program_brk EXCEPT ![p] = brk]
    BY <2>11
  <2>17. /\ Moved(bs, areas[p], i, ceil(brk)) /\ DOMAIN bs = DOMAIN areas[p]
         /\ \A j \in DOMAIN areas[p] : j # i => bs[j] = areas[p][j]
    BY <1>1, <2>6, <2>12
  <2> QED BY <2>6, <2>7, <2>9, <2>11, <2>13, <2>14, <2>15, <2>16, <2>17, BreakStep
<1> QED BY <1>2, <1>3

\* The pages and frames that append_to takes.
LEMMA AppendStep ==
    ASSUME IInv, NEW p \in Procs, NEW i, NEW brk \in Nat, state[p] = "live", fault = "none",
           FirstAt(areas[p], floor(heap_bottom[p]), i), heap_bottom[p] <= brk,
           append_to(p, i, ceil(brk)),
           program_brk' = IF fault' = "none" THEN [program_brk EXCEPT ![p] = brk] ELSE program_brk
    PROVE  IInv'
<1>1. PICK as, a, e, V : as = areas[p] /\ a = as[i] /\ e = ceil(brk) /\ V = VPNRange(a.end, e)
  OBVIOUS
<1>4. a.end \in Int /\ e \in Int
  <2>1. areas[p] \in Seq(Area) /\ i \in DOMAIN areas[p]
    BY DEF FirstAt, IInv, Vectors
  <2>2. areas[p][i].end \in Nat
    BY <2>1, VecMembers, AreaFields
  <2>3. ceil(brk) \in Nat
    BY PageNumbers
  <2> QED BY <1>1, <2>2, <2>3
<1>2. CASE e < a.end \/ V \cap Mapped(p) # {} \/ Cardinality(V) > Cardinality(free)
  <2>1. Panic("range") \/ Panic("mapped") \/ Panic("exhausted")
    <3>1. CASE e < a.end
      BY <1>1, <3>1 DEF append_to
    <3>2. CASE ~ (e < a.end) /\ V \cap Mapped(p) # {}
      <4>1. e >= a.end
        BY <1>4, <3>2
      <4> QED BY <1>1, <3>2, <4>1 DEF append_to
    <3>3. CASE ~ (e < a.end) /\ V \cap Mapped(p) = {} /\ Cardinality(V) > Cardinality(free)
      <4>1. e >= a.end
        BY <1>4, <3>3
      <4> QED BY <1>1, <3>3, <4>1 DEF append_to
    <3> QED BY <1>2, <3>1, <3>2, <3>3
  <2> QED BY <2>1, PanicStep DEF Faults
<1>3. CASE ~ (e < a.end) /\ V \cap Mapped(p) = {} /\ ~ (Cardinality(V) > Cardinality(free))
  <2>1. /\ as \in Seq(Area) /\ Matches(as, ptes[p]) /\ Injective(as) /\ free \cap Owned(as) = {}
        /\ free \subseteq Frames /\ IsFiniteSet(free) /\ free \in SUBSET Int
        /\ DOMAIN ptes[p] = Pages(as)
    BY <1>1, LiveSpace
  <2>2. i \in DOMAIN as
    BY <1>1 DEF FirstAt
  <2>3. a \in Area /\ a.end \in Nat /\ a.end <= Trampoline
    BY <1>1, <2>1, <2>2, VecMembers, AreaFields
  <2>4. e \in Nat
    BY <1>1, PageNumbers
  <2>5. a.end <= e /\ e <= Trampoline
    BY <1>1, <1>3, <2>3, <2>4, BelowTrampoline
  <2>6. PICK fr : fr = AllocFrames(V, free)
    OBVIOUS
  <2>7. fr \in [V -> free] /\ \A v, w \in V : fr[v] = fr[w] => v = w
    <3>1. V \in SUBSET Int /\ IsFiniteSet(V)
      BY <1>1, <2>3, <2>4, RangeSet
    <3>2. Cardinality(V) \in Nat /\ Cardinality(free) \in Nat
      BY <2>1, <3>1, FS_CardinalityType
    <3>3. Cardinality(V) <= Cardinality(free)
      BY <1>3, <3>2
    <3> QED BY <2>1, <2>6, <3>1, <3>3, AllocDistinct
  <2>8. PICK b, bs, t : /\ b = MapArea(a.start, e, a.perm, Merge(a.frames, fr))
                        /\ bs = SetAt(as, i, b) /\ t = Merge(ptes[p], TableOf(<<b>>))
    OBVIOUS
  <2>9. bs \in Seq(Area) /\ Moved(bs, as, i, e) /\ bs[i] = b /\ Widens(bs, as, i, V, fr)
    <3>1. fr \in [V -> Frames]
      BY <2>1, <2>7
    <3>2. Grows(bs, as, i, e, fr)
      BY <1>1, <2>5, <2>8, <3>1 DEF Grows
    <3>3. V = VPNRange(as[i].end, e)
      BY <1>1
    <3>4. bs \in Seq(Area) /\ Moved(bs, as, i, e) /\ Widens(bs, as, i, V, fr)
      BY <2>1, <2>2, <2>4, <3>2, <3>3, GrownArea
    <3>5. bs[i] = b
      BY <2>2, <2>8 DEF SetAt
    <3> QED BY <3>4, <3>5
  <2>10. \A v \in V : fr[v] \notin Owned(as)
    BY <2>1, <2>7
  <2>11. Injective(bs)
    BY <2>1, <2>7, <2>9, <2>10, WidenedInjective
  <2>12. Owned(bs) = Owned(as) \cup Taken(fr, V)
    <3>1. Joins(Owned(bs), Owned(as), Taken(fr, V))
      BY <2>9, JoinsOwned
    <3> QED BY <3>1 DEF Joins
  <2>13. Matches(bs, t)
    <3>1. V \cap Pages(as) = {}
      BY <1>3, <2>1 DEF Mapped
    <3>2. t = Merge(ptes[p], TableOf(<<bs[i]>>))
      BY <2>8, <2>9
    <3> QED BY <2>1, <2>9, <3>1, <3>2, WidenedMatches
  <2>14. PICK G : G = Taken(fr, V)
    OBVIOUS
  <2>15. G \subseteq free
    BY <2>7, <2>14 DEF Taken
  <2>16. /\ areas' = [areas EXCEPT ![p] = bs] /\ ptes' = [ptes EXCEPT ![p] = t]
         /\ free' = free \ G /\ data' = Zeroed(G)
         /\ UNCHANGED <<state, heap_bottom, tame, fault>>
    <3>1. /\ areas' = [areas EXCEPT ![p][i] = b]
          /\ ptes' = [ptes EXCEPT ![p] = Merge(ptes[p], TableOf(<<b>>))]
          /\ free' = free \ G /\ data' = Zeroed(G)
          /\ UNCHANGED <<state, heap_bottom, tame, fault>>
      BY <1>1, <1>3, <2>6, <2>8, <2>14 DEF append_to, Taken
    <3>2. areas' = [areas EXCEPT ![p] = SetAt(areas[p], i, b)]
      BY <3>1 DEF SetAt
    <3> QED BY <1>1, <2>8, <3>1, <3>2
  <2>17. DOMAIN bs = DOMAIN as /\ \A j \in DOMAIN as : j # i => bs[j] = as[j]
    BY <2>9 DEF Widens
  <2>18. Owned(bs) \subseteq free \cup Owned(areas[p])
    BY <1>1, <2>12, <2>14, <2>15
  <2>19. free' = (free \cup Owned(areas[p])) \ Owned(bs)
    BY <1>1, <2>1, <2>12, <2>14, <2>16
  <2>20. data' \in [Frames -> Contents]
    BY <2>16 DEF IInv, Scalars, Zeroed, Contents
  <2>21. program_brk' = [program_brk EXCEPT ![p] = brk]
    BY <2>16
  <2>22. /\ Moved(bs, areas[p], i, ceil(brk)) /\ DOMAIN bs = DOMAIN areas[p]
         /\ \A j \in DOMAIN areas[p] : j # i => bs[j] = areas[p][j]
    BY <1>1, <2>9, <2>17
  <2> QED BY <2>9, <2>11, <2>13, <2>16, <2>18, <2>19, <2>20, <2>21, <2>22, BreakStep
<1> QED BY <1>2, <1>3

\* sbrk keeps the invariant, whichever way the break moves.
LEMMA SbrkStep ==
    ASSUME IInv, NEW p \in Procs, NEW size \in SbrkSizes, sys_sbrk(p, size)
    PROVE  IInv'
<1>1. PICK i, brk : i = FindArea(areas[p], floor(heap_bottom[p])) /\ brk = program_brk[p] + size
  OBVIOUS
<1>2. state[p] = "live" /\ fault = "none" /\ heap_bottom[p] <= brk /\ brk \in Nat
  <2>1. heap_bottom[p] \in Nat /\ program_brk[p] \in Nat /\ size \in Int
    BY Layout DEF IInv, Scalars
  <2>2. state[p] = "live" /\ fault = "none" /\ brk >= heap_bottom[p]
    BY <1>1 DEF sys_sbrk, CanRun
  <2> QED BY <1>1, <2>1, <2>2
<1>3. FirstAt(areas[p], floor(heap_bottom[p]), i)
  <2>1. areas[p] \in Seq(Area)
    BY DEF IInv, Vectors
  <2>2. i # 0
    BY <1>1 DEF sys_sbrk
  <2> QED BY <1>1, <2>1, <2>2, FindAreaFirst
<1>4. program_brk' = IF fault' = "none" THEN [program_brk EXCEPT ![p] = brk] ELSE program_brk
  BY <1>1 DEF sys_sbrk, SetBrk
<1>5. shrink_to(p, i, ceil(brk)) \/ append_to(p, i, ceil(brk))
  BY <1>1 DEF sys_sbrk
<1> QED BY <1>2, <1>3, <1>4, <1>5, ShrinkStep, AppendStep

\* The pages of a program: its image, its stack, its trap context.
LEMMA ElfPagesSize ==
    ASSUME NEW app \in Apps
    PROVE  /\ ElfPages(app) \in SUBSET Int /\ IsFiniteSet(ElfPages(app))
           /\ Cardinality(ElfPages(app)) = app + StackPages + 1
<1>1. /\ app \in Nat /\ app > 0 /\ StackPages \in Nat /\ StackPages > 0 /\ VPages \in Nat
      /\ app + StackPages + 4 <= VPages
  BY Layout
<1>2. PICK A, B, C : A = 0 .. (app - 1) /\ B = (app + 1) .. (app + StackPages) /\ C = {TrapContext}
  OBVIOUS
<1>3. IsFiniteSet(A) /\ Cardinality(A) = app
  BY <1>1, <1>2, FS_Interval
<1>4. IsFiniteSet(B) /\ Cardinality(B) = StackPages
  <2>1. app + 1 \in Int /\ app + StackPages \in Int
    BY <1>1
  <2>2. /\ IsFiniteSet((app + 1) .. (app + StackPages))
        /\ Cardinality((app + 1) .. (app + StackPages)) = (app + StackPages) - (app + 1) + 1
    BY <1>1, <2>1, FS_Interval
  <2> QED BY <1>1, <1>2, <2>2
<1>5. IsFiniteSet(C) /\ Cardinality(C) = 1
  BY <1>2, FS_Singleton
<1>6. A \cap B = {} /\ (A \cup B) \cap C = {} /\ A \subseteq Int /\ B \subseteq Int /\ C \subseteq Int
  BY <1>1, <1>2 DEF TrapContext
<1>7. IsFiniteSet(A \cup B) /\ Cardinality(A \cup B) = app + StackPages
  <2>1. Cardinality(A \cup B) = Cardinality(A) + Cardinality(B) - Cardinality(A \cap B)
    BY <1>3, <1>4, FS_Union
  <2>2. Cardinality(A \cap B) = 0
    BY <1>6, FS_EmptySet
  <2>3. IsFiniteSet(A \cup B)
    BY <1>3, <1>4, FS_Union
  <2> QED BY <1>1, <1>3, <1>4, <2>1, <2>2, <2>3
<1>8. PICK D : D = A \cup B
  OBVIOUS
<1>9. IsFiniteSet(D \cup C) /\ Cardinality(D \cup C) = app + StackPages + 1
  <2>1. Cardinality(D \cup C) = Cardinality(D) + Cardinality(C) - Cardinality(D \cap C)
    BY <1>5, <1>7, <1>8, FS_Union
  <2>2. Cardinality(D \cap C) = 0
    BY <1>6, <1>8, FS_EmptySet
  <2>3. IsFiniteSet(D \cup C)
    BY <1>5, <1>7, <1>8, FS_Union
  <2> QED BY <1>1, <1>5, <1>7, <1>8, <2>1, <2>2, <2>3
<1>10. ElfPages(app) = D \cup C
  <2>1. VPNRange(0, app) = A
    BY <1>2 DEF VPNRange
  <2>2. VPNRange(app + 1, app + 1 + StackPages) = B
    <3>1. (app + 1 + StackPages) - 1 = app + StackPages
      BY <1>1
    <3>2. VPNRange(app + 1, app + 1 + StackPages) = (app + 1) .. ((app + 1 + StackPages) - 1)
      BY DEF VPNRange
    <3> QED BY <1>2, <3>1, <3>2
  <2> QED BY <1>2, <1>8, <2>1, <2>2 DEF ElfPages
<1>11. D \cup C \in SUBSET Int
  BY <1>6, <1>8
<1> QED BY <1>9, <1>10, <1>11

\* The address space that from_elf builds on free frames.
LEMMA ElfSpace ==
    ASSUME NEW app \in Apps, NEW F, F \subseteq Frames, IsFiniteSet(F),
           ~ (Cardinality(ElfPages(app)) > Cardinality(F)), NEW as, as = from_elf(app, F)
    PROVE  /\ as \in Seq(Area) /\ Injective(as) /\ Matches(as, TableOf(as))
           /\ Owned(as) \subseteq F /\ Pages(as) = ElfPages(app)
           /\ UserSp(app) \in Nat /\ HeapAt(as, floor(UserSp(app)), ceil(UserSp(app)))
<1>1. PICK fr, V : V = ElfPages(app) /\ fr = AllocFrames(V, F)
  OBVIOUS
<1>2. V \in SUBSET Int /\ IsFiniteSet(V) /\ F \in SUBSET Int
  BY <1>1, ElfPagesSize, Layout
<1>3. Cardinality(V) <= Cardinality(F)
  <2>1. Cardinality(V) \in Nat /\ Cardinality(F) \in Nat
    BY <1>2, FS_CardinalityType
  <2> QED BY <1>1, <2>1
<1>4. fr \in [V -> F] /\ \A v, w \in V : fr[v] = fr[w] => v = w
  BY <1>1, <1>2, <1>3, AllocDistinct
<1>5. \A v \in V : fr[v] \in Frames
  BY <1>4
<1>6. Laid(as, fr, V) /\ HeapAt(as, app + 1 + StackPages, app + 1 + StackPages)
  BY <1>1, <1>5, ElfLaid
<1>7. as \in Seq(Area) /\ Disjoint(as) /\ Placed(as, fr) /\ Pages(as) = V
  BY <1>6 DEF Laid
<1>8. Injective(as) /\ Owned(as) \subseteq F
  BY <1>4, <1>7, PlacedAreas
<1>9. Matches(as, TableOf(as))
  BY <1>7, TableOfMatches
<1>10. /\ UserSp(app) \in Nat /\ floor(UserSp(app)) = app + 1 + StackPages
       /\ ceil(UserSp(app)) = app + 1 + StackPages
  <2>1. app + 1 + StackPages \in Nat
    BY Layout
  <2> QED BY <2>1, PageNumbers DEF UserSp
<1> QED BY <1>1, <1>6, <1>7, <1>8, <1>9, <1>10

\* What the frames of a new program hold.
LEMMA ElfDataTyped ==
    ASSUME NEW app, NEW as, NEW D, D \in [Frames -> Contents]
    PROVE  ElfData(app, as, D) \in [Frames -> Contents]
<1>1. \A v : ElfContent(app, v) \in Contents
  BY DEF ElfContent, Contents
<1> QED BY <1>1 DEF ElfData

\* The address space that from_existed_user builds on free frames.
LEMMA ForkSpace ==
    ASSUME NEW as \in Seq(Area), NEW F, F \subseteq Frames, IsFiniteSet(F), NEW cs
    PROVE  /\ Disjoint(as) /\ ~ (Cardinality(Pages(as)) > Cardinality(F))
           /\ F = free /\ cs = from_existed_user(as)
           => /\ cs \in Seq(Area) /\ Injective(cs) /\ Matches(cs, TableOf(cs))
              /\ Owned(cs) \subseteq F /\ Pages(cs) = Pages(as)
              /\ \E fr : Copies(cs, as, fr)
<1>0. SUFFICES ASSUME Disjoint(as), ~ (Cardinality(Pages(as)) > Cardinality(F)),
                      F = free, cs = from_existed_user(as)
               PROVE  /\ cs \in Seq(Area) /\ Injective(cs) /\ Matches(cs, TableOf(cs))
                      /\ Owned(cs) \subseteq F /\ Pages(cs) = Pages(as)
                      /\ \E fr : Copies(cs, as, fr)
  OBVIOUS
<1>a. PICK V : V = Pages(as)
  OBVIOUS
<1>1. PICK fr : fr = AllocFrames(V, F)
  OBVIOUS
<1>2. V \in SUBSET Int /\ IsFiniteSet(V) /\ F \in SUBSET Int
  <2>1. V \subseteq Nat /\ IsFiniteSet(V)
    BY <1>a, PagesInSpace
  <2>2. F \subseteq Nat
    BY Layout
  <2> QED BY <2>1, <2>2
<1>3. Cardinality(V) <= Cardinality(F)
  <2>1. Cardinality(V) \in Nat /\ Cardinality(F) \in Nat
    BY <1>2, FS_CardinalityType
  <2>2. ~ (Cardinality(V) > Cardinality(F))
    BY <1>0, <1>a
  <2> QED BY <2>1, <2>2
<1>4. fr \in [V -> F] /\ \A v, w \in V : fr[v] = fr[w] => v = w
  BY <1>1, <1>2, <1>3, AllocDistinct
<1>5. \A v \in Pages(as) : fr[v] \in Frames
  BY <1>a, <1>4
<1>6. cs = [i \in DOMAIN as |-> from_another(as[i], fr)]
  BY <1>0, <1>a, <1>1 DEF from_existed_user
<1>7. cs \in Seq(Area) /\ Copies(cs, as, fr)
  BY <1>5, <1>6, CopiesAreas
<1>8. Pages(cs) = Pages(as) /\ Placed(cs, fr) /\ Disjoint(cs)
  BY <1>0, <1>7, CopiesPages
<1>9. Injective(cs) /\ Owned(cs) \subseteq F
  <2>1. Pages(cs) \subseteq V
    BY <1>a, <1>8
  <2> QED BY <1>4, <1>7, <1>8, <2>1, PlacedAreas
<1>10. Matches(cs, TableOf(cs))
  BY <1>7, <1>8, TableOfMatches
<1> QED BY <1>7, <1>8, <1>9, <1>10

\* The page that a frame of the areas backs, as the CHOOSE of the copies finds it.
LEMMA BackedPage ==
    ASSUME NEW as, NEW t, Matches(as, t), NEW f, f \in Owned(as)
    PROVE  \E v \in Pages(as) : t[v].ppn = f
<1>1. PICK i \in DOMAIN as : \E v \in DOMAIN as[i].frames : f = as[i].frames[v]
  BY OwnedBy
<1>2. PICK v \in DOMAIN as[i].frames : f = as[i].frames[v]
  BY <1>1
<1>3. t[v] = [ppn |-> as[i].frames[v], perm |-> as[i].perm]
  BY DEF Matches
<1>4. t[v].ppn = f
  BY <1>2, <1>3
<1>5. v \in Pages(as)
  BY InPages
<1> QED BY <1>4, <1>5

\* What the frames of a forked process hold.
LEMMA CopiedDataTyped ==
    ASSUME NEW src, src \in Table, NEW cs, Matches(cs, TableOf(cs)), Pages(cs) = DOMAIN src,
           data \in [Frames -> Contents]
    PROVE  CopiedData(src, cs) \in [Frames -> Contents]
<1>1. PICK t : t = TableOf(cs)
  OBVIOUS
<1>2. ASSUME NEW f \in Owned(cs)
      PROVE  data[src[CHOOSE v \in Pages(cs) : t[v].ppn = f].ppn] \in Contents
  <2>1. \E v \in Pages(cs) : t[v].ppn = f
    BY <1>1, BackedPage
  <2>2. PICK w : w = CHOOSE v \in Pages(cs) : t[v].ppn = f
    OBVIOUS
  <2>3. w \in Pages(cs)
    BY <2>1, <2>2, Zenon
  <2>4. src[w].ppn \in Frames
    BY <2>3 DEF Table, Entry
  <2> QED BY <2>2, <2>4
<1>3. CopiedData(src, cs) = [f \in Frames |-> IF f \in Owned(cs)
                                              THEN data[src[CHOOSE v \in Pages(cs) : t[v].ppn = f].ppn]
                                              ELSE data[f]]
  BY <1>1 DEF CopiedData
<1> QED BY <1>2, <1>3

\* An empty vector of areas has no pages and no frames.
LEMMA NoAreas == Injective(<<>>) /\ Owned(<<>>) = {} /\ <<>> \in Seq(Area)
<1>1. DOMAIN <<>> = {} /\ <<>> \in Seq(Area)
  OBVIOUS
<1> QED BY <1>1 DEF Injective, Owned

\* A process comes to life in an address space made of free frames.
LEMMA BirthStep ==
    ASSUME IInv, NEW c \in Procs, NEW as \in Seq(Area), NEW t, NEW hb \in Nat, NEW brk \in Nat, NEW ok \in BOOLEAN
    PROVE  /\ state[c] = "none" /\ Matches(as, t) /\ Injective(as) /\ Owned(as) \subseteq free
           /\ hb <= brk /\ (ok => HeapAt(as, floor(hb), ceil(brk)))
           /\ state' = [state EXCEPT ![c] = "live"]
           /\ areas' = [areas EXCEPT ![c] = as] /\ ptes' = [ptes EXCEPT ![c] = t]
           /\ heap_bottom' = [heap_bottom EXCEPT ![c] = hb]
           /\ program_brk' = [program_brk EXCEPT ![c] = brk]
           /\ free' = free \ Owned(as) /\ data' \in [Frames -> Contents]
           /\ tame' = [tame EXCEPT ![c] = ok] /\ UNCHANGED fault
           => IInv'
<1>0. SUFFICES ASSUME
           state[c] = "none", Matches(as, t), Injective(as), Owned(as) \subseteq free,
           hb <= brk, ok => HeapAt(as, floor(hb), ceil(brk)),
           state' = [state EXCEPT ![c] = "live"],
           areas' = [areas EXCEPT ![c] = as], ptes' = [ptes EXCEPT ![c] = t],
           heap_bottom' = [heap_bottom EXCEPT ![c] = hb],
           program_brk' = [program_brk EXCEPT ![c] = brk],
           free' = free \ Owned(as), data' \in [Frames -> Contents],
           tame' = [tame EXCEPT ![c] = ok], UNCHANGED fault
        PROVE IInv'
  OBVIOUS
<1>1. areas[c] = <<>> /\ Owned(areas[c]) = {}
  BY <1>0, NoAreas DEF IInv, Empties
<1>2. Owned(as) \subseteq free \cup Owned(areas[c]) /\ free' = (free \cup Owned(areas[c])) \ Owned(as)
  BY <1>0, <1>1
<1>3. state'[c] = "live" /\ \A q \in Procs : q # c => state'[q] = state[q]
  BY <1>0 DEF IInv, Scalars
<1>4. Vectors' /\ Empties' /\ Tables' /\ OnceIn(areas, free)'
  BY <1>0, <1>2, <1>3, SpaceStep DEF IInv
<1>5. Scalars'
  BY <1>0 DEF IInv, Scalars
<1>6. /\ heap_bottom'[c] = hb /\ program_brk'[c] = brk /\ tame'[c] = ok
      /\ \A q \in Procs : q # c => /\ tame'[q] = tame[q] /\ heap_bottom'[q] = heap_bottom[q]
                                   /\ program_brk'[q] = program_brk[q]
  BY <1>0 DEF IInv, Scalars
<1>7. state'[c] = "live" /\ tame'[c] => HeapAt(as, floor(heap_bottom'[c]), ceil(program_brk'[c]))
  BY <1>0, <1>6
<1>8. areas' = [areas EXCEPT ![c] = as]
  BY <1>0
<1>9. Heaps'
  BY <1>3, <1>6, <1>7, <1>8, HeapStep DEF IInv
<1> QED BY <1>4, <1>5, <1>9 DEF IInv

\* fork keeps the invariant: the child's areas copy the parent's.
LEMMA ForkStep ==
    ASSUME IInv, NEW p \in Procs, NEW c \in Procs, sys_fork(p, c)
    PROVE  IInv'
<1>1. PICK as, cs : as = areas[p] /\ cs = from_existed_user(as)
  OBVIOUS
<1>2. state[p] = "live" /\ state[c] = "none"
  BY DEF sys_fork, CanRun
<1>3. CASE Cardinality(Pages(as)) > Cardinality(free)
  <2>1. Panic("exhausted")
    BY <1>1, <1>3 DEF sys_fork
  <2> QED BY <2>1, PanicStep DEF Faults
<1>4. CASE ~ (Cardinality(Pages(as)) > Cardinality(free))
  <2>1. /\ state' = [state EXCEPT ![c] = "live"]
        /\ areas' = [areas EXCEPT ![c] = cs] /\ ptes' = [ptes EXCEPT ![c] = TableOf(cs)]
        /\ heap_bottom' = [heap_bottom EXCEPT ![c] = heap_bottom[p]]
        /\ program_brk' = [program_brk EXCEPT ![c] = program_brk[p]]
        /\ free' = free \ Owned(cs) /\ data' = CopiedData(ptes[p], cs)
        /\ tame' = [tame EXCEPT ![c] = tame[p]] /\ UNCHANGED fault
    BY <1>1, <1>4 DEF sys_fork
  <2>2. /\ as \in Seq(Area) /\ Disjoint(as) /\ free \subseteq Frames /\ IsFiniteSet(free)
        /\ DOMAIN ptes[p] = Pages(as)
    BY <1>1, <1>2, LiveSpace
  <2>3. /\ cs \in Seq(Area) /\ Injective(cs) /\ Matches(cs, TableOf(cs))
        /\ Owned(cs) \subseteq free /\ Pages(cs) = Pages(as) /\ \E fr : Copies(cs, as, fr)
    BY <1>1, <1>4, <2>2, ForkSpace
  <2>4. data' \in [Frames -> Contents]
    <3>1. ptes[p] \in Table /\ data \in [Frames -> Contents]
      BY DEF IInv, Vectors, Scalars
    <3> QED BY <2>1, <2>2, <2>3, <3>1, CopiedDataTyped
  <2>5. /\ heap_bottom[p] \in Nat /\ program_brk[p] \in Nat /\ heap_bottom[p] <= program_brk[p]
        /\ tame[p] \in BOOLEAN
    BY DEF IInv, Scalars
  <2>6. tame[p] => HeapAt(cs, floor(heap_bottom[p]), ceil(program_brk[p]))
    <3>1. ASSUME tame[p] PROVE HeapAt(as, floor(heap_bottom[p]), ceil(program_brk[p]))
      BY <1>1, <1>2, <3>1 DEF IInv, Heaps
    <3> QED BY <2>3, <3>1, HeapCopied
  <2> QED BY <1>2, <2>1, <2>3, <2>4, <2>5, <2>6, BirthStep
<1> QED BY <1>3, <1>4

\* spawn keeps the invariant: the child starts from an image.
LEMMA SpawnStep ==
    ASSUME IInv, NEW p \in Procs, NEW c \in Procs, NEW app \in Apps, sys_spawn(p, c, app)
    PROVE  IInv'
<1>1. PICK cs : cs = from_elf(app, free)
  OBVIOUS
<1>2. state[p] = "live" /\ state[c] = "none"
  BY DEF sys_spawn, CanRun
<1>3. CASE Cardinality(ElfPages(app)) > Cardinality(free)
  <2>1. Panic("exhausted")
    BY <1>3 DEF sys_spawn
  <2> QED BY <2>1, PanicStep DEF Faults
<1>4. CASE ~ (Cardinality(ElfPages(app)) > Cardinality(free))
  <2>1. /\ state' = [state EXCEPT ![c] = "live"]
        /\ areas' = [areas EXCEPT ![c] = cs] /\ ptes' = [ptes EXCEPT ![c] = TableOf(cs)]
        /\ heap_bottom' = [heap_bottom EXCEPT ![c] = UserSp(app)]
        /\ program_brk' = [program_brk EXCEPT ![c] = UserSp(app)]
        /\ free' = free \ Owned(cs) /\ data' = ElfData(app, cs, data)
        /\ tame' = [tame EXCEPT ![c] = TRUE] /\ UNCHANGED fault
    BY <1>1, <1>4 DEF sys_spawn
  <2>2. free \subseteq Frames /\ IsFiniteSet(free)
    BY <1>2, LiveSpace
  <2>3. /\ cs \in Seq(Area) /\ Injective(cs) /\ Matches(cs, TableOf(cs)) /\ Owned(cs) \subseteq free
        /\ UserSp(app) \in Nat /\ HeapAt(cs, floor(UserSp(app)), ceil(UserSp(app)))
    BY <1>1, <1>4, <2>2, ElfSpace
  <2>4. data' \in [Frames -> Contents]
    BY <2>1, ElfDataTyped DEF IInv, Scalars
  <2>5. UserSp(app) <= UserSp(app)
    BY <2>3
  <2> QED BY <1>2, <2>1, <2>3, <2>4, <2>5, BirthStep
<1> QED BY <1>3, <1>4

\* exec keeps the invariant: the new set is built before the old one goes.
LEMMA ExecStep ==
    ASSUME IInv, NEW p \in Procs, NEW app \in Apps, sys_exec(p, app)
    PROVE  IInv'
<1>1. PICK bs : bs = from_elf(app, free)
  OBVIOUS
<1>2. state[p] = "live"
  BY DEF sys_exec, CanRun
<1>3. CASE Cardinality(ElfPages(app)) > Cardinality(free)
  <2>1. Panic("exhausted")
    BY <1>3 DEF sys_exec
  <2> QED BY <2>1, PanicStep DEF Faults
<1>4. CASE ~ (Cardinality(ElfPages(app)) > Cardinality(free))
  <2>1. /\ areas' = [areas EXCEPT ![p] = bs] /\ ptes' = [ptes EXCEPT ![p] = TableOf(bs)]
        /\ free' = (free \ Owned(bs)) \cup Owned(areas[p])
        /\ data' = ElfData(app, bs, Junked(data, Owned(areas[p])))
        /\ tame' = [tame EXCEPT ![p] = tame[p] /\ heap_bottom[p] = UserSp(app)
                                               /\ program_brk[p] = UserSp(app)]
        /\ UNCHANGED <<state, heap_bottom, program_brk, fault>>
    BY <1>1, <1>4 DEF sys_exec, FreedByExec, Breaks
  <2>2. free \subseteq Frames /\ IsFiniteSet(free) /\ free \cap Owned(areas[p]) = {}
    BY <1>2, LiveSpace
  <2>3. /\ bs \in Seq(Area) /\ Injective(bs) /\ Matches(bs, TableOf(bs)) /\ Owned(bs) \subseteq free
        /\ HeapAt(bs, floor(UserSp(app)), ceil(UserSp(app)))
    BY <1>1, <1>4, <2>2, ElfSpace
  <2>4. data' \in [Frames -> Contents]
    <3>1. Junked(data, Owned(areas[p])) \in [Frames -> Contents]
      BY DEF IInv, Scalars, Junked, Contents
    <3> QED BY <2>1, <3>1, ElfDataTyped
  <2>5. Owned(bs) \subseteq free \cup Owned(areas[p]) /\ free' = (free \cup Owned(areas[p])) \ Owned(bs)
    BY <2>1, <2>2, <2>3
  <2>6. state'[p] = "live" /\ \A q \in Procs : q # p => state'[q] = state[q]
    BY <1>2, <2>1
  <2>7. areas' = [areas EXCEPT ![p] = bs] /\ ptes' = [ptes EXCEPT ![p] = TableOf(bs)]
    BY <2>1
  <2>8. Vectors' /\ Empties' /\ Tables' /\ OnceIn(areas, free)'
    BY <2>3, <2>5, <2>6, <2>7, SpaceStep DEF IInv
  <2>9. /\ tame' \in [Procs -> BOOLEAN]
        /\ tame'[p] => heap_bottom[p] = UserSp(app) /\ program_brk[p] = UserSp(app)
        /\ \A q \in Procs : q # p => tame'[q] = tame[q]
    BY <2>1 DEF IInv, Scalars
  <2>10. Scalars'
    BY <2>1, <2>4, <2>9 DEF IInv, Scalars
  <2>11. tame'[p] => HeapAt(bs, floor(heap_bottom'[p]), ceil(program_brk'[p]))
    BY <2>1, <2>3, <2>9
  <2>12. \A q \in Procs : q # p => heap_bottom'[q] = heap_bottom[q] /\ program_brk'[q] = program_brk[q]
    BY <2>1
  <2>13. Heaps'
    BY <2>6, <2>7, <2>9, <2>11, <2>12, HeapStep DEF IInv
  <2> QED BY <2>8, <2>10, <2>13 DEF IInv
<1> QED BY <1>3, <1>4

\* exit keeps the invariant: every frame of the process is free again.
LEMMA ExitStep ==
    ASSUME IInv, NEW p \in Procs, exit_current(p)
    PROVE  IInv'
<1>1. /\ state' = [state EXCEPT ![p] = "zombie"] /\ areas' = [areas EXCEPT ![p] = <<>>]
      /\ free' = free \cup Owned(areas[p]) /\ data' = Junked(data, Owned(areas[p]))
      /\ UNCHANGED <<ptes, heap_bottom, program_brk, tame, fault>>
  BY DEF exit_current
<1>2. data' \in [Frames -> Contents]
  BY <1>1 DEF IInv, Scalars, Junked, Contents
<1>3. Scalars'
  BY <1>1, <1>2 DEF IInv, Scalars
<1>4. areas \in [Procs -> Seq(Area)] /\ areas' \in [Procs -> Seq(Area)]
  BY <1>1, NoAreas DEF IInv, Vectors
<1>5. Vectors'
  BY <1>1, <1>4 DEF IInv, Vectors
<1>6. /\ areas'[p] = <<>> /\ state'[p] = "zombie"
      /\ \A q \in Procs : q # p => areas'[q] = areas[q] /\ state'[q] = state[q]
  BY <1>1, <1>4 DEF IInv, Scalars
<1>7. Empties'
  BY <1>6 DEF IInv, Empties
<1>8. Tables'
  BY <1>1, <1>6 DEF IInv, Tables
<1>9. OnceIn(areas, free)'
  <2>1. PICK as : as = <<>>
    OBVIOUS
  <2>2. /\ Injective(as) /\ Owned(as) \subseteq free \cup Owned(areas[p])
        /\ areas' = [areas EXCEPT ![p] = as] /\ free' = (free \cup Owned(areas[p])) \ Owned(as)
    <3>1. Injective(as) /\ Owned(as) = {}
      BY <2>1, NoAreas
    <3> QED BY <1>1, <2>1, <3>1
  <2>3. OnceIn(areas', free')
    BY <1>4, <2>2, OnceStep DEF IInv
  <2> QED BY <2>3
<1>10. Heaps'
  <2>1. \A q \in Procs : q # p => /\ state'[q] = state[q] /\ tame'[q] = tame[q]
                                  /\ heap_bottom'[q] = heap_bottom[q] /\ program_brk'[q] = program_brk[q]
    BY <1>1, <1>6
  <2>2. areas' = [areas EXCEPT ![p] = <<>>] /\ ~ (state'[p] = "live")
    BY <1>1, <1>6
  <2> QED BY <2>1, <2>2, HeapStep DEF IInv
<1> QED BY <1>3, <1>5, <1>7, <1>8, <1>9, <1>10 DEF IInv

\* The table of a process that has none.
LEMMA NoTableIsTable == NoTable \in Table
<1>1. NoTable \in [{} -> Entry]
  BY DEF NoTable
<1>2. {} \in SUBSET Vpns
  OBVIOUS
<1> QED BY <1>1, <1>2 DEF Table

\* The parent's wait keeps the invariant.
LEMMA ReapStep ==
    ASSUME IInv, NEW p \in Procs, reap(p)
    PROVE  IInv'
<1>1. /\ state[p] = "zombie" /\ state' = [state EXCEPT ![p] = "none"]
      /\ ptes' = [ptes EXCEPT ![p] = NoTable]
      /\ heap_bottom' = [heap_bottom EXCEPT ![p] = 0] /\ program_brk' = [program_brk EXCEPT ![p] = 0]
      /\ tame' = [tame EXCEPT ![p] = TRUE] /\ UNCHANGED <<areas, free, data, fault>>
  BY DEF reap
<1>2. Scalars'
  BY <1>1 DEF IInv, Scalars
<1>3. Vectors'
  BY <1>1, NoTableIsTable DEF IInv, Vectors
<1>4. /\ state'[p] = "none"
      /\ \A q \in Procs : q # p => /\ state'[q] = state[q] /\ ptes'[q] = ptes[q] /\ tame'[q] = tame[q]
                                   /\ heap_bottom'[q] = heap_bottom[q]
                                   /\ program_brk'[q] = program_brk[q]
  BY <1>1 DEF IInv, Scalars, Vectors
<1>5. areas' = areas /\ areas[p] = <<>>
  BY <1>1 DEF IInv, Empties
<1>6. Empties'
  BY <1>4, <1>5 DEF IInv, Empties
<1>7. Tables'
  BY <1>4, <1>5 DEF IInv, Tables
<1>8. OnceIn(areas, free)'
  BY <1>1 DEF IInv, OnceIn
<1>9. Heaps'
  <2>1. areas' = [areas EXCEPT ![p] = <<>>]
    BY <1>5 DEF IInv, Vectors
  <2> QED BY <1>4, <2>1, HeapStep DEF IInv
<1> QED BY <1>2, <1>3, <1>6, <1>7, <1>8, <1>9 DEF IInv

\* INITPROC, as add_initproc leaves it, satisfies the invariant.
LEMMA InitIInv ==
    ASSUME Init
    PROVE  IInv
<1>1. PICK as : as = from_elf(InitApp, Frames)
  OBVIOUS
<1>2. InitProc \in Procs /\ InitApp \in Apps /\ Frames \subseteq Nat /\ IsFiniteSet(Frames)
  BY Layout
<1>3. ~ (Cardinality(ElfPages(InitApp)) > Cardinality(Frames))
  <2>1. Cardinality(ElfPages(InitApp)) = InitApp + StackPages + 1
    BY <1>2, ElfPagesSize
  <2>2. Cardinality(Frames) \in Nat /\ InitApp \in Nat /\ StackPages \in Nat
    BY <1>2, Layout, FS_CardinalityType
  <2> QED BY <2>1, <2>2, Boots
<1>4. /\ as \in Seq(Area) /\ Injective(as) /\ Matches(as, TableOf(as)) /\ Owned(as) \subseteq Frames
      /\ UserSp(InitApp) \in Nat /\ HeapAt(as, floor(UserSp(InitApp)), ceil(UserSp(InitApp)))
  BY <1>1, <1>2, <1>3, ElfSpace
<1>5. /\ state = [p \in Procs |-> IF p = InitProc THEN "live" ELSE "none"]
      /\ tame = [p \in Procs |-> TRUE] /\ fault = "none"
      /\ areas = [p \in Procs |-> IF p = InitProc THEN as ELSE <<>>]
      /\ ptes = [p \in Procs |-> IF p = InitProc THEN TableOf(as) ELSE NoTable]
      /\ heap_bottom = [p \in Procs |-> IF p = InitProc THEN UserSp(InitApp) ELSE 0]
      /\ program_brk = heap_bottom /\ free = Frames \ Owned(as)
      /\ data = ElfData(InitApp, as, [f \in Frames |-> "junk"])
  BY <1>1 DEF Init
<1>6. Scalars
  <2>1. [f \in Frames |-> "junk"] \in [Frames -> Contents]
    BY DEF Contents
  <2>2. data \in [Frames -> Contents]
    BY <1>5, <2>1, ElfDataTyped
  <2>3. heap_bottom \in [Procs -> Nat] /\ \A p \in Procs : heap_bottom[p] <= program_brk[p]
    BY <1>4, <1>5
  <2> QED BY <1>5, <2>2, <2>3 DEF Scalars, Faults
<1>7. Vectors
  <2>1. TableOf(as) \in Table
    BY <1>4 DEF Matches
  <2> QED BY <1>4, <1>5, <2>1, NoTableIsTable, NoAreas DEF Vectors
<1>8. Empties /\ Tables
  BY <1>2, <1>4, <1>5 DEF Empties, Tables
<1>9. OnceIn(areas, free)
  <2>1. areas[InitProc] = as /\ \A p \in Procs : p # InitProc => areas[p] = <<>> /\ Owned(areas[p]) = {}
    BY <1>2, <1>5, NoAreas
  <2>2. \A p \in Procs : Injective(areas[p])
    BY <1>4, <2>1, <1>5, NoAreas
  <2>3. \A p, q \in Procs : p # q => Owned(areas[p]) \cap Owned(areas[q]) = {}
    BY <2>1
  <2>4. \A f : f \in OwnedByAll(areas) <=> f \in Owned(as)
    <3>1. ASSUME NEW f PROVE f \in OwnedByAll(areas) <=> f \in Owned(as)
      <4>1. (\E p \in Procs : f \in Owned(areas[p])) <=> f \in Owned(as)
        BY <1>2, <2>1
      <4> QED BY <4>1, InOwnedByAll
    <3> QED BY <3>1
  <2>5. free = Frames \ OwnedByAll(areas)
    BY <1>5, <2>4
  <2> QED BY <2>2, <2>3, <2>5 DEF OnceIn, OwnedByAll
<1>10. Heaps
  <2>1. \A p \in Procs : state[p] = "live" => p = InitProc
    BY <1>5
  <2>2. /\ areas[InitProc] = as /\ heap_bottom[InitProc] = UserSp(InitApp)
        /\ program_brk[InitProc] = UserSp(InitApp)
    BY <1>2, <1>5
  <2> QED BY <1>4, <2>1, <2>2 DEF Heaps
<1> QED BY <1>6, <1>7, <1>8, <1>9, <1>10 DEF IInv

\* Every step keeps the invariant.
LEMMA NextStep ==
    ASSUME IInv, [Next]_vars
    PROVE  IInv'
<1>1. CASE Next
  <2>1. ASSUME NEW p \in Procs, NEW v \in StorePages, UserStore(p, v) PROVE IInv'
    BY <2>1, StoreStep
  <2>2. ASSUME NEW p \in Procs, NEW c \in MmapCalls, sys_mmap(p, c) PROVE IInv'
    BY <2>2, MmapStep
  <2>3. ASSUME NEW p \in Procs, NEW c \in MunmapCalls, sys_munmap(p, c) PROVE IInv'
    BY <2>3, MunmapStep
  <2>4. ASSUME NEW p \in Procs, NEW size \in SbrkSizes, sys_sbrk(p, size) PROVE IInv'
    BY <2>4, SbrkStep
  <2>5. ASSUME NEW p \in Procs, NEW c \in Procs, sys_fork(p, c) PROVE IInv'
    BY <2>5, ForkStep
  <2>6. ASSUME NEW p \in Procs, NEW c \in Procs, NEW app \in Apps, sys_spawn(p, c, app) PROVE IInv'
    BY <2>6, SpawnStep
  <2>7. ASSUME NEW p \in Procs, NEW app \in Apps, sys_exec(p, app) PROVE IInv'
    BY <2>7, ExecStep
  <2>8. ASSUME NEW p \in Procs, exit_current(p) PROVE IInv'
    BY <2>8, ExitStep
  <2>9. ASSUME NEW p \in Procs, reap(p) PROVE IInv'
    BY <2>9, ReapStep
  <2>10. CASE Halted
    BY <2>10 DEF Halted, vars, IInv, Scalars, Vectors, Empties, Tables, OnceIn, Heaps, HeapAt
  <2> QED BY <1>1, <2>1, <2>2, <2>3, <2>4, <2>5, <2>6, <2>7, <2>8, <2>9, <2>10 DEF Next, Step
<1>2. CASE UNCHANGED vars
  BY <1>2 DEF vars, IInv, Scalars, Vectors, Empties, Tables, OnceIn, Heaps, HeapAt
<1> QED BY <1>1, <1>2

\* The inductive invariant holds throughout.
LEMMA Invariance == Spec => []IInv
<1>1. Init => IInv
  BY InitIInv
<1>2. IInv /\ [Next]_vars => IInv'
  BY NextStep
<1> QED BY <1>1, <1>2, PTL DEF Spec

\* TypeOK, for every machine size, program set and sequence of calls.
THEOREM SpacesTyped == Spec => []TypeOK
<1>1. ASSUME IInv PROVE TypeOK
  <2>1. ASSUME NEW p \in Procs, NEW i \in DOMAIN areas[p], NEW a, a = areas[p][i]
        PROVE  /\ a.start \in Nat /\ a.end \in Nat /\ a.start <= a.end
               /\ a.perm \in Perms /\ a.frames \in [a.start .. (a.end - 1) -> Frames]
    <3>1. areas[p] \in Seq(Area)
      BY <1>1 DEF IInv, Vectors
    <3>2. a \in Area
      BY <2>1, <3>1, VecMembers
    <3> QED BY <3>2 DEF Area, FrameMaps, VPNRange
  <2>2. ASSUME NEW p \in Procs
        PROVE  /\ DOMAIN ptes[p] \subseteq Vpns
               /\ \A v \in DOMAIN ptes[p] : ptes[p][v] \in [ppn : Frames, perm : Perms]
    <3>1. ptes[p] \in Table
      BY <1>1 DEF IInv, Vectors
    <3> QED BY <3>1 DEF Table, Entry
  <2>3. free \subseteq Frames
    BY <1>1, FreeFrames DEF IInv
  <2> QED BY <1>1, <2>1, <2>2, <2>3 DEF TypeOK, IInv, Scalars
<1> QED BY <1>1, Invariance, PTL

\* PageTableMatchesAreas: map_one and unmap_one keep table and areas in step.
THEOREM TableMatchesAreas == Spec => []PageTableMatchesAreas
<1>1. ASSUME IInv PROVE PageTableMatchesAreas
  <2>1. ASSUME NEW p \in Procs, state[p] = "live"
        PROVE  /\ DOMAIN ptes[p] = Pages(areas[p])
               /\ \A i \in DOMAIN areas[p] : \A v \in DOMAIN areas[p][i].frames :
                     ptes[p][v] = [ppn |-> areas[p][i].frames[v], perm |-> areas[p][i].perm]
               /\ Trampoline \notin DOMAIN ptes[p]
    <3>1. areas[p] \in Seq(Area) /\ Matches(areas[p], ptes[p]) /\ DOMAIN ptes[p] = Pages(areas[p])
      BY <1>1, <2>1, LiveSpace
    <3>2. Trampoline \notin Pages(areas[p])
      BY <3>1, PagesInSpace
    <3> QED BY <3>1, <3>2 DEF Matches
  <2> QED BY <2>1 DEF PageTableMatchesAreas, Live
<1> QED BY <1>1, Invariance, PTL

\* FramesOwnedOnce: no call loses a frame, frees one early or shares one.
THEOREM NoFrameSharedOrLost == Spec => []FramesOwnedOnce
<1>1. ASSUME IInv PROVE FramesOwnedOnce
  BY <1>1, OnceIsFramesOwnedOnce DEF IInv
<1> QED BY <1>1, Invariance, PTL

\* HeapShape: the heap of a process that kept to the contract ends at its break.
THEOREM HeapKeepsShape == Spec => []HeapShape
<1>1. ASSUME IInv PROVE HeapShape
  <2>1. ASSUME NEW p \in Procs, state[p] = "live", tame[p] PROVE HeapShapeOf(p)
    <3>1. PICK as, s, e : as = areas[p] /\ s = floor(heap_bottom[p]) /\ e = ceil(program_brk[p])
      OBVIOUS
    <3>2. HeapAt(as, s, e) /\ as \in Seq(Area)
      BY <1>1, <2>1, <3>1 DEF IInv, Heaps, Vectors
    <3>3. PICK i : FirstAt(as, s, i) /\ as[i].end = e /\ as[i].perm = {"U", "R", "W"}
      BY <3>2, HeapIsFirst
    <3>4. FindArea(as, s) = i /\ FindArea(as, s) # 0
      BY <3>2, <3>3, FindAreaFirst
    <3> QED BY <3>1, <3>3, <3>4 DEF HeapShapeOf
  <2> QED BY <2>1 DEF HeapShape, Live
<1> QED BY <1>1, Invariance, PTL

-----------------------------------------------------------------------------
(* What one step does to the memory that processes see.                    *)

\* Only the entries of p change, and only frames that are free or p's own
\* change their contents.
Confined(p) ==
    /\ \A q \in Procs : q # p => ptes'[q] = ptes[q] /\ state'[q] = state[q]
    /\ \A f \in Frames : f \notin free \cup Owned(areas[p]) => data'[f] = data[f]

\* What p sees afterwards on pages it did not have, as NewPagesClean says.
Fresh(p) ==
    Live(p)' =>
      \/ \E q \in Procs : ~ Live(p) /\ Live(q) /\ View(p)' = View(q)
      \/ \E app \in Apps : View(p)' = [v \in ElfPages(app) |-> ElfContent(app, v)]
      \/ /\ Live(p)
         /\ \A v \in DOMAIN ptes'[p] \ DOMAIN ptes[p] : View(p)'[v] = "zero"

\* A valid entry points at a frame of the process.
LEMMA EntryOwned ==
    ASSUME NEW as, NEW t, Matches(as, t), NEW v, v \in DOMAIN t
    PROVE  t[v].ppn \in Owned(as)
<1>1. v \in Pages(as)
  BY DEF Matches
<1>2. PICK i \in DOMAIN as : v \in DOMAIN as[i].frames
  BY <1>1, InPages
<1>3. t[v].ppn = as[i].frames[v]
  <2>1. t[v] = [ppn |-> as[i].frames[v], perm |-> as[i].perm]
    BY <1>2 DEF Matches
  <2> QED BY <2>1
<1>4. as[i].frames[v] \in Owned(as)
  BY <1>2, InOwned
<1> QED BY <1>3, <1>4

\* A confined step leaves the view of every other running process alone.
LEMMA OthersSeeTheSame ==
    ASSUME IInv, NEW p \in Procs, Confined(p), NEW q \in Procs, q # p, Live(q)
    PROVE  View(q)' = View(q)
<1>1. ptes'[q] = ptes[q]
  BY DEF Confined
<1>2. ASSUME NEW v \in DOMAIN ptes[q] PROVE data'[ptes[q][v].ppn] = data[ptes[q][v].ppn]
  <2>1. Matches(areas[q], ptes[q]) /\ free \cap Owned(areas[q]) = {} /\ Owned(areas[q]) \subseteq Frames
    BY LiveSpace DEF Live
  <2>2. PICK f : f = ptes[q][v].ppn
    OBVIOUS
  <2>3. f \in Owned(areas[q])
    BY <2>1, <2>2, EntryOwned
  <2>4. f \notin Owned(areas[p])
    BY <2>3 DEF IInv, OnceIn
  <2>5. data'[f] = data[f]
    BY <2>1, <2>3, <2>4 DEF Confined
  <2> QED BY <2>2, <2>5
<1> QED BY <1>1, <1>2 DEF View

\* A step that adds no page to p shows it nothing new.
LEMMA NothingNew ==
    ASSUME NEW p \in Procs, Live(p)' => Live(p),
           Live(p) => DOMAIN ptes'[p] \subseteq DOMAIN ptes[p]
    PROVE  Fresh(p)
BY DEF Fresh

\* The pages a step adds to p are pages of cleared frames.
LEMMA NewCleared ==
    ASSUME NEW p \in Procs, Live(p),
           \A v \in DOMAIN ptes'[p] : v \notin DOMAIN ptes[p] => data'[ptes'[p][v].ppn] = "zero"
    PROVE  Fresh(p)
<1>1. \A v \in DOMAIN ptes'[p] : View(p)'[v] = data'[ptes'[p][v].ppn]
  BY DEF View
<1> QED BY <1>1 DEF Fresh

\* A kernel that stops, or a step that is none, touches nothing.
LEMMA StillStep ==
    ASSUME UNCHANGED <<state, ptes, data>>, NEW p \in Procs
    PROVE  Confined(p) /\ Fresh(p)
<1>1. Confined(p)
  BY DEF Confined
<1>2. (Live(p)' => Live(p)) /\ DOMAIN ptes'[p] \subseteq DOMAIN ptes[p]
  BY DEF Live
<1> QED BY <1>1, <1>2, NothingNew

\* A user store reaches only the process's own frames.
LEMMA StoreEffect ==
    ASSUME IInv, NEW p \in Procs, NEW v, UserStore(p, v)
    PROVE  Confined(p) /\ Fresh(p)
<1>1. /\ state[p] = "live" /\ v \in DOMAIN ptes[p] /\ data' = [data EXCEPT ![ptes[p][v].ppn] = "mark"]
      /\ UNCHANGED <<state, ptes>>
  BY DEF UserStore, CanRun
<1>2. ptes[p][v].ppn \in Owned(areas[p])
  BY <1>1, LiveSpace, EntryOwned
<1>3. data \in [Frames -> Contents]
  BY DEF IInv, Scalars
<1>4. Confined(p)
  BY <1>1, <1>2, <1>3 DEF Confined
<1>5. (Live(p)' => Live(p)) /\ DOMAIN ptes'[p] \subseteq DOMAIN ptes[p]
  BY <1>1 DEF Live
<1> QED BY <1>4, <1>5, NothingNew

\* mmap clears the frames it maps and touches no other.
LEMMA MmapEffect ==
    ASSUME IInv, NEW p \in Procs, NEW c \in MmapCalls, sys_mmap(p, c)
    PROVE  Confined(p) /\ Fresh(p)
<1>1. PICK s, e, fr, a : /\ s = StartVpn(c) /\ e = EndVpn(c) /\ fr = AllocFrames(VPNRange(s, e), free)
                         /\ a = MapArea(s, e, PortPerm(c.port), fr)
  OBVIOUS
<1>2. s \in Nat /\ e \in Nat /\ s <= Trampoline
  <2>1. c.start \in Nat /\ c.len \in Nat
    BY Layout
  <2> QED BY <1>1, <2>1, CallPages
<1>3. state[p] = "live"
  BY DEF sys_mmap, CanRun
<1>4. CASE (e < s) \/ Cardinality(VPNRange(s, e)) > Cardinality(free)
  <2>1. Panic("range") \/ Panic("exhausted")
    BY <1>1, <1>4 DEF sys_mmap
  <2>2. UNCHANGED <<state, ptes, data>>
    BY <2>1 DEF Panic
  <2> QED BY <2>2, StillStep
<1>5. CASE ~ (e < s) /\ ~ (Cardinality(VPNRange(s, e)) > Cardinality(free))
  <2>1. /\ ~ check_mapping(p, VPNRange(s, e)) /\ insert_framed_area(p, a)
        /\ data' = Zeroed(Owned(<<a>>)) /\ UNCHANGED state
    BY <1>1, <1>5 DEF sys_mmap
  <2>2. VPNRange(s, e) \cap Mapped(p) = {}
    BY <2>1 DEF check_mapping
  <2>3. s <= e /\ e <= Trampoline /\ PortPerm(c.port) \in Perms
    BY <1>2, <1>5, <2>2, BelowTrampoline, PortPermIsPerm
  <2>4. free \subseteq Frames /\ IsFiniteSet(free)
    BY <1>3, LiveSpace
  <2>5. a \in Area /\ Owned(<<a>>) \subseteq free
    BY <1>1, <1>2, <1>5, <2>3, <2>4, AllocArea
  <2>6. PICK t, G, u : t = Merge(ptes[p], u) /\ G = Owned(<<a>>) /\ u = TableOf(<<a>>)
    OBVIOUS
  <2>7. ptes' = [ptes EXCEPT ![p] = t] /\ data' = Zeroed(G)
    BY <2>1, <2>6 DEF insert_framed_area
  <2>8. ptes'[p] = t /\ \A q \in Procs : q # p => ptes'[q] = ptes[q]
    BY <2>7 DEF IInv, Vectors
  <2>9. \A f \in Frames : data'[f] = IF f \in G THEN "zero" ELSE data[f]
    BY <2>7 DEF Zeroed
  <2>10. Confined(p)
    BY <2>1, <2>5, <2>6, <2>8, <2>9 DEF Confined
  <2>11. ASSUME NEW v \in DOMAIN ptes'[p], v \notin DOMAIN ptes[p] PROVE data'[ptes'[p][v].ppn] = "zero"
    <3>1. v \in DOMAIN u /\ t[v] = u[v]
      BY <2>6, <2>8, <2>11 DEF Merge
    <3>2. DOMAIN u = DOMAIN a.frames /\ u[v] = [ppn |-> a.frames[v], perm |-> a.perm]
      BY <2>6, <3>1, OneArea
    <3>3. a.frames[v] \in G
      <4>1. G = {a.frames[w] : w \in DOMAIN a.frames}
        BY <2>6, OneArea
      <4> QED BY <3>1, <3>2, <4>1
    <3>4. ptes'[p][v].ppn = a.frames[v]
      BY <2>8, <3>1, <3>2
    <3>5. a.frames[v] \in Frames
      BY <2>4, <2>5, <2>6, <3>3
    <3> QED BY <2>9, <3>3, <3>4, <3>5
  <2>12. Fresh(p)
    BY <1>3, <2>11, NewCleared DEF Live
  <2> QED BY <2>10, <2>12
<1> QED BY <1>4, <1>5

\* munmap touches the frames it gives back.
LEMMA MunmapEffect ==
    ASSUME IInv, NEW p \in Procs, NEW c \in MunmapCalls, sys_munmap(p, c)
    PROVE  Confined(p) /\ Fresh(p)
<1>1. state[p] = "live"
  BY DEF sys_munmap, CanRun
<1>2. CASE Panic("range")
  <2>1. UNCHANGED <<state, ptes, data>>
    BY <1>2 DEF Panic
  <2> QED BY <2>1, StillStep
<1>3. CASE munmap_area(p, c) /\ UNCHANGED state
  <2>1. PICK as, hit, gone : /\ as = areas[p] /\ hit = {i \in DOMAIN as : Contains(as[i], c)}
                             /\ gone = [i \in hit |-> as[i]]
    OBVIOUS
  <2>2. ptes' = [ptes EXCEPT ![p] = Without(ptes[p], Pages(gone))] /\ data' = Junked(data, Owned(gone))
    BY <1>3, <2>1, Zenon DEF munmap_area
  <2>3. Owned(gone) \subseteq Owned(as)
    <3>1. ASSUME NEW f \in Owned(gone) PROVE f \in Owned(as)
      <4>1. PICK i \in DOMAIN gone : \E v \in DOMAIN gone[i].frames : f = gone[i].frames[v]
        BY OwnedBy
      <4>2. i \in DOMAIN as /\ gone[i] = as[i]
        BY <2>1, <4>1
      <4>3. PICK v \in DOMAIN as[i].frames : f = as[i].frames[v]
        BY <4>1, <4>2
      <4> QED BY <4>2, <4>3, InOwned
    <3> QED BY <3>1
  <2>4. PICK t, G : t = Without(ptes[p], Pages(gone)) /\ G = Owned(gone)
    OBVIOUS
  <2>5. ptes'[p] = t /\ \A q \in Procs : q # p => ptes'[q] = ptes[q]
    BY <2>2, <2>4 DEF IInv, Vectors
  <2>6. \A f \in Frames : f \notin G => data'[f] = data[f]
    BY <2>2, <2>4 DEF Junked
  <2>7. Confined(p)
    BY <1>3, <2>1, <2>3, <2>4, <2>5, <2>6 DEF Confined
  <2>8. (Live(p)' => Live(p)) /\ DOMAIN ptes'[p] \subseteq DOMAIN ptes[p]
    BY <1>3, <2>4, <2>5 DEF Live, Without
  <2> QED BY <2>7, <2>8, NothingNew
<1> QED BY <1>2, <1>3 DEF sys_munmap

\* shrink_to touches the frames it gives back.
LEMMA ShrinkEffect ==
    ASSUME IInv, NEW p \in Procs, NEW i, NEW brk \in Nat, state[p] = "live",
           FirstAt(areas[p], floor(heap_bottom[p]), i), heap_bottom[p] <= brk,
           shrink_to(p, i, ceil(brk))
    PROVE  Confined(p) /\ Fresh(p)
<1>1. PICK as, a, e, V : as = areas[p] /\ a = as[i] /\ e = ceil(brk) /\ V = VPNRange(e, a.end)
  OBVIOUS
<1>2. CASE e > a.end
  <2>1. UNCHANGED <<state, ptes, data>>
    BY <1>1, <1>2 DEF shrink_to, Panic
  <2> QED BY <2>1, StillStep
<1>3. CASE ~ (e > a.end)
  <2>1. PICK G, t : G = Taken(a.frames, V) /\ t = Without(ptes[p], V)
    OBVIOUS
  <2>2. ptes' = [ptes EXCEPT ![p] = t] /\ data' = Junked(data, G) /\ UNCHANGED state
    BY <1>1, <1>3, <2>1 DEF shrink_to, Taken
  <2>3. i \in DOMAIN as /\ a.start = floor(heap_bottom[p])
    BY <1>1 DEF FirstAt
  <2>4. a \in Area /\ a.start \in Nat /\ a.end \in Nat /\ DOMAIN a.frames = VPNRange(a.start, a.end)
    <3>1. as \in Seq(Area)
      BY <1>1 DEF IInv, Vectors
    <3> QED BY <1>1, <2>3, <3>1, VecMembers, AreaFields
  <2>5. e \in Nat /\ a.start <= e
    <3>1. ceil(brk) \in Nat /\ floor(heap_bottom[p]) <= ceil(brk)
      BY PageNumbers DEF IInv, Scalars
    <3> QED BY <1>1, <2>3, <3>1
  <2>6. V \subseteq DOMAIN a.frames
    BY <1>1, <2>4, <2>5 DEF VPNRange
  <2>7. ASSUME NEW f \in G PROVE f \in Owned(areas[p])
    <3>1. PICK v \in V : f = a.frames[v]
      BY <2>1 DEF Taken
    <3>2. i \in DOMAIN as /\ v \in DOMAIN as[i].frames /\ f = as[i].frames[v]
      BY <1>1, <2>3, <2>6, <3>1
    <3>3. as[i].frames[v] \in Owned(as)
      BY <3>2, InOwned
    <3> QED BY <1>1, <3>2, <3>3
  <2>8. ptes'[p] = t /\ \A q \in Procs : q # p => ptes'[q] = ptes[q]
    BY <2>2 DEF IInv, Vectors
  <2>9. \A f \in Frames : f \notin G => data'[f] = data[f]
    BY <2>2 DEF Junked
  <2>10. Confined(p)
    BY <2>2, <2>7, <2>8, <2>9 DEF Confined
  <2>11. (Live(p)' => Live(p)) /\ DOMAIN ptes'[p] \subseteq DOMAIN ptes[p]
    BY <2>1, <2>2, <2>8 DEF Live, Without
  <2> QED BY <2>10, <2>11, NothingNew
<1> QED BY <1>2, <1>3

\* append_to clears the frames it takes and touches no other.
LEMMA AppendEffect ==
    ASSUME IInv, NEW p \in Procs, NEW i, NEW brk \in Nat, state[p] = "live",
           FirstAt(areas[p], floor(heap_bottom[p]), i), append_to(p, i, ceil(brk))
    PROVE  Confined(p) /\ Fresh(p)
<1>1. PICK as, a, e, V : as = areas[p] /\ a = as[i] /\ e = ceil(brk) /\ V = VPNRange(a.end, e)
  OBVIOUS
<1>2. /\ as \in Seq(Area) /\ i \in DOMAIN as /\ a \in Area /\ a.start \in Nat /\ a.end \in Nat
      /\ a.start <= a.end /\ DOMAIN a.frames = VPNRange(a.start, a.end) /\ e \in Nat
  <2>1. as \in Seq(Area) /\ i \in DOMAIN as
    BY <1>1 DEF IInv, Vectors, FirstAt
  <2> QED BY <1>1, <2>1, VecMembers, AreaFields, PageNumbers
<1>3. CASE UNCHANGED <<state, ptes, data>>
  BY <1>3, StillStep
<1>4. CASE ~ (e < a.end) /\ V \cap Mapped(p) = {} /\ ~ (Cardinality(V) > Cardinality(free))
  <2>1. PICK fr, b, u, t, G : /\ fr = AllocFrames(V, free)
                              /\ b = MapArea(a.start, e, a.perm, Merge(a.frames, fr))
                              /\ u = TableOf(<<b>>) /\ t = Merge(ptes[p], u) /\ G = Taken(fr, V)
    OBVIOUS
  <2>2. ptes' = [ptes EXCEPT ![p] = t] /\ data' = Zeroed(G) /\ UNCHANGED state
    BY <1>1, <1>4, <2>1 DEF append_to, Taken
  <2>3. fr \in [V -> free]
    <3>1. V \in SUBSET Int /\ IsFiniteSet(V)
      BY <1>1, <1>2, RangeSet
    <3>2. free \in SUBSET Int /\ IsFiniteSet(free)
      BY LiveSpace
    <3>3. Cardinality(V) \in Nat /\ Cardinality(free) \in Nat
      BY <3>1, <3>2, FS_CardinalityType
    <3>4. Cardinality(V) <= Cardinality(free)
      BY <1>4, <3>3
    <3> QED BY <2>1, <3>1, <3>2, <3>4, AllocDistinct
  <2>4. G \subseteq free /\ free \subseteq Frames
    <3>1. free \subseteq Frames
      BY LiveSpace
    <3> QED BY <2>1, <2>3, <3>1 DEF Taken
  <2>5. ptes'[p] = t /\ \A q \in Procs : q # p => ptes'[q] = ptes[q]
    BY <2>2 DEF IInv, Vectors
  <2>6. \A f \in Frames : data'[f] = IF f \in G THEN "zero" ELSE data[f]
    BY <2>2 DEF Zeroed
  <2>7. Confined(p)
    BY <2>2, <2>4, <2>5, <2>6 DEF Confined
  <2>8. ASSUME NEW v \in DOMAIN ptes'[p], v \notin DOMAIN ptes[p] PROVE data'[ptes'[p][v].ppn] = "zero"
    <3>1. v \in DOMAIN u /\ t[v] = u[v]
      BY <2>1, <2>5, <2>8 DEF Merge
    <3>2. v \in DOMAIN b.frames /\ u[v] = [ppn |-> b.frames[v], perm |-> b.perm]
      BY <2>1, <3>1, OneArea
    <3>3. v \in VPNRange(a.start, e) /\ b.frames[v] = Merge(a.frames, fr)[v]
      BY <2>1, <3>2 DEF MapArea
    <3>4. v \notin VPNRange(a.start, a.end)
      <4>1. DOMAIN ptes[p] = Pages(as)
        BY <1>1, LiveSpace
      <4>2. v \notin DOMAIN as[i].frames
        BY <1>2, <2>8, <4>1, InPages
      <4> QED BY <1>1, <1>2, <4>2
    <3>5. v \in V
      BY <1>1, <1>2, <3>3, <3>4 DEF VPNRange
    <3>6. Merge(a.frames, fr)[v] = fr[v] /\ fr[v] \in G
      <4>1. DOMAIN fr = V
        BY <2>3
      <4> QED BY <2>1, <3>5, <4>1 DEF Merge, Taken
    <3>7. ptes'[p][v].ppn = fr[v]
      BY <2>5, <3>1, <3>2, <3>3, <3>6
    <3>8. fr[v] \in Frames
      BY <2>4, <3>6
    <3> QED BY <2>6, <3>6, <3>7, <3>8
  <2>9. Fresh(p)
    BY <2>8, NewCleared DEF Live
  <2> QED BY <2>7, <2>9
<1>5. CASE ~ (~ (e < a.end) /\ V \cap Mapped(p) = {} /\ ~ (Cardinality(V) > Cardinality(free)))
  <2>1. Panic("range") \/ Panic("mapped") \/ Panic("exhausted")
    <3>1. CASE e < a.end
      BY <1>1, <3>1 DEF append_to
    <3>2. CASE e >= a.end /\ V \cap Mapped(p) # {}
      BY <1>1, <3>2 DEF append_to
    <3>3. CASE e >= a.end /\ V \cap Mapped(p) = {} /\ Cardinality(V) > Cardinality(free)
      BY <1>1, <3>3 DEF append_to
    <3> QED BY <1>2, <1>5, <3>1, <3>2, <3>3
  <2>2. UNCHANGED <<state, ptes, data>>
    BY <2>1 DEF Panic
  <2> QED BY <1>3, <2>2
<1> QED BY <1>4, <1>5

\* sbrk is one of the two.
LEMMA SbrkEffect ==
    ASSUME IInv, NEW p \in Procs, NEW size \in SbrkSizes, sys_sbrk(p, size)
    PROVE  Confined(p) /\ Fresh(p)
<1>1. PICK i, brk : i = FindArea(areas[p], floor(heap_bottom[p])) /\ brk = program_brk[p] + size
  OBVIOUS
<1>2. state[p] = "live" /\ heap_bottom[p] <= brk /\ brk \in Nat
  <2>1. heap_bottom[p] \in Nat /\ program_brk[p] \in Nat /\ size \in Int
    BY Layout DEF IInv, Scalars
  <2>2. state[p] = "live" /\ brk >= heap_bottom[p]
    BY <1>1 DEF sys_sbrk, CanRun
  <2> QED BY <1>1, <2>1, <2>2
<1>3. FirstAt(areas[p], floor(heap_bottom[p]), i)
  <2>1. areas[p] \in Seq(Area)
    BY DEF IInv, Vectors
  <2>2. i # 0
    BY <1>1 DEF sys_sbrk
  <2> QED BY <1>1, <2>1, <2>2, FindAreaFirst
<1>4. shrink_to(p, i, ceil(brk)) \/ append_to(p, i, ceil(brk))
  BY <1>1 DEF sys_sbrk
<1> QED BY <1>2, <1>3, <1>4, ShrinkEffect, AppendEffect

\* The frame in an entry is the one the area tracks for the page.
Backs(f, v, t) == t[v].ppn = f

\* So it is, for every page of every area.
LEMMA EntryFrame ==
    ASSUME NEW as, NEW t, Matches(as, t), NEW i \in DOMAIN as, NEW v \in DOMAIN as[i].frames
    PROVE  Backs(as[i].frames[v], v, t)
<1>1. t[v] = [ppn |-> as[i].frames[v], perm |-> as[i].perm]
  BY DEF Matches
<1> QED BY <1>1 DEF Backs

\* Two pages of a process never share a frame in its table either.
LEMMA EntriesDistinct ==
    ASSUME NEW as, NEW t, Matches(as, t), Injective(as),
           NEW v \in Pages(as), NEW w \in Pages(as), t[v].ppn = t[w].ppn
    PROVE  v = w
<1>1. PICK i \in DOMAIN as : v \in DOMAIN as[i].frames
  BY InPages
<1>2. PICK j \in DOMAIN as : w \in DOMAIN as[j].frames
  BY InPages
<1>3. Backs(as[i].frames[v], v, t) /\ Backs(as[j].frames[w], w, t)
  BY <1>1, <1>2, EntryFrame
<1>4. as[i].frames[v] = as[j].frames[w]
  BY <1>3 DEF Backs
<1>5. i = j
  BY <1>1, <1>2, <1>4, InjectiveAt
<1> QED BY <1>1, <1>2, <1>4, <1>5, InjectivePage

\* The page that a copy finds behind a frame.
Finds(as, t, f, v) == (CHOOSE w \in Pages(as) : t[w].ppn = f) = v

\* It is the page that maps the frame.
LEMMA BackedAt ==
    ASSUME NEW as, NEW t, Matches(as, t), Injective(as), NEW v \in Pages(as), NEW f, Backs(f, v, t)
    PROVE  Finds(as, t, f, v)
<1>1. PICK x : x = CHOOSE w \in Pages(as) : t[w].ppn = f
  OBVIOUS
<1>2. t[v].ppn = f
  BY DEF Backs
<1>3. x \in Pages(as) /\ t[x].ppn = f
  BY <1>1, <1>2, Zenon
<1>4. x = v
  BY <1>2, <1>3, EntriesDistinct
<1> QED BY <1>1, <1>4 DEF Finds

\* What a reader of page v finds in memory D.
Shows(D, t, v, x) == D[t[v].ppn] = x

\* Each page of a new program shows its part of the image.
LEMMA ElfSeen ==
    ASSUME NEW app, NEW D, NEW as \in Seq(Area), NEW t, Matches(as, t), Injective(as),
           NEW v \in Pages(as), t = TableOf(as)
    PROVE  Shows(ElfData(app, as, D), t, v, ElfContent(app, v))
<1>1. PICK f : f = t[v].ppn
  OBVIOUS
<1>2. f \in Owned(as) /\ f \in Frames
  <2>1. v \in DOMAIN t
    BY DEF Matches
  <2>2. t[v].ppn \in Owned(as)
    BY <2>1, EntryOwned
  <2> QED BY <1>1, <2>2, PagesInSpace
<1>3. Finds(as, t, f, v)
  BY <1>1, BackedAt DEF Backs
<1>4. ElfData(app, as, D)[f] = ElfContent(app, v)
  BY <1>2, <1>3 DEF ElfData, Finds
<1> QED BY <1>1, <1>4 DEF Shows

\* Each page of a forked process shows what the parent's page showed.
LEMMA CopySeen ==
    ASSUME NEW src, NEW cs \in Seq(Area), NEW t, Matches(cs, t), Injective(cs),
           NEW v \in Pages(cs), t = TableOf(cs)
    PROVE  Shows(CopiedData(src, cs), t, v, data[src[v].ppn])
<1>1. PICK f : f = t[v].ppn
  OBVIOUS
<1>2. f \in Owned(cs) /\ f \in Frames
  <2>1. v \in DOMAIN t
    BY DEF Matches
  <2>2. t[v].ppn \in Owned(cs)
    BY <2>1, EntryOwned
  <2> QED BY <1>1, <2>2, PagesInSpace
<1>3. Finds(cs, t, f, v)
  BY <1>1, BackedAt DEF Backs
<1>4. CopiedData(src, cs)[f] = data[src[v].ppn]
  BY <1>2, <1>3 DEF CopiedData, Finds
<1> QED BY <1>1, <1>4 DEF Shows

\* fork touches free frames only, and shows the child its parent's memory.
LEMMA ForkEffect ==
    ASSUME IInv, NEW p \in Procs, NEW c \in Procs, sys_fork(p, c)
    PROVE  Confined(c) /\ Fresh(c)
<1>1. PICK as, cs, t : as = areas[p] /\ cs = from_existed_user(as) /\ t = TableOf(cs)
  OBVIOUS
<1>2. state[p] = "live" /\ state[c] = "none"
  BY DEF sys_fork, CanRun
<1>3. CASE Cardinality(Pages(as)) > Cardinality(free)
  <2>1. UNCHANGED <<state, ptes, data>>
    BY <1>1, <1>3 DEF sys_fork, Panic
  <2> QED BY <2>1, StillStep
<1>4. CASE ~ (Cardinality(Pages(as)) > Cardinality(free))
  <2>1. /\ state' = [state EXCEPT ![c] = "live"] /\ ptes' = [ptes EXCEPT ![c] = t]
        /\ data' = CopiedData(ptes[p], cs)
    BY <1>1, <1>4 DEF sys_fork
  <2>2. /\ as \in Seq(Area) /\ Disjoint(as) /\ free \subseteq Frames /\ IsFiniteSet(free)
        /\ DOMAIN ptes[p] = Pages(as)
    BY <1>1, <1>2, LiveSpace
  <2>3. /\ cs \in Seq(Area) /\ Injective(cs) /\ Matches(cs, t)
        /\ Owned(cs) \subseteq free /\ Pages(cs) = Pages(as)
    BY <1>1, <1>4, <2>2, ForkSpace
  <2>4. ptes'[c] = t /\ \A q \in Procs : q # c => ptes'[q] = ptes[q] /\ state'[q] = state[q]
    BY <2>1 DEF IInv, Vectors, Scalars
  <2>5. \A f \in Frames : f \notin Owned(cs) => data'[f] = data[f]
    BY <2>1 DEF CopiedData
  <2>6. Confined(c)
    BY <2>3, <2>4, <2>5 DEF Confined
  <2>7. DOMAIN ptes'[c] = DOMAIN ptes[p]
    BY <2>2, <2>3, <2>4 DEF Matches
  <2>8. ASSUME NEW v \in DOMAIN ptes[p] PROVE data'[ptes'[c][v].ppn] = data[ptes[p][v].ppn]
    <3>1. PICK src : src = ptes[p]
      OBVIOUS
    <3>2. v \in Pages(cs)
      BY <2>2, <2>3
    <3>3. Shows(CopiedData(src, cs), t, v, data[src[v].ppn])
      BY <1>1, <2>3, <3>2, CopySeen
    <3> QED BY <2>1, <2>4, <3>1, <3>3 DEF Shows
  <2>9. View(c)' = View(p)
    BY <2>7, <2>8 DEF View
  <2>10. ~ Live(c) /\ Live(p)
    BY <1>2 DEF Live
  <2> QED BY <2>6, <2>9, <2>10 DEF Fresh
<1> QED BY <1>3, <1>4

\* The view of a process on the address space of a new program.
LEMMA ElfView ==
    ASSUME NEW p \in Procs, NEW app \in Apps, NEW as \in Seq(Area), NEW D, NEW t, t = TableOf(as),
           Matches(as, t), Injective(as), Pages(as) = ElfPages(app),
           ptes'[p] = t, data' = ElfData(app, as, D)
    PROVE  Fresh(p)
<1>1. DOMAIN t = ElfPages(app)
  BY DEF Matches
<1>2. \A v \in Pages(as) : Shows(ElfData(app, as, D), t, v, ElfContent(app, v))
  BY ElfSeen
<1>3. \A v \in ElfPages(app) : data'[t[v].ppn] = ElfContent(app, v)
  BY <1>2 DEF Shows
<1>4. View(p)' = [v \in ElfPages(app) |-> ElfContent(app, v)]
  BY <1>1, <1>3 DEF View
<1> QED BY <1>4 DEF Fresh

\* spawn touches free frames only, and shows the child the program.
LEMMA SpawnEffect ==
    ASSUME IInv, NEW p \in Procs, NEW c \in Procs, NEW app \in Apps, sys_spawn(p, c, app)
    PROVE  Confined(c) /\ Fresh(c)
<1>1. PICK cs, t, D : cs = from_elf(app, free) /\ t = TableOf(cs) /\ D = data
  OBVIOUS
<1>2. state[p] = "live"
  BY DEF sys_spawn, CanRun
<1>3. CASE Cardinality(ElfPages(app)) > Cardinality(free)
  <2>1. UNCHANGED <<state, ptes, data>>
    BY <1>3 DEF sys_spawn, Panic
  <2> QED BY <2>1, StillStep
<1>4. CASE ~ (Cardinality(ElfPages(app)) > Cardinality(free))
  <2>1. /\ state' = [state EXCEPT ![c] = "live"] /\ ptes' = [ptes EXCEPT ![c] = t]
        /\ data' = ElfData(app, cs, D)
    BY <1>1, <1>4 DEF sys_spawn
  <2>2. free \subseteq Frames /\ IsFiniteSet(free)
    BY <1>2, LiveSpace
  <2>3. /\ cs \in Seq(Area) /\ Injective(cs) /\ Matches(cs, t) /\ Owned(cs) \subseteq free
        /\ Pages(cs) = ElfPages(app)
    BY <1>1, <1>4, <2>2, ElfSpace
  <2>4. ptes'[c] = t /\ \A q \in Procs : q # c => ptes'[q] = ptes[q] /\ state'[q] = state[q]
    BY <2>1 DEF IInv, Vectors, Scalars
  <2>5. \A f \in Frames : f \notin Owned(cs) => data'[f] = data[f]
    BY <1>1, <2>1 DEF ElfData
  <2>6. Confined(c)
    BY <2>3, <2>4, <2>5 DEF Confined
  <2>7. Fresh(c)
    BY <1>1, <2>1, <2>3, <2>4, ElfView
  <2> QED BY <2>6, <2>7
<1> QED BY <1>3, <1>4

\* exec touches free frames and the caller's old ones, and shows the program.
LEMMA ExecEffect ==
    ASSUME IInv, NEW p \in Procs, NEW app \in Apps, sys_exec(p, app)
    PROVE  Confined(p) /\ Fresh(p)
<1>1. PICK bs, t, D : /\ bs = from_elf(app, free) /\ t = TableOf(bs)
                      /\ D = Junked(data, Owned(areas[p]))
  OBVIOUS
<1>2. state[p] = "live"
  BY DEF sys_exec, CanRun
<1>3. CASE Cardinality(ElfPages(app)) > Cardinality(free)
  <2>1. UNCHANGED <<state, ptes, data>>
    BY <1>3 DEF sys_exec, Panic
  <2> QED BY <2>1, StillStep
<1>4. CASE ~ (Cardinality(ElfPages(app)) > Cardinality(free))
  <2>1. ptes' = [ptes EXCEPT ![p] = t] /\ data' = ElfData(app, bs, D) /\ UNCHANGED state
    BY <1>1, <1>4 DEF sys_exec
  <2>2. free \subseteq Frames /\ IsFiniteSet(free)
    BY <1>2, LiveSpace
  <2>3. /\ bs \in Seq(Area) /\ Injective(bs) /\ Matches(bs, t) /\ Owned(bs) \subseteq free
        /\ Pages(bs) = ElfPages(app)
    BY <1>1, <1>4, <2>2, ElfSpace
  <2>4. ptes'[p] = t /\ \A q \in Procs : q # p => ptes'[q] = ptes[q]
    BY <2>1 DEF IInv, Vectors
  <2>5. \A f \in Frames : f \notin Owned(bs) => data'[f] = D[f]
    BY <2>1 DEF ElfData
  <2>6. \A f \in Frames : f \notin Owned(areas[p]) => D[f] = data[f]
    BY <1>1 DEF Junked
  <2>7. Confined(p)
    BY <2>1, <2>3, <2>4, <2>5, <2>6 DEF Confined
  <2>8. Fresh(p)
    BY <1>1, <2>1, <2>3, <2>4, ElfView
  <2> QED BY <2>7, <2>8
<1> QED BY <1>3, <1>4

\* exit and wait touch only what was the process's own.
LEMMA EndEffect ==
    ASSUME IInv, NEW p \in Procs, exit_current(p) \/ reap(p)
    PROVE  Confined(p) /\ Fresh(p)
<1>1. state' = [state EXCEPT ![p] = "zombie"] \/ state' = [state EXCEPT ![p] = "none"]
  BY DEF exit_current, reap
<1>2. state'[p] # "live" /\ \A q \in Procs : q # p => state'[q] = state[q]
  BY <1>1 DEF IInv, Scalars
<1>3. \A q \in Procs : q # p => ptes'[q] = ptes[q]
  <2>1. ptes' = ptes \/ ptes' = [ptes EXCEPT ![p] = NoTable]
    BY DEF exit_current, reap
  <2> QED BY <2>1 DEF IInv, Vectors
<1>4. \A f \in Frames : f \notin Owned(areas[p]) => data'[f] = data[f]
  <2>1. data' = data \/ data' = Junked(data, Owned(areas[p]))
    BY DEF exit_current, reap
  <2> QED BY <2>1 DEF Junked
<1>5. Confined(p)
  BY <1>2, <1>3, <1>4 DEF Confined
<1>6. Fresh(p)
  BY <1>2 DEF Fresh, Live
<1> QED BY <1>5, <1>6

\* Who may be touched by a step: the process that takes it, or one that is
\* not running before it (a new child, a zombie).
Actor(p) == Step(p) \/ ~ Live(p) \/ UNCHANGED vars

\* Every step is confined to such a process.
LEMMA StepEffect ==
    ASSUME IInv, [Next]_vars
    PROVE  \E p \in Procs : Confined(p) /\ Fresh(p) /\ Actor(p)
<1>1. ASSUME NEW p \in Procs, Step(p) PROVE \E r \in Procs : Confined(r) /\ Fresh(r) /\ Actor(r)
  <2>0. Actor(p)
    BY <1>1 DEF Actor
  <2>1. ASSUME NEW v \in StorePages, UserStore(p, v) PROVE Confined(p) /\ Fresh(p)
    BY <2>1, StoreEffect
  <2>2. ASSUME NEW c \in MmapCalls, sys_mmap(p, c) PROVE Confined(p) /\ Fresh(p)
    BY <2>2, MmapEffect
  <2>3. ASSUME NEW c \in MunmapCalls, sys_munmap(p, c) PROVE Confined(p) /\ Fresh(p)
    BY <2>3, MunmapEffect
  <2>4. ASSUME NEW size \in SbrkSizes, sys_sbrk(p, size) PROVE Confined(p) /\ Fresh(p)
    BY <2>4, SbrkEffect
  <2>5. ASSUME NEW c \in Procs, sys_fork(p, c) PROVE Confined(c) /\ Fresh(c) /\ Actor(c)
    <3>1. ~ Live(c)
      BY <2>5 DEF sys_fork, Live
    <3> QED BY <2>5, <3>1, ForkEffect DEF Actor
  <2>6. ASSUME NEW c \in Procs, NEW app \in Apps, sys_spawn(p, c, app)
        PROVE  Confined(c) /\ Fresh(c) /\ Actor(c)
    <3>1. ~ Live(c)
      BY <2>6 DEF sys_spawn, Live
    <3> QED BY <2>6, <3>1, SpawnEffect DEF Actor
  <2>7. ASSUME NEW app \in Apps, sys_exec(p, app) PROVE Confined(p) /\ Fresh(p)
    BY <2>7, ExecEffect
  <2>8. ASSUME exit_current(p) PROVE Confined(p) /\ Fresh(p)
    BY <2>8, EndEffect
  <2> QED BY <1>1, <2>0, <2>1, <2>2, <2>3, <2>4, <2>5, <2>6, <2>7, <2>8 DEF Step
<1>2. ASSUME NEW p \in Procs, reap(p) PROVE Confined(p) /\ Fresh(p) /\ Actor(p)
  <2>1. ~ Live(p)
    BY <1>2 DEF reap, Live
  <2> QED BY <1>2, <2>1, EndEffect DEF Actor
<1>3. ASSUME UNCHANGED vars PROVE Confined(InitProc) /\ Fresh(InitProc) /\ Actor(InitProc)
  <2>1. UNCHANGED <<state, ptes, data>> /\ InitProc \in Procs
    BY <1>3, Layout DEF vars
  <2>2. Actor(InitProc)
    BY <1>3 DEF Actor
  <2> QED BY <2>1, <2>2, StillStep
<1>4. InitProc \in Procs
  BY Layout
<1>5. Halted => UNCHANGED vars
  BY DEF Halted
<1> QED BY <1>1, <1>2, <1>3, <1>4, <1>5 DEF Next

\* MemoryIsolated: what a running process sees changes only by a step of its
\* own; no store and no call of another process reaches it.
THEOREM ProcessesIsolated == Spec => MemoryIsolated
<1>1. ASSUME IInv, [Next]_vars, ~ UNCHANGED vars,
             NEW q \in Procs, Live(q), View(q)' # View(q)
      PROVE  Step(q)
  <2>1. PICK r \in Procs : Confined(r) /\ Actor(r)
    BY <1>1, StepEffect
  <2>2. q = r
    BY <1>1, <2>1, OthersSeeTheSame
  <2> QED BY <1>1, <2>1, <2>2 DEF Actor
<1>2. IInv /\ [Next]_vars =>
        [\A q \in Procs : Live(q) /\ Live(q)' /\ View(q)' # View(q) => Step(q)]_vars
  BY <1>1
<1> QED BY <1>2, Invariance, PTL DEF Spec, MemoryIsolated

\* NewPagesClean: a page appears only cleared, as a program's image or, in a
\* new process, as the copy of its parent's.
THEOREM PagesArriveClean == Spec => NewPagesClean
<1>1. ASSUME IInv, [Next]_vars, NEW p \in Procs PROVE Fresh(p)
  <2>1. PICK r \in Procs : Confined(r) /\ Fresh(r)
    BY <1>1, StepEffect
  <2>2. CASE p = r
    BY <2>1, <2>2
  <2>3. CASE p # r
    <3>1. ptes'[p] = ptes[p] /\ state'[p] = state[p]
      BY <2>1, <2>3 DEF Confined
    <3>2. (Live(p)' => Live(p)) /\ DOMAIN ptes'[p] \subseteq DOMAIN ptes[p]
      BY <3>1 DEF Live
    <3> QED BY <3>2, NothingNew
  <2> QED BY <2>2, <2>3
<1>2. IInv /\ [Next]_vars =>
        [\A p \in Procs : Live(p)' =>
          \/ \E q \in Procs : ~ Live(p) /\ Live(q) /\ View(p)' = View(q)
          \/ \E app \in Apps : View(p)' = [v \in ElfPages(app) |-> ElfContent(app, v)]
          \/ /\ Live(p)
             /\ \A v \in DOMAIN ptes'[p] \ DOMAIN ptes[p] : View(p)'[v] = "zero"]_vars
  BY <1>1 DEF Fresh
<1> QED BY <1>2, Invariance, PTL DEF Spec, NewPagesClean
=============================================================================
