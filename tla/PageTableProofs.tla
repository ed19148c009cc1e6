--------------------------- MODULE PageTableProofs ---------------------------
(***************************************************************************)
(* Proofs about PageTable for any set of frames, any fan-out, any pages    *)
(* and flags, and whatever words user code leaves behind.  First the       *)
(* arithmetic of entries, tokens and indexes, then what it means that a    *)
(* memory holds a tree and how one store changes it, the inductive         *)
(* invariant IInv with one lemma per operation, and the refinement of      *)
(* FlatTable.  Then, for any page size, page table, buffer and file, the   *)
(* loops of UserIO that reach user memory page by page, with the inductive *)
(* invariant IOInv.  The two specifications share no name.                 *)
(***************************************************************************)
EXTENDS PageTable, UserIO, FiniteSetTheorems, FunctionTheorems, WellFoundedInduction, TLAPS

-----------------------------------------------------------------------------
(* Arithmetic.                                                             *)

\* Quotient and remainder are what multiplication says they are.
LEMMA DivMod ==
    ASSUME NEW n \in Nat \ {0}, NEW q \in Nat, NEW r \in Nat, r < n
    PROVE  (q * n + r) \div n = q /\ (q * n + r) % n = r
<1>1. PICK x \in Nat : x = q * n + r
  OBVIOUS
<1>2. PICK d \in Nat, e \in Nat : d = x \div n /\ e = x % n /\ x = n * d + e /\ e < n
  OBVIOUS
<1>3. CASE d < q
  <2>1. PICK c \in Nat : q = d + 1 + c
    <3>1. q - (d + 1) \in Nat /\ q = d + 1 + (q - (d + 1))
      BY <1>3
    <3> QED BY <3>1
  <2>2. n * c \in Nat /\ q * n = n * d + n + n * c
    BY <2>1
  <2> QED BY <1>1, <1>2, <2>2
<1>4. CASE q < d
  <2>1. PICK c \in Nat : d = q + 1 + c
    <3>1. d - (q + 1) \in Nat /\ d = q + 1 + (d - (q + 1))
      BY <1>4
    <3> QED BY <3>1
  <2>2. n * c \in Nat /\ n * d = q * n + n + n * c
    BY <2>1
  <2> QED BY <1>1, <1>2, <2>2
<1>5. CASE d = q
  <2>1. n * d = q * n
    BY <1>5
  <2>2. e = r
    BY <1>1, <1>2, <2>1
  <2> QED BY <1>1, <1>2, <1>5, <2>2
<1> QED BY <1>3, <1>4, <1>5

\* An entry names its frame, and is valid, whatever its other flags.
LEMMA PteFields ==
    ASSUME NEW f \in Frames, NEW fl \in MapFlags \cup {0}
    PROVE  /\ PteNew(f, fl + V) \in Nat /\ ppn(PteNew(f, fl + V)) = f
           /\ is_valid(PteNew(f, fl + V))
<1>1. f \in Nat /\ f < PpnSpan /\ PpnSpan \in Nat \ {0}
  BY Widths
<1>2. PICK k \in 0 .. 127 : fl = 2 * k
  BY Widths
<1>3. PICK e : e = f * 1024 + (2 * k + 1)
  OBVIOUS
<1>4. PteNew(f, fl + V) = e /\ e \in Nat
  BY <1>1, <1>2, <1>3 DEF PteNew, V
<1>5. e \div 1024 = f
  BY <1>1, <1>3
<1>6. e % 256 = 2 * k + 1
  BY <1>1, <1>3
<1>7. (2 * k + 1) % 2 = 1
  OBVIOUS
<1>8. f % PpnSpan = f
  <2>1. (0 * PpnSpan + f) % PpnSpan = f
    BY <1>1, DivMod
  <2>2. 0 * PpnSpan + f = f
    BY <1>1
  <2> QED BY <2>1, <2>2
<1> QED BY <1>4, <1>5, <1>6, <1>7, <1>8 DEF ppn, is_valid, flags

\* A level entry is such an entry, a cleared word is none.
LEMMA LevelFields ==
    ASSUME NEW f \in Frames
    PROVE  LevelPte(f) \in Nat /\ ppn(LevelPte(f)) = f /\ is_valid(LevelPte(f))
<1>1. 0 + V = V
  BY DEF V
<1>2. PteNew(f, 0 + V) \in Nat /\ ppn(PteNew(f, 0 + V)) = f /\ is_valid(PteNew(f, 0 + V))
  BY PteFields
<1> QED BY <1>1, <1>2 DEF LevelPte

\* A cleared word is not a valid entry (FrameTracker::new clears frames).
LEMMA ZeroInvalid == ~ is_valid(0)
BY DEF is_valid, flags

\* from_token takes the root out of the token again.
LEMMA TokenRoot ==
    ASSUME NEW t \in Tables, root[t] \in Frames
    PROVE  from_token(token(t)) = root[t]
<1>1. PICK r : r = root[t]
  OBVIOUS
<1>2. r \in Nat /\ r < PpnSpan /\ PpnSpan \in Nat \ {0}
  <2>1. r \in 0 .. (PpnSpan - 1) /\ PpnSpan \in Nat
    BY <1>1, Widths
  <2> QED BY <2>1
<1>3. (524288 * PpnSpan + r) % PpnSpan = r
  BY <1>2, DivMod
<1>4. token(t) = 524288 * PpnSpan + r
  BY <1>1, <1>2 DEF token
<1> QED BY <1>1, <1>3, <1>4 DEF from_token

\* indexes are the three digits of the page number.
Digits(v, i, j, k) == /\ i \in Slots /\ j \in Slots /\ k \in Slots
                      /\ indexes(v) = <<i, j, k>>
                      /\ v = (i * Fan + j) * Fan + k

\* VirtPageNum::indexes finds the three digits, each a slot of a table.
LEMMA IndexesDigits ==
    ASSUME NEW v \in MapVpns
    PROVE  \E i, j, k \in Slots : Digits(v, i, j, k)
<1>0. PICK n : n = Fan
  OBVIOUS
<1>1. n \in Nat \ {0} /\ v \in Nat /\ v < n * n * n
  BY <1>0, Widths
<1>2. PICK q \in Nat, k \in Nat : q = v \div n /\ k = v % n /\ v = q * n + k /\ k < n
  BY <1>1
<1>3. PICK i \in Nat, j \in Nat : i = q \div n /\ j = q % n /\ q = i * n + j /\ j < n
  BY <1>1
<1>4. n * n \in Nat \ {0} /\ j * n + k \in Nat /\ j * n + k < n * n
  <2>1. PICK c \in Nat : n = j + 1 + c
    <3>1. n - (j + 1) \in Nat /\ n = j + 1 + (n - (j + 1))
      BY <1>1, <1>3
    <3> QED BY <3>1
  <2>2. c * n \in Nat /\ j * n \in Nat
    BY <1>1
  <2>3. (j + 1 + c) * n = j * n + n + c * n
    BY <1>1
  <2>4. n * n = j * n + n + c * n
    BY <2>1, <2>3
  <2> QED BY <1>1, <1>2, <1>3, <2>2, <2>4
<1>5. v = i * (n * n) + (j * n + k)
  <2>0. (i * n + j) * n = i * (n * n) + j * n
    BY <1>1
  <2>1. q * n = i * (n * n) + j * n
    BY <1>3, <2>0
  <2> QED BY <1>1, <1>2, <1>3, <2>1
<1>6. v \div (n * n) = i
  BY <1>1, <1>4, <1>5, DivMod
<1>7. i < n
  <2>1. CASE i >= n
    <3>1. PICK c \in Nat : i = n + c
      <4>1. i - n \in Nat /\ i = n + (i - n)
        BY <1>1, <1>3, <2>1
      <4> QED BY <4>1
    <3>2. i * (n * n) = n * n * n + c * (n * n) /\ c * (n * n) \in Nat /\ n * n * n \in Nat
      BY <1>1, <3>1
    <3> QED BY <1>1, <1>4, <1>5, <3>2
  <2> QED BY <1>1, <1>3, <2>1
<1>8. i % n = i
  <2>1. (0 * n + i) % n = i
    BY <1>1, <1>7, DivMod
  <2>2. 0 * n + i = i
    BY <1>1
  <2> QED BY <2>1, <2>2
<1>9. i \in Slots /\ j \in Slots /\ k \in Slots
  BY <1>0, <1>1, <1>2, <1>3, <1>7 DEF Slots
<1>10. indexes(v) = <<i, j, k>>
  BY <1>0, <1>2, <1>3, <1>6, <1>8 DEF indexes
<1> QED BY <1>0, <1>2, <1>3, <1>9, <1>10 DEF Digits

\* Two pages with the same indexes are one page.
LEMMA IndexesOne ==
    ASSUME NEW v \in MapVpns, NEW w \in MapVpns, indexes(v) = indexes(w)
    PROVE  v = w
<1>1. PICK i \in Slots, j \in Slots, k \in Slots : Digits(v, i, j, k)
  BY IndexesDigits
<1>2. PICK a \in Slots, b \in Slots, c \in Slots : Digits(w, a, b, c)
  BY IndexesDigits
<1>3. i = a /\ j = b /\ k = c
  <2>1. <<i, j, k>> = <<a, b, c>>
    BY <1>1, <1>2 DEF Digits
  <2> QED BY <2>1
<1> QED BY <1>1, <1>2, <1>3 DEF Digits

\* The lowest member of a set of frames.
LEMMA LowestIn ==
    ASSUME NEW S, S \subseteq Nat, S # {}
    PROVE  Lowest(S) \in S
<1>1. PICK x \in S : \A y \in S : ~ (<<y, x>> \in OpToRel(<, Nat))
  BY NatLessThanWellFounded, WFMin
<1>2. OpToRel(<, Nat) = {ss \in Nat \X Nat : ss[1] < ss[2]}
  BY DEF OpToRel
<1>3. ASSUME NEW y \in S PROVE x <= y
  <2>1. x \in Nat /\ y \in Nat
    OBVIOUS
  <2>2. ~ (y < x)
    BY <1>1, <1>2, <2>1
  <2> QED BY <2>1, <2>2
<1> QED BY <1>3 DEF Lowest
-----------------------------------------------------------------------------
(* Trees.  The table with root R, as the memory m shows it, has the frames *)
(* F and the pages D.                                                      *)

Memories == [Frames -> [Slots -> Nat]]

HasMid(m, R, i) == is_valid(m[R][i])
MidOf(m, R, i) == ppn(m[R][i])
HasLeaf(m, R, i, j) == HasMid(m, R, i) /\ is_valid(m[MidOf(m, R, i)][j])
LeafOf(m, R, i, j) == ppn(m[MidOf(m, R, i)][j])

\* The entries lead to frames of the table ...
Inside(R, F, m) ==
    /\ R \in F
    /\ \A i \in Slots : HasMid(m, R, i) => MidOf(m, R, i) \in F /\ MidOf(m, R, i) # R
    /\ \A i, j \in Slots : HasLeaf(m, R, i, j) => LeafOf(m, R, i, j) \in F /\ LeafOf(m, R, i, j) # R

\* ... each to another one ...
Apart(R, m) ==
    /\ \A i, k, l \in Slots : HasMid(m, R, i) /\ HasLeaf(m, R, k, l) => MidOf(m, R, i) # LeafOf(m, R, k, l)
    /\ \A i, k \in Slots : HasMid(m, R, i) /\ HasMid(m, R, k) /\ MidOf(m, R, i) = MidOf(m, R, k) => i = k
    /\ \A i, j, k, l \in Slots : HasLeaf(m, R, i, j) /\ HasLeaf(m, R, k, l)
                                 /\ LeafOf(m, R, i, j) = LeafOf(m, R, k, l) => i = k /\ j = l

\* ... and to all of them.
Covers(R, F, m) ==
    \A f \in F : \/ f = R
                 \/ \E i \in Slots : HasMid(m, R, i) /\ f = MidOf(m, R, i)
                 \/ \E i, j \in Slots : HasLeaf(m, R, i, j) /\ f = LeafOf(m, R, i, j)

\* The valid entries of the lowest level are those of the pages.
Listed(R, D, m) ==
    \A i, j, k \in Slots : HasLeaf(m, R, i, j) /\ is_valid(m[LeafOf(m, R, i, j)][k]) =>
       \E v \in DOMAIN D : indexes(v) = <<i, j, k>>

Shows(R, m, v, f) ==
    \A i, j, k \in Slots : indexes(v) = <<i, j, k>> =>
       HasLeaf(m, R, i, j) /\ \E fl \in MapFlags : m[LeafOf(m, R, i, j)][k] = PteNew(f, fl + V)

Paged(R, D, m) == \A v \in DOMAIN D : Shows(R, m, v, D[v])

Tree(R, F, D, m) == Inside(R, F, m) /\ Apart(R, m) /\ Covers(R, F, m) /\ Listed(R, D, m) /\ Paged(R, D, m)

\* What m shows at the lowest level, m2 shows.
KeepsEntries(R, m, m2) ==
    \A i, j \in Slots : HasLeaf(m, R, i, j) =>
       /\ HasLeaf(m2, R, i, j) /\ LeafOf(m2, R, i, j) = LeafOf(m, R, i, j)
       /\ \A k \in Slots : m2[LeafOf(m, R, i, j)][k] = m[LeafOf(m, R, i, j)][k]

\* A table does not notice what happens outside its frames.
Agree(F, m, m2) == \A f \in F : m2[f] = m[f]

\* A table is the same tree, with the same entries, in any memory that agrees
\* on its frames.
LEMMA TreeKept ==
    ASSUME NEW R, NEW F, NEW D, NEW m, NEW m2, Tree(R, F, D, m), Agree(F, m, m2)
    PROVE  Tree(R, F, D, m2) /\ KeepsEntries(R, m, m2)
<1>1. m2[R] = m[R]
  BY DEF Tree, Inside, Agree
<1>2. ASSUME NEW i \in Slots
      PROVE  /\ HasMid(m2, R, i) <=> HasMid(m, R, i)
             /\ MidOf(m2, R, i) = MidOf(m, R, i)
             /\ HasMid(m, R, i) => m2[MidOf(m, R, i)] = m[MidOf(m, R, i)]
  <2>1. (HasMid(m2, R, i) <=> HasMid(m, R, i)) /\ MidOf(m2, R, i) = MidOf(m, R, i)
    BY <1>1 DEF HasMid, MidOf
  <2>2. HasMid(m, R, i) => MidOf(m, R, i) \in F
    BY DEF Tree, Inside
  <2> QED BY <2>1, <2>2 DEF Agree
<1>3. ASSUME NEW i \in Slots, NEW j \in Slots
      PROVE  /\ HasLeaf(m2, R, i, j) <=> HasLeaf(m, R, i, j)
             /\ HasLeaf(m, R, i, j) => /\ LeafOf(m2, R, i, j) = LeafOf(m, R, i, j)
                                       /\ m2[LeafOf(m, R, i, j)] = m[LeafOf(m, R, i, j)]
  <2>1. (HasLeaf(m2, R, i, j) <=> HasLeaf(m, R, i, j))
        /\ (HasLeaf(m, R, i, j) => LeafOf(m2, R, i, j) = LeafOf(m, R, i, j))
    BY <1>2 DEF HasLeaf, LeafOf
  <2>2. HasLeaf(m, R, i, j) => LeafOf(m, R, i, j) \in F
    BY DEF Tree, Inside
  <2> QED BY <2>1, <2>2 DEF Agree
<1>4. Inside(R, F, m2)
  BY <1>2, <1>3 DEF Tree, Inside
<1>5. Apart(R, m2)
  BY <1>2, <1>3 DEF Tree, Apart
<1>6. Covers(R, F, m2)
  BY <1>2, <1>3 DEF Tree, Covers
<1>7. Listed(R, D, m2)
  BY <1>3 DEF Tree, Listed
<1>8. Paged(R, D, m2)
  BY <1>3 DEF Tree, Paged, Shows
<1>9. KeepsEntries(R, m, m2)
  BY <1>3 DEF KeepsEntries
<1> QED BY <1>4, <1>5, <1>6, <1>7, <1>8, <1>9 DEF Tree

\* A cleared root is a table without pages.
LEMMA EmptyTree ==
    ASSUME NEW R, NEW D, NEW m, \A s \in Slots : m[R][s] = 0, DOMAIN D = {}
    PROVE  Tree(R, {R}, D, m)
<1>1. \A i \in Slots : ~ HasMid(m, R, i)
  BY ZeroInvalid DEF HasMid
<1>2. \A i, j \in Slots : ~ HasLeaf(m, R, i, j)
  BY <1>1 DEF HasLeaf
<1> QED BY <1>1, <1>2 DEF Tree, Inside, Apart, Covers, Listed, Paged

\* find_pte_create adds a second level: the cleared frame f at slot i.
NewMid(R, F, m, m2, i, f) ==
    /\ m2[R][i] = LevelPte(f)
    /\ \A s \in Slots : m2[f][s] = 0
    /\ \A g \in F, s \in Slots : ~ (g = R /\ s = i) => m2[g][s] = m[g][s]

\* Slot i leads to the empty second level f.
LeadsTo(R, m, i, f) == HasMid(m, R, i) /\ MidOf(m, R, i) = f /\ \A j \in Slots : ~ HasLeaf(m, R, i, j)

\* Then the table is a tree with one more frame and the same entries.
LEMMA AddMid ==
    ASSUME NEW R, NEW F, NEW D, NEW m, NEW m2, Tree(R, F, D, m),
           NEW i \in Slots, ~ HasMid(m, R, i), NEW f \in Frames, f \notin F, NewMid(R, F, m, m2, i, f)
    PROVE  Tree(R, F \cup {f}, D, m2) /\ KeepsEntries(R, m, m2) /\ LeadsTo(R, m2, i, f)
<1>0. R \in F /\ f # R
  BY DEF Tree, Inside
<1>1. HasMid(m2, R, i) /\ MidOf(m2, R, i) = f
  BY LevelFields DEF NewMid, HasMid, MidOf
<1>2. ASSUME NEW k \in Slots, k # i
      PROVE  (HasMid(m2, R, k) <=> HasMid(m, R, k)) /\ MidOf(m2, R, k) = MidOf(m, R, k)
  BY <1>0, <1>2 DEF NewMid, HasMid, MidOf
<1>3. ASSUME NEW l \in Slots PROVE ~ HasLeaf(m2, R, i, l) /\ ~ HasLeaf(m, R, i, l)
  BY <1>1, ZeroInvalid DEF NewMid, HasLeaf
<1>4. ASSUME NEW k \in Slots, k # i, HasMid(m, R, k), NEW l \in Slots
      PROVE  m2[MidOf(m, R, k)][l] = m[MidOf(m, R, k)][l]
  <2>1. MidOf(m, R, k) \in F /\ MidOf(m, R, k) # R
    BY <1>4 DEF Tree, Inside
  <2> QED BY <2>1 DEF NewMid
<1>5. ASSUME NEW k \in Slots, NEW l \in Slots
      PROVE  /\ HasLeaf(m2, R, k, l) <=> HasLeaf(m, R, k, l)
             /\ HasLeaf(m, R, k, l) => LeafOf(m2, R, k, l) = LeafOf(m, R, k, l)
  <2>1. CASE k = i
    BY <1>3, <2>1
  <2>2. CASE k # i
    BY <1>2, <1>4, <2>2 DEF HasLeaf, LeafOf
  <2> QED BY <2>1, <2>2
<1>6. ASSUME NEW k \in Slots, NEW l \in Slots, HasLeaf(m, R, k, l), NEW s \in Slots
      PROVE  m2[LeafOf(m, R, k, l)][s] = m[LeafOf(m, R, k, l)][s]
  <2>1. LeafOf(m, R, k, l) \in F /\ LeafOf(m, R, k, l) # R
    BY <1>6 DEF Tree, Inside
  <2> QED BY <2>1 DEF NewMid
<1>7. Inside(R, F \cup {f}, m2)
  BY <1>0, <1>1, <1>2, <1>5 DEF Tree, Inside
<1>8. Apart(R, m2)
  <2>1. ASSUME NEW a \in Slots, NEW k \in Slots, NEW l \in Slots, HasMid(m2, R, a), HasLeaf(m2, R, k, l)
        PROVE  MidOf(m2, R, a) # LeafOf(m2, R, k, l)
    <3>1. LeafOf(m2, R, k, l) = LeafOf(m, R, k, l) /\ HasLeaf(m, R, k, l) /\ LeafOf(m, R, k, l) \in F
      BY <1>5, <2>1 DEF Tree, Inside
    <3>2. CASE a = i
      BY <1>1, <3>1, <3>2
    <3>3. CASE a # i
      BY <1>2, <2>1, <3>1, <3>3 DEF Tree, Apart
    <3> QED BY <3>2, <3>3
  <2>2. ASSUME NEW a \in Slots, NEW k \in Slots, HasMid(m2, R, a), HasMid(m2, R, k), MidOf(m2, R, a) = MidOf(m2, R, k)
        PROVE  a = k
    <3>1. ASSUME NEW b \in Slots, b # i, HasMid(m2, R, b) PROVE MidOf(m2, R, b) \in F
      BY <1>2, <3>1 DEF Tree, Inside
    <3>2. CASE a # i /\ k # i
      BY <1>2, <2>2, <3>2 DEF Tree, Apart
    <3> QED BY <1>1, <2>2, <3>1, <3>2
  <2>3. ASSUME NEW a \in Slots, NEW b \in Slots, NEW k \in Slots, NEW l \in Slots, HasLeaf(m2, R, a, b), HasLeaf(m2, R, k, l),
               LeafOf(m2, R, a, b) = LeafOf(m2, R, k, l)
        PROVE  a = k /\ b = l
    BY <1>5, <2>3 DEF Tree, Apart
  <2> QED BY <2>1, <2>2, <2>3 DEF Apart
<1>9. Covers(R, F \cup {f}, m2)
  <2>1. ASSUME NEW g \in F
        PROVE  \/ g = R
               \/ \E k \in Slots : HasMid(m2, R, k) /\ g = MidOf(m2, R, k)
               \/ \E k, l \in Slots : HasLeaf(m2, R, k, l) /\ g = LeafOf(m2, R, k, l)
    <3>1. CASE g = R
      BY <3>1
    <3>2. CASE \E k \in Slots : HasMid(m, R, k) /\ g = MidOf(m, R, k)
      BY <1>2, <3>2
    <3>3. CASE \E k, l \in Slots : HasLeaf(m, R, k, l) /\ g = LeafOf(m, R, k, l)
      BY <1>5, <3>3
    <3> QED BY <3>1, <3>2, <3>3 DEF Tree, Covers
  <2> QED BY <1>1, <2>1 DEF Covers
<1>10. Listed(R, D, m2)
  BY <1>5, <1>6 DEF Tree, Listed
<1>11. Paged(R, D, m2)
  BY <1>5, <1>6 DEF Tree, Paged, Shows
<1>12. KeepsEntries(R, m, m2)
  BY <1>5, <1>6 DEF KeepsEntries
<1> QED BY <1>1, <1>3, <1>7, <1>8, <1>9, <1>10, <1>11, <1>12 DEF Tree, LeadsTo

\* find_pte_create adds a third level: the cleared frame f at slots i and j.
NewLeaf(R, F, m, m2, i, j, f) ==
    /\ m2[MidOf(m, R, i)][j] = LevelPte(f)
    /\ \A s \in Slots : m2[f][s] = 0
    /\ \A g \in F, s \in Slots : ~ (g = MidOf(m, R, i) /\ s = j) => m2[g][s] = m[g][s]

\* Slots i and j lead to the empty third level f.
EndsAt(R, m, i, j, f) ==
    HasLeaf(m, R, i, j) /\ LeafOf(m, R, i, j) = f /\ \A k \in Slots : ~ is_valid(m[f][k])

\* Then the table is a tree with one more frame and the same entries.
LEMMA AddLeaf ==
    ASSUME NEW R, NEW F, NEW D, NEW m, NEW m2, Tree(R, F, D, m), NEW i \in Slots, NEW j \in Slots,
           HasMid(m, R, i), ~ HasLeaf(m, R, i, j), NEW f \in Frames, f \notin F, NewLeaf(R, F, m, m2, i, j, f)
    PROVE  Tree(R, F \cup {f}, D, m2) /\ KeepsEntries(R, m, m2) /\ EndsAt(R, m2, i, j, f)
<1>0. R \in F /\ f # R /\ MidOf(m, R, i) \in F /\ MidOf(m, R, i) # R
  BY DEF Tree, Inside
<1>1. ASSUME NEW k \in Slots
      PROVE  (HasMid(m2, R, k) <=> HasMid(m, R, k)) /\ MidOf(m2, R, k) = MidOf(m, R, k)
  BY <1>0 DEF NewLeaf, HasMid, MidOf
<1>2. HasLeaf(m2, R, i, j) /\ LeafOf(m2, R, i, j) = f
  BY <1>1, LevelFields DEF NewLeaf, HasLeaf, LeafOf
<1>3. ASSUME NEW k \in Slots, HasMid(m, R, k), NEW l \in Slots, ~ (k = i /\ l = j)
      PROVE  m2[MidOf(m, R, k)][l] = m[MidOf(m, R, k)][l]
  <2>1. MidOf(m, R, k) \in F
    BY <1>3 DEF Tree, Inside
  <2>2. MidOf(m, R, k) = MidOf(m, R, i) => k = i
    BY <1>3 DEF Tree, Apart
  <2> QED BY <1>3, <2>1, <2>2 DEF NewLeaf
<1>4. ASSUME NEW k \in Slots, NEW l \in Slots, ~ (k = i /\ l = j)
      PROVE  /\ HasLeaf(m2, R, k, l) <=> HasLeaf(m, R, k, l)
             /\ HasLeaf(m, R, k, l) => LeafOf(m2, R, k, l) = LeafOf(m, R, k, l)
  BY <1>1, <1>3, <1>4 DEF HasLeaf, LeafOf
<1>5. ASSUME NEW k \in Slots, NEW l \in Slots, HasLeaf(m, R, k, l), NEW s \in Slots
      PROVE  /\ HasLeaf(m2, R, k, l) /\ LeafOf(m2, R, k, l) = LeafOf(m, R, k, l)
             /\ m2[LeafOf(m, R, k, l)][s] = m[LeafOf(m, R, k, l)][s]
  <2>1. ~ (k = i /\ l = j)
    BY <1>5
  <2>2. LeafOf(m, R, k, l) \in F /\ LeafOf(m, R, k, l) # MidOf(m, R, i)
    BY <1>5 DEF Tree, Inside, Apart
  <2> QED BY <1>4, <1>5, <2>1, <2>2 DEF NewLeaf
<1>6. ASSUME NEW k \in Slots, NEW l \in Slots, HasLeaf(m2, R, k, l)
      PROVE  (k = i /\ l = j) \/ (HasLeaf(m, R, k, l) /\ LeafOf(m2, R, k, l) = LeafOf(m, R, k, l)
                                   /\ LeafOf(m, R, k, l) \in F /\ LeafOf(m, R, k, l) # R)
  BY <1>4, <1>6 DEF Tree, Inside
<1>7. Inside(R, F \cup {f}, m2)
  BY <1>0, <1>1, <1>2, <1>6 DEF Tree, Inside
<1>8. Apart(R, m2)
  <2>1. ASSUME NEW a \in Slots, NEW k \in Slots, NEW l \in Slots, HasMid(m2, R, a), HasLeaf(m2, R, k, l)
        PROVE  MidOf(m2, R, a) # LeafOf(m2, R, k, l)
    <3>1. HasMid(m, R, a) /\ MidOf(m2, R, a) = MidOf(m, R, a) /\ MidOf(m, R, a) \in F
      BY <1>1, <2>1 DEF Tree, Inside
    <3>2. CASE k = i /\ l = j
      BY <1>2, <3>1, <3>2
    <3>3. CASE HasLeaf(m, R, k, l) /\ LeafOf(m2, R, k, l) = LeafOf(m, R, k, l)
      BY <3>1, <3>3 DEF Tree, Apart
    <3> QED BY <1>6, <2>1, <3>2, <3>3
  <2>2. ASSUME NEW a \in Slots, NEW k \in Slots, HasMid(m2, R, a), HasMid(m2, R, k), MidOf(m2, R, a) = MidOf(m2, R, k)
        PROVE  a = k
    BY <1>1, <2>2 DEF Tree, Apart
  <2>3. ASSUME NEW a \in Slots, NEW b \in Slots, NEW k \in Slots, NEW l \in Slots, HasLeaf(m2, R, a, b), HasLeaf(m2, R, k, l),
               LeafOf(m2, R, a, b) = LeafOf(m2, R, k, l)
        PROVE  a = k /\ b = l
    <3>1. CASE (a = i /\ b = j) \/ (k = i /\ l = j)
      BY <1>2, <1>6, <2>3, <3>1
    <3>2. CASE ~ (a = i /\ b = j) /\ ~ (k = i /\ l = j)
      BY <1>6, <2>3, <3>2 DEF Tree, Apart
    <3> QED BY <3>1, <3>2
  <2> QED BY <2>1, <2>2, <2>3 DEF Apart
<1>9. Covers(R, F \cup {f}, m2)
  <2>1. ASSUME NEW g \in F
        PROVE  \/ g = R
               \/ \E k \in Slots : HasMid(m2, R, k) /\ g = MidOf(m2, R, k)
               \/ \E k, l \in Slots : HasLeaf(m2, R, k, l) /\ g = LeafOf(m2, R, k, l)
    <3>1. CASE g = R
      BY <3>1
    <3>2. CASE \E k \in Slots : HasMid(m, R, k) /\ g = MidOf(m, R, k)
      BY <1>1, <3>2
    <3>3. CASE \E k, l \in Slots : HasLeaf(m, R, k, l) /\ g = LeafOf(m, R, k, l)
      BY <1>5, <3>3
    <3> QED BY <3>1, <3>2, <3>3 DEF Tree, Covers
  <2> QED BY <1>2, <2>1 DEF Covers
<1>10. \A k \in Slots : ~ is_valid(m2[f][k])
  BY ZeroInvalid DEF NewLeaf
<1>11. Listed(R, D, m2)
  <2>1. ASSUME NEW a \in Slots, NEW b \in Slots, NEW k \in Slots, HasLeaf(m2, R, a, b), is_valid(m2[LeafOf(m2, R, a, b)][k])
        PROVE  \E v \in DOMAIN D : indexes(v) = <<a, b, k>>
    <3>1. HasLeaf(m, R, a, b) /\ LeafOf(m2, R, a, b) = LeafOf(m, R, a, b)
      BY <1>2, <1>6, <1>10, <2>1
    <3> QED BY <1>5, <2>1, <3>1 DEF Tree, Listed
  <2> QED BY <2>1 DEF Listed
<1>12. Paged(R, D, m2)
  BY <1>5 DEF Tree, Paged, Shows
<1>13. KeepsEntries(R, m, m2)
  BY <1>5 DEF KeepsEntries
<1> QED BY <1>2, <1>7, <1>8, <1>9, <1>10, <1>11, <1>12, <1>13 DEF Tree, EndsAt

\* A store to the entry k of the third level at slots i and j.
LeafStore(R, F, m, m2, i, j, k, w) ==
    /\ HasLeaf(m, R, i, j)
    /\ m2[LeafOf(m, R, i, j)][k] = w
    /\ \A g \in F, s \in Slots : ~ (g = LeafOf(m, R, i, j) /\ s = k) => m2[g][s] = m[g][s]

\* All entries but that of page v are what they were.
KeepsOthers(R, m, m2, v) ==
    \A i, j, k \in Slots : HasLeaf(m, R, i, j) /\ indexes(v) # <<i, j, k>> =>
       /\ HasLeaf(m2, R, i, j) /\ LeafOf(m2, R, i, j) = LeafOf(m, R, i, j)
       /\ m2[LeafOf(m, R, i, j)][k] = m[LeafOf(m, R, i, j)][k]

\* The same ways lead to the same frames.
SameShape(R, m, m2) ==
    /\ \A i \in Slots : (HasMid(m2, R, i) <=> HasMid(m, R, i)) /\ MidOf(m2, R, i) = MidOf(m, R, i)
    /\ \A i, j \in Slots : /\ HasLeaf(m2, R, i, j) <=> HasLeaf(m, R, i, j)
                           /\ HasLeaf(m, R, i, j) => LeafOf(m2, R, i, j) = LeafOf(m, R, i, j)

\* It leaves the shape of the tree and the other entries alone.
LEMMA LeafStoreShape ==
    ASSUME NEW R, NEW F, NEW D, NEW m, NEW m2, Tree(R, F, D, m), NEW i \in Slots, NEW j \in Slots,
           NEW k \in Slots, NEW w, LeafStore(R, F, m, m2, i, j, k, w), NEW v, indexes(v) = <<i, j, k>>
    PROVE  /\ Inside(R, F, m2) /\ Apart(R, m2) /\ Covers(R, F, m2)
           /\ SameShape(R, m, m2) /\ KeepsOthers(R, m, m2, v)
<1>0. R \in F /\ LeafOf(m, R, i, j) \in F /\ LeafOf(m, R, i, j) # R
  BY DEF Tree, Inside, LeafStore
<1>1. ASSUME NEW a \in Slots
      PROVE  (HasMid(m2, R, a) <=> HasMid(m, R, a)) /\ MidOf(m2, R, a) = MidOf(m, R, a)
  BY <1>0 DEF LeafStore, HasMid, MidOf
<1>2. ASSUME NEW a \in Slots, HasMid(m, R, a), NEW b \in Slots
      PROVE  m2[MidOf(m, R, a)][b] = m[MidOf(m, R, a)][b]
  <2>1. MidOf(m, R, a) \in F /\ MidOf(m, R, a) # LeafOf(m, R, i, j)
    BY <1>2 DEF Tree, Inside, Apart, LeafStore
  <2> QED BY <2>1 DEF LeafStore
<1>3. ASSUME NEW a \in Slots, NEW b \in Slots
      PROVE  /\ HasLeaf(m2, R, a, b) <=> HasLeaf(m, R, a, b)
             /\ HasLeaf(m, R, a, b) => LeafOf(m2, R, a, b) = LeafOf(m, R, a, b)
  BY <1>1, <1>2 DEF HasLeaf, LeafOf
<1>4. ASSUME NEW a \in Slots, NEW b \in Slots, NEW c \in Slots, HasLeaf(m, R, a, b), indexes(v) # <<a, b, c>>
      PROVE  m2[LeafOf(m, R, a, b)][c] = m[LeafOf(m, R, a, b)][c]
  <2>1. LeafOf(m, R, a, b) \in F
    BY <1>4 DEF Tree, Inside
  <2>2. ~ (LeafOf(m, R, a, b) = LeafOf(m, R, i, j) /\ c = k)
    <3>1. ~ (a = i /\ b = j /\ c = k)
      BY <1>4
    <3> QED BY <1>4, <3>1 DEF Tree, Apart, LeafStore
  <2> QED BY <2>1, <2>2 DEF LeafStore
<1>5. SameShape(R, m, m2)
  BY <1>1, <1>3 DEF SameShape
<1>6. KeepsOthers(R, m, m2, v)
  BY <1>3, <1>4 DEF KeepsOthers
<1>7. Inside(R, F, m2)
  BY <1>1, <1>3 DEF Tree, Inside
<1>8. Apart(R, m2)
  BY <1>1, <1>3 DEF Tree, Apart
<1>9. Covers(R, F, m2)
  BY <1>1, <1>3 DEF Tree, Covers
<1> QED BY <1>5, <1>6, <1>7, <1>8, <1>9

\* PageTable::map stores the entry of a page that was not there.
Gains(D, D2, v, d) == /\ v \notin DOMAIN D /\ DOMAIN D2 = DOMAIN D \cup {v}
                      /\ D2[v] = d /\ \A x \in DOMAIN D : D2[x] = D[x]

\* Then the table is a tree with one more page; the others keep their entries.
LEMMA SetEntry ==
    ASSUME NEW R, NEW F, NEW D, NEW m, NEW m2, Tree(R, F, D, m), NEW i \in Slots, NEW j \in Slots,
           NEW k \in Slots, NEW d, NEW fl \in MapFlags, LeafStore(R, F, m, m2, i, j, k, PteNew(d, fl + V)),
           NEW v \in MapVpns, indexes(v) = <<i, j, k>>, DOMAIN D \subseteq MapVpns, NEW D2, Gains(D, D2, v, d)
    PROVE  Tree(R, F, D2, m2) /\ KeepsOthers(R, m, m2, v)
<1>1. /\ Inside(R, F, m2) /\ Apart(R, m2) /\ Covers(R, F, m2)
      /\ SameShape(R, m, m2) /\ KeepsOthers(R, m, m2, v)
  BY LeafStoreShape
<1>2. Listed(R, D2, m2)
  <2>1. ASSUME NEW a \in Slots, NEW b \in Slots, NEW c \in Slots, HasLeaf(m2, R, a, b), is_valid(m2[LeafOf(m2, R, a, b)][c])
        PROVE  \E x \in DOMAIN D2 : indexes(x) = <<a, b, c>>
    <3>1. CASE indexes(v) = <<a, b, c>>
      BY <3>1 DEF Gains
    <3>2. CASE indexes(v) # <<a, b, c>>
      <4>1. HasLeaf(m, R, a, b) /\ is_valid(m[LeafOf(m, R, a, b)][c])
        BY <1>1, <2>1, <3>2 DEF SameShape, KeepsOthers
      <4>2. PICK x \in DOMAIN D : indexes(x) = <<a, b, c>>
        BY <4>1 DEF Tree, Listed
      <4> QED BY <4>2 DEF Gains
    <3> QED BY <3>1, <3>2
  <2> QED BY <2>1 DEF Listed
<1>3. Paged(R, D2, m2)
  <2>1. Shows(R, m2, v, d)
    <3>1. ASSUME NEW a \in Slots, NEW b \in Slots, NEW c \in Slots, indexes(v) = <<a, b, c>>
          PROVE  HasLeaf(m2, R, a, b) /\ \E e \in MapFlags : m2[LeafOf(m2, R, a, b)][c] = PteNew(d, e + V)
      <4>1. a = i /\ b = j /\ c = k
        BY <3>1
      <4> QED BY <1>1, <4>1 DEF LeafStore, SameShape
    <3> QED BY <3>1 DEF Shows
  <2>2. ASSUME NEW x \in DOMAIN D PROVE Shows(R, m2, x, D[x])
    <3>1. ASSUME NEW a \in Slots, NEW b \in Slots, NEW c \in Slots, indexes(x) = <<a, b, c>>
          PROVE  HasLeaf(m2, R, a, b) /\ \E e \in MapFlags : m2[LeafOf(m2, R, a, b)][c] = PteNew(D[x], e + V)
      <4>1. HasLeaf(m, R, a, b) /\ \E e \in MapFlags : m[LeafOf(m, R, a, b)][c] = PteNew(D[x], e + V)
        BY <3>1 DEF Tree, Paged, Shows
      <4>2. indexes(v) # <<a, b, c>>
        <5>1. x # v /\ x \in MapVpns
          BY DEF Gains
        <5> QED BY <3>1, <5>1, IndexesOne
      <4> QED BY <1>1, <4>1, <4>2 DEF KeepsOthers
    <3> QED BY <3>1 DEF Shows
  <2> QED BY <2>1, <2>2 DEF Paged, Gains
<1> QED BY <1>1, <1>2, <1>3 DEF Tree

\* PageTable::unmap clears the entry of a page.
Loses(D, D2, v) == DOMAIN D2 = DOMAIN D \ {v} /\ \A x \in DOMAIN D2 : D2[x] = D[x]

\* Then the table is a tree with one page less; the others keep their entries.
LEMMA ClearEntry ==
    ASSUME NEW R, NEW F, NEW D, NEW m, NEW m2, Tree(R, F, D, m), NEW i \in Slots, NEW j \in Slots,
           NEW k \in Slots, LeafStore(R, F, m, m2, i, j, k, 0),
           NEW v \in MapVpns, indexes(v) = <<i, j, k>>, DOMAIN D \subseteq MapVpns, NEW D2, Loses(D, D2, v)
    PROVE  Tree(R, F, D2, m2) /\ KeepsOthers(R, m, m2, v)
<1>1. /\ Inside(R, F, m2) /\ Apart(R, m2) /\ Covers(R, F, m2)
      /\ SameShape(R, m, m2) /\ KeepsOthers(R, m, m2, v)
  BY LeafStoreShape
<1>2. Listed(R, D2, m2)
  <2>1. ASSUME NEW a \in Slots, NEW b \in Slots, NEW c \in Slots, HasLeaf(m2, R, a, b), is_valid(m2[LeafOf(m2, R, a, b)][c])
        PROVE  \E x \in DOMAIN D2 : indexes(x) = <<a, b, c>>
    <3>1. indexes(v) # <<a, b, c>>
      <4>1. ASSUME indexes(v) = <<a, b, c>> PROVE FALSE
        <5>1. a = i /\ b = j /\ c = k
          BY <4>1
        <5>2. m2[LeafOf(m2, R, a, b)][c] = 0
          BY <1>1, <5>1 DEF LeafStore, SameShape
        <5> QED BY <2>1, <5>2, ZeroInvalid
      <4> QED BY <4>1
    <3>2. HasLeaf(m, R, a, b) /\ is_valid(m[LeafOf(m, R, a, b)][c])
      BY <1>1, <2>1, <3>1 DEF SameShape, KeepsOthers
    <3>3. PICK x \in DOMAIN D : indexes(x) = <<a, b, c>>
      BY <3>2 DEF Tree, Listed
    <3> QED BY <3>1, <3>3 DEF Loses
  <2> QED BY <2>1 DEF Listed
<1>3. Paged(R, D2, m2)
  <2>2. ASSUME NEW x \in DOMAIN D2 PROVE Shows(R, m2, x, D2[x])
    <3>1. ASSUME NEW a \in Slots, NEW b \in Slots, NEW c \in Slots, indexes(x) = <<a, b, c>>
          PROVE  HasLeaf(m2, R, a, b) /\ \E e \in MapFlags : m2[LeafOf(m2, R, a, b)][c] = PteNew(D2[x], e + V)
      <4>0. x \in DOMAIN D /\ x # v /\ D2[x] = D[x] /\ x \in MapVpns
        BY DEF Loses
      <4>1. HasLeaf(m, R, a, b) /\ \E e \in MapFlags : m[LeafOf(m, R, a, b)][c] = PteNew(D[x], e + V)
        BY <3>1, <4>0 DEF Tree, Paged, Shows
      <4>2. indexes(v) # <<a, b, c>>
        BY <3>1, <4>0, IndexesOne
      <4> QED BY <1>1, <4>0, <4>1, <4>2 DEF KeepsOthers
    <3> QED BY <3>1 DEF Shows
  <2> QED BY <2>2 DEF Paged
<1> QED BY <1>1, <1>2, <1>3 DEF Tree

-----------------------------------------------------------------------------
(* The inductive invariant: every table that exists is a tree over its own *)
(* frames, one that does not has nothing, and no frame has two owners.     *)

Own(fr, da, zo, t) == fr[t] \cup (IF t \in zo THEN {} ELSE {da[t][v] : v \in DOMAIN da[t]})

Separate(fr, da, zo, fe) ==
    /\ \A t \in Tables : Own(fr, da, zo, t) \cap fe = {}
    /\ \A t, u \in Tables : t # u => Own(fr, da, zo, t) \cap Own(fr, da, zo, u) = {}

\* Pages of one table lie in different frames, and not in its levels.
OwnPages(F, D) ==
    /\ \A v \in DOMAIN D : D[v] \notin F
    /\ \A v, w \in DOMAIN D : D[v] = D[w] => v = w

Trees == \A t \in Tables : root[t] # None => Tree(root[t], frames[t], data[t], mem)
Gone == \A t \in Tables : root[t] = None => frames[t] = {} /\ DOMAIN data[t] = {}
Pages == \A t \in Tables : OwnPages(frames[t], data[t])

IInv == TypeOK /\ Trees /\ Gone /\ Pages /\ Separate(frames, data, zombie, free)

\* What the types say of one table.
LEMMA TableTypes ==
    ASSUME TypeOK, NEW t \in Tables
    PROVE  /\ root[t] # None => root[t] \in Frames
           /\ frames[t] \subseteq Frames /\ mem \in Memories
           /\ DOMAIN data[t] \subseteq MapVpns /\ data[t] \in [DOMAIN data[t] -> Frames]
           /\ free \subseteq Frames /\ free \subseteq Nat
<1>1. PICK D \in SUBSET MapVpns : data[t] \in [D -> Frames]
  BY DEF TypeOK
<1>2. Frames \subseteq Nat
  BY Widths
<1> QED BY <1>1, <1>2 DEF TypeOK, Memories

\* The walk from the token of a table ends at its tree's entry.
Walks(t, v, i, j, k) ==
    /\ HasLeaf(mem, root[t], i, j) =>
          /\ find_pte(root[t], v) = [frame |-> LeafOf(mem, root[t], i, j), slot |-> k]
          /\ translate(token(t), v) = mem[LeafOf(mem, root[t], i, j)][k]
    /\ find_vpn(token(t), v) <=> (HasLeaf(mem, root[t], i, j) /\ is_valid(mem[LeafOf(mem, root[t], i, j)][k]))

\* find_pte, translate and find_vpn from the token of a live table.
LEMMA Walk ==
    ASSUME TypeOK, Trees, NEW t \in Tables, root[t] # None, NEW v \in MapVpns,
           NEW i \in Slots, NEW j \in Slots, NEW k \in Slots, indexes(v) = <<i, j, k>>
    PROVE  Walks(t, v, i, j, k)
<1>1. PICK R : R = root[t]
  OBVIOUS
<1>2. R \in Frames /\ from_token(token(t)) = R /\ mem \in Memories /\ frames[t] \subseteq Frames
  BY <1>1, TableTypes, TokenRoot
<1>3. indexes(v)[1] = i /\ indexes(v)[2] = j /\ indexes(v)[3] = k
  OBVIOUS
<1>4. CASE HasLeaf(mem, R, i, j)
  <2>1. PICK f : f = LeafOf(mem, R, i, j)
    OBVIOUS
  <2>2. f \in Frames
    BY <1>1, <1>2, <1>4, <2>1 DEF Trees, Tree, Inside
  <2>3. PICK p : p = [frame |-> f, slot |-> k]
    OBVIOUS
  <2>4. find_pte(R, v) = p
    BY <1>3, <1>4, <2>1, <2>3 DEF find_pte, HasLeaf, HasMid, MidOf, LeafOf
  <2>5. p # None /\ p.frame = f /\ p.slot = k
    <3>1. f \in Nat /\ k \in Nat
      BY <2>2, Widths DEF Slots
    <3>2. p \in [frame : Nat, slot : Nat]
      BY <2>3, <3>1
    <3> QED BY <2>3, <3>2, Widths
  <2>6. translate(token(t), v) = mem[f][k]
    BY <1>2, <2>4, <2>5 DEF translate
  <2>7. mem[f][k] # None
    BY <1>2, <2>2, Widths DEF Memories
  <2>8. find_vpn(token(t), v) <=> is_valid(mem[f][k])
    BY <2>6, <2>7 DEF find_vpn
  <2> QED BY <1>1, <1>4, <2>1, <2>3, <2>4, <2>6, <2>8 DEF Walks
<1>5. CASE ~ HasLeaf(mem, R, i, j)
  <2>1. find_pte(R, v) = None
    BY <1>3, <1>5 DEF find_pte, HasLeaf, HasMid, MidOf
  <2>2. ~ find_vpn(token(t), v)
    BY <1>2, <2>1 DEF translate, find_vpn
  <2> QED BY <1>1, <1>5, <2>2 DEF Walks
<1> QED BY <1>4, <1>5

\* The pages the kernel finds through the token are the mapped ones, each in
\* its own frame.
LEMMA FindsPages ==
    ASSUME IInv, NEW t \in Tables, root[t] # None, NEW v \in MapVpns
    PROVE  /\ find_vpn(token(t), v) <=> v \in DOMAIN data[t]
           /\ v \in DOMAIN data[t] =>
                 \E fl \in MapFlags : translate(token(t), v) = PteNew(data[t][v], fl + V)
<1>1. PICK i \in Slots, j \in Slots, k \in Slots : indexes(v) = <<i, j, k>>
  BY IndexesDigits DEF Digits
<1>2. Walks(t, v, i, j, k)
  BY <1>1, Walk DEF IInv
<1>3. Tree(root[t], frames[t], data[t], mem) /\ DOMAIN data[t] \subseteq MapVpns /\ data[t] \in [DOMAIN data[t] -> Frames]
  BY TableTypes DEF IInv, Trees
<1>4. ASSUME v \in DOMAIN data[t]
      PROVE  find_vpn(token(t), v) /\ \E fl \in MapFlags : translate(token(t), v) = PteNew(data[t][v], fl + V)
  <2>1. /\ HasLeaf(mem, root[t], i, j)
        /\ \E fl \in MapFlags : mem[LeafOf(mem, root[t], i, j)][k] = PteNew(data[t][v], fl + V)
    BY <1>1, <1>3, <1>4 DEF Tree, Paged, Shows
  <2>2. PICK fl \in MapFlags : mem[LeafOf(mem, root[t], i, j)][k] = PteNew(data[t][v], fl + V)
    BY <2>1
  <2>3. is_valid(PteNew(data[t][v], fl + V))
    BY <1>3, <1>4, PteFields
  <2> QED BY <1>2, <2>1, <2>2, <2>3 DEF Walks
<1>5. ASSUME find_vpn(token(t), v) PROVE v \in DOMAIN data[t]
  <2>1. HasLeaf(mem, root[t], i, j) /\ is_valid(mem[LeafOf(mem, root[t], i, j)][k])
    BY <1>2, <1>5 DEF Walks
  <2>2. PICK x \in DOMAIN data[t] : indexes(x) = <<i, j, k>>
    BY <1>3, <2>1 DEF Tree, Listed
  <2> QED BY <1>1, <1>3, <2>2, IndexesOne
<1> QED BY <1>4, <1>5

-----------------------------------------------------------------------------
(* A step changes one table.                                               *)

\* Of the rest of memory only t's own frames and free ones are touched, and
\* t passes frames to and from the free ones only.
Elsewhere(t) ==
    /\ \A u \in Tables : u # t => root'[u] = root[u] /\ frames'[u] = frames[u] /\ data'[u] = data[u]
    /\ \A u \in Tables : u # t => (u \in zombie' <=> u \in zombie)
    /\ \A f \in Frames : f \notin Own(frames, data, zombie, t) /\ f \notin free => mem'[f] = mem[f]
    /\ Own(frames', data', zombie', t) \subseteq Own(frames, data, zombie, t) \cup free
    /\ free' \subseteq free \cup Own(frames, data, zombie, t)
    /\ Own(frames', data', zombie', t) \cap free' = {}

\* The other tables show what they showed.
OthersKeep(t) == \A u \in Tables : u # t /\ root[u] # None => KeepsEntries(root[u], mem, mem')

\* Then the others are still trees, and frames still have one owner.
LEMMA OneTable ==
    ASSUME IInv, NEW t \in Tables, Elsewhere(t), TypeOK',
           root'[t] # None => Tree(root'[t], frames'[t], data'[t], mem'),
           root'[t] = None => frames'[t] = {} /\ DOMAIN data'[t] = {},
           OwnPages(frames'[t], data'[t])
    PROVE  IInv' /\ OthersKeep(t)
<1>1. ASSUME NEW u \in Tables, u # t PROVE Own(frames', data', zombie', u) = Own(frames, data, zombie, u)
  BY <1>1 DEF Elsewhere, Own
<1>2. ASSUME NEW u \in Tables, u # t, root[u] # None
      PROVE  Tree(root[u], frames[u], data[u], mem') /\ KeepsEntries(root[u], mem, mem')
  <2>1. Agree(frames[u], mem, mem')
    <3>1. ASSUME NEW f \in frames[u] PROVE mem'[f] = mem[f]
      <4>1. f \in Own(frames, data, zombie, u)
        BY DEF Own
      <4>2. f \notin Own(frames, data, zombie, t) /\ f \notin free
        BY <1>2, <4>1 DEF IInv, Separate
      <4>3. f \in Frames
        BY TableTypes DEF IInv
      <4> QED BY <4>2, <4>3 DEF Elsewhere
    <3> QED BY <3>1 DEF Agree
  <2>2. Tree(root[u], frames[u], data[u], mem)
    BY <1>2 DEF IInv, Trees
  <2> QED BY <2>1, <2>2, TreeKept
<1>3. Trees'
  <2>1. ASSUME NEW u \in Tables, root'[u] # None PROVE Tree(root'[u], frames'[u], data'[u], mem')
    <3>1. CASE u = t
      BY <2>1, <3>1
    <3>2. CASE u # t
      BY <1>2, <2>1, <3>2 DEF Elsewhere
    <3> QED BY <3>1, <3>2
  <2>2. ASSUME NEW u \in Tables
        PROVE  Tree(root[u], frames[u], data[u], mem)' <=> Tree(root'[u], frames'[u], data'[u], mem')
    BY DEF Tree, Inside, Apart, Covers, Listed, Paged, Shows, HasLeaf, LeafOf, HasMid, MidOf
  <2> QED BY <2>1, <2>2 DEF Trees
<1>4. Gone'
  BY DEF IInv, Gone, Elsewhere
<1>5. Pages'
  BY DEF IInv, Pages, Elsewhere, OwnPages
<1>6. Separate(frames', data', zombie', free')
  <2>1. ASSUME NEW u \in Tables PROVE Own(frames', data', zombie', u) \cap free' = {}
    <3>1. CASE u = t
      BY <3>1 DEF Elsewhere
    <3>2. CASE u # t
      BY <1>1, <3>2 DEF Elsewhere, IInv, Separate
    <3> QED BY <3>1, <3>2
  <2>2. ASSUME NEW u \in Tables, u # t PROVE Own(frames', data', zombie', u) \cap Own(frames', data', zombie', t) = {}
    BY <1>1, <2>2 DEF Elsewhere, IInv, Separate
  <2>3. ASSUME NEW u \in Tables, NEW w \in Tables, u # w PROVE Own(frames', data', zombie', u) \cap Own(frames', data', zombie', w) = {}
    <3>1. CASE u # t /\ w # t
      BY <1>1, <2>3, <3>1 DEF IInv, Separate
    <3> QED BY <2>2, <2>3, <3>1
  <2> QED BY <2>1, <2>3 DEF Separate
<1>7. Separate(frames, data, zombie, free)' <=> Separate(frames', data', zombie', free')
  BY DEF Separate, Own
<1>8. OthersKeep(t)
  BY <1>2 DEF OthersKeep
<1> QED BY <1>3, <1>4, <1>5, <1>6, <1>7, <1>8 DEF IInv

\* A store of one word.
Stores(m, m2, f, s, w) ==
    /\ m2 \in Memories /\ m2[f][s] = w
    /\ \A g \in Frames : g # f => m2[g] = m[g]
    /\ \A g \in Frames, x \in Slots : ~ (g = f /\ x = s) => m2[g][x] = m[g][x]

\* Store changes one word.
LEMMA StoreOne ==
    ASSUME NEW m \in Memories, NEW f \in Frames, NEW s \in Slots, NEW w \in Nat, NEW m2, m2 = Store(m, f, s, w)
    PROVE  Stores(m, m2, f, s, w)
<1>1. m2 \in Memories
  BY DEF Store, Memories
<1>2. m2[f][s] = w /\ \A g \in Frames : g # f => m2[g] = m[g]
  BY DEF Store, Memories
<1>3. ASSUME NEW x \in Slots, x # s PROVE m2[f][x] = m[f][x]
  BY <1>3 DEF Store, Memories
<1> QED BY <1>1, <1>2, <1>3 DEF Stores

\* Cleared frames.
Clears(m, m2, S) ==
    /\ m2 \in Memories
    /\ \A f \in Frames \cap S : \A s \in Slots : m2[f][s] = 0
    /\ \A f \in Frames : f \notin S => m2[f] = m[f]

\* FrameTracker::new in several frames.
LEMMA ClearSome ==
    ASSUME NEW m \in Memories, NEW S, NEW m2, m2 = [f \in Frames |-> IF f \in S THEN Zero ELSE m[f]]
    PROVE  Clears(m, m2, S)
<1>1. Zero \in [Slots -> Nat] /\ \A s \in Slots : Zero[s] = 0
  BY DEF Zero
<1> QED BY <1>1 DEF Clears, Memories

\* The levels above the page are there: slots i and j lead to the frame lf.
Ready(R, F, D, m, m2, i, j, lf) ==
    /\ Tree(R, F, D, m2) /\ KeepsEntries(R, m, m2)
    /\ HasLeaf(m2, R, i, j) /\ LeafOf(m2, R, i, j) = lf

\* Entries kept by two steps in a row are kept,
LEMMA KeepsChain ==
    ASSUME NEW R, NEW m, NEW m1, NEW m2, KeepsEntries(R, m, m1), KeepsEntries(R, m1, m2)
    PROVE  KeepsEntries(R, m, m2)
BY DEF KeepsEntries

\* and so are those that the second one does not write.
LEMMA KeepsChainOthers ==
    ASSUME NEW R, NEW m, NEW m1, NEW m2, NEW v, KeepsEntries(R, m, m1), KeepsOthers(R, m1, m2, v)
    PROVE  KeepsOthers(R, m, m2, v)
BY DEF KeepsEntries, KeepsOthers

\* find_pte_create finds both levels,
LEMMA ReadyBoth ==
    ASSUME NEW R, NEW F \in SUBSET Frames, NEW D, NEW m \in Memories, Tree(R, F, D, m), NEW S, F \cap S = {},
           NEW m0, Clears(m, m0, S), NEW i \in Slots, NEW j \in Slots, HasLeaf(m, R, i, j)
    PROVE  Ready(R, F, D, m, m0, i, j, LeafOf(m, R, i, j))
<1>1. Agree(F, m, m0)
  BY DEF Clears, Agree
<1>2. Tree(R, F, D, m0) /\ KeepsEntries(R, m, m0)
  BY <1>1, TreeKept
<1> QED BY <1>2 DEF Ready, KeepsEntries

\* or adds the third,
LEMMA ReadyLeaf ==
    ASSUME NEW R, NEW F \in SUBSET Frames, NEW D, NEW m \in Memories, Tree(R, F, D, m), NEW S, F \cap S = {},
           NEW m0, Clears(m, m0, S), NEW i \in Slots, NEW j \in Slots, HasMid(m, R, i), ~ HasLeaf(m, R, i, j),
           NEW b \in Frames \cap S, NEW m2, Stores(m0, m2, MidOf(m, R, i), j, LevelPte(b))
    PROVE  Ready(R, F \cup {b}, D, m, m2, i, j, b)
<1>1. Agree(F, m, m0)
  BY DEF Clears, Agree
<1>2. Tree(R, F, D, m0) /\ KeepsEntries(R, m, m0)
  BY <1>1, TreeKept
<1>3. /\ R \in F /\ MidOf(m, R, i) \in F /\ m0[R] = m[R] /\ m0[MidOf(m, R, i)] = m[MidOf(m, R, i)]
  BY <1>1 DEF Tree, Inside, Agree
<1>4. MidOf(m0, R, i) = MidOf(m, R, i) /\ HasMid(m0, R, i) /\ ~ HasLeaf(m0, R, i, j)
  BY <1>3 DEF HasMid, MidOf, HasLeaf
<1>5. b \notin F /\ b # MidOf(m, R, i)
  BY <1>3
<1>6. NewLeaf(R, F, m0, m2, i, j, b)
  BY <1>3, <1>4, <1>5 DEF NewLeaf, Stores, Clears
<1>7. Tree(R, F \cup {b}, D, m2) /\ KeepsEntries(R, m0, m2) /\ EndsAt(R, m2, i, j, b)
  BY <1>2, <1>4, <1>5, <1>6, AddLeaf
<1>8. KeepsEntries(R, m, m2)
  BY <1>2, <1>7, KeepsChain
<1> QED BY <1>7, <1>8 DEF Ready, EndsAt

\* or the second and the third.
LEMMA ReadyMid ==
    ASSUME NEW R, NEW F \in SUBSET Frames, NEW D, NEW m \in Memories, Tree(R, F, D, m), NEW S, F \cap S = {},
           NEW m0, Clears(m, m0, S), NEW i \in Slots, NEW j \in Slots, ~ HasMid(m, R, i),
           NEW a \in Frames \cap S, NEW b \in Frames \cap S, a # b,
           NEW m1, Stores(m0, m1, R, i, LevelPte(a)), NEW m2, Stores(m1, m2, a, j, LevelPte(b))
    PROVE  Ready(R, (F \cup {a}) \cup {b}, D, m, m2, i, j, b)
<1>1. Agree(F, m, m0)
  BY DEF Clears, Agree
<1>2. Tree(R, F, D, m0) /\ KeepsEntries(R, m, m0)
  BY <1>1, TreeKept
<1>3. R \in F /\ m0[R] = m[R] /\ a \notin F /\ b \notin F
  BY <1>1 DEF Tree, Inside, Agree
<1>4. ~ HasMid(m0, R, i)
  BY <1>3 DEF HasMid
<1>5. /\ \A s \in Slots : m1[a][s] = 0 /\ m1[b][s] = 0
      /\ NewMid(R, F, m0, m1, i, a)
  BY <1>3 DEF NewMid, Stores, Clears
<1>6. Tree(R, F \cup {a}, D, m1) /\ KeepsEntries(R, m0, m1) /\ LeadsTo(R, m1, i, a)
  BY <1>2, <1>3, <1>4, <1>5, AddMid
<1>7. HasMid(m1, R, i) /\ MidOf(m1, R, i) = a /\ ~ HasLeaf(m1, R, i, j)
  BY <1>6 DEF LeadsTo
<1>8. b \notin F \cup {a} /\ NewLeaf(R, F \cup {a}, m1, m2, i, j, b)
  BY <1>3, <1>5, <1>7 DEF NewLeaf, Stores
<1>9. Tree(R, (F \cup {a}) \cup {b}, D, m2) /\ KeepsEntries(R, m1, m2) /\ EndsAt(R, m2, i, j, b)
  BY <1>6, <1>7, <1>8, AddLeaf
<1>10. KeepsEntries(R, m, m2)
  BY <1>2, <1>6, <1>9, KeepsChain
<1> QED BY <1>9, <1>10 DEF Ready, EndsAt

-----------------------------------------------------------------------------
(* The actions.                                                            *)

\* frame_alloc returns different free frames as long as there are some.
LEMMA FreshFrames ==
    ASSUME TypeOK
    PROVE  /\ free # {} => Fresh1 \in free
           /\ Cardinality(free) > 0 => Fresh1 \in free
           /\ Cardinality(free) > 1 => Fresh2 \in free /\ Fresh2 # Fresh1
           /\ Cardinality(free) > 2 => Fresh3 \in free /\ Fresh3 # Fresh1 /\ Fresh3 # Fresh2
<1>1. free \in SUBSET Frames /\ free \subseteq Nat /\ IsFiniteSet(Frames)
  BY Widths DEF TypeOK
<1>2. IsFiniteSet(free) /\ Cardinality(free) \in Nat
  BY <1>1, FS_Subset, FS_CardinalityType
<1>3. free # {} => Fresh1 \in free
  BY <1>1, LowestIn DEF Fresh1
<1>4. Cardinality(free) > 0 => free # {}
  BY FS_EmptySet
<1>5. ASSUME Cardinality(free) > 1 PROVE Fresh2 \in free /\ Fresh2 # Fresh1
  <2>1. free \ {Fresh1} # {}
    <3>1. ASSUME free \ {Fresh1} = {} PROVE FALSE
      <4>1. free \in SUBSET {Fresh1}
        BY <3>1
      <4>2. IsFiniteSet({Fresh1}) /\ Cardinality({Fresh1}) = 1
        BY FS_Singleton
      <4>3. Cardinality(free) <= 1
        BY <4>1, <4>2, FS_Subset
      <4> QED BY <1>2, <1>5, <4>3
    <3> QED BY <3>1
  <2>2. Fresh2 \in free \ {Fresh1}
    BY <1>1, <2>1, LowestIn DEF Fresh2
  <2> QED BY <2>2
<1>6. ASSUME Cardinality(free) > 2 PROVE Fresh3 \in free /\ Fresh3 # Fresh1 /\ Fresh3 # Fresh2
  <2>1. free \ {Fresh1, Fresh2} # {}
    <3>1. ASSUME free \ {Fresh1, Fresh2} = {} PROVE FALSE
      <4>1. free \in SUBSET ({Fresh1} \cup {Fresh2})
        BY <3>1
      <4>2. IsFiniteSet({Fresh1}) /\ Cardinality({Fresh1}) = 1
        BY FS_Singleton
      <4>3. PICK C : C = Cardinality({Fresh1} \cup {Fresh2})
        OBVIOUS
      <4>4. /\ IsFiniteSet({Fresh1} \cup {Fresh2})
            /\ C = IF Fresh2 \in {Fresh1} THEN Cardinality({Fresh1}) ELSE Cardinality({Fresh1}) + 1
        BY <4>2, <4>3, FS_AddElement
      <4>5. C <= 2
        BY <4>2, <4>4
      <4>6. Cardinality(free) <= C
        BY <4>1, <4>3, <4>4, FS_Subset
      <4>7. C \in Nat
        BY <4>2, <4>4
      <4> QED BY <1>2, <1>6, <4>5, <4>6, <4>7
    <3> QED BY <3>1
  <2>2. Fresh3 \in free \ {Fresh1, Fresh2}
    BY <1>1, <2>1, LowestIn DEF Fresh3
  <2> QED BY <2>2
<1> QED BY <1>3, <1>4, <1>5, <1>6

\* PageTable::new
LEMMA NewStep ==
    ASSUME IInv, NEW t \in Tables, new_table(t)
    PROVE  IInv' /\ OthersKeep(t)
<1>1. PICK f : f = Fresh1
  OBVIOUS
<1>2. f \in free /\ f \in Frames /\ frames[t] = {} /\ DOMAIN data[t] = {} /\ mem \in Memories
  BY <1>1, FreshFrames, TableTypes DEF new_table, IInv, Gone
<1>3. /\ root' = [root EXCEPT ![t] = f] /\ frames' = [frames EXCEPT ![t] = {f}]
      /\ mem' = [mem EXCEPT ![f] = Zero] /\ free' = free \ {f} /\ data' = data /\ zombie' = zombie
  BY <1>1 DEF new_table, Cleared
<1>4. TypeOK'
  BY <1>2, <1>3 DEF IInv, TypeOK, Zero
<1>5. root'[t] = f /\ frames'[t] = {f} /\ mem'[f] = Zero /\ \A g \in Frames : g # f => mem'[g] = mem[g]
  BY <1>2, <1>3 DEF IInv, TypeOK, Memories
<1>6. Tree(f, {f}, data'[t], mem')
  <2>1. \A s \in Slots : mem'[f][s] = 0
    BY <1>5 DEF Zero
  <2>2. DOMAIN data'[t] = {}
    BY <1>2, <1>3
  <2> QED BY <2>1, <2>2, EmptyTree
<1>7. Own(frames', data', zombie', t) = {f} /\ Own(frames, data, zombie, t) = {}
  BY <1>2, <1>3, <1>5 DEF Own
<1>8. Elsewhere(t)
  <2>1. \A u \in Tables : u # t => root'[u] = root[u] /\ frames'[u] = frames[u] /\ data'[u] = data[u]
    BY <1>3 DEF IInv, TypeOK
  <2> QED BY <1>2, <1>3, <1>5, <1>7, <2>1 DEF Elsewhere
<1>9. OwnPages(frames'[t], data'[t]) /\ root'[t] # None
  <2>1. f # None
    BY <1>2, Widths
  <2> QED BY <1>2, <1>3, <1>5, <2>1 DEF OwnPages
<1> QED BY <1>4, <1>5, <1>6, <1>8, <1>9, OneTable

\* Frames that go back to the allocator.
LEMMA JunkedSome ==
    ASSUME NEW m \in Memories, NEW S
    PROVE  Junked(m, S) \in Memories /\ \A f \in Frames : f \notin S => Junked(m, S)[f] = m[f]
BY Widths DEF Junked, JunkPage, Memories

\* The MemorySet is dropped.
LEMMA DropStep ==
    ASSUME IInv, NEW t \in Tables, drop(t)
    PROVE  IInv' /\ OthersKeep(t)
<1>1. PICK S : S = Own(frames, data, zombie, t)
  OBVIOUS
<1>2. S = frames[t] \cup DataFrames(t)
  BY <1>1 DEF Own, DataFrames
<1>3. /\ root' = [root EXCEPT ![t] = None] /\ frames' = [frames EXCEPT ![t] = {}]
      /\ mem' = Junked(mem, S) /\ free' = free \cup S /\ data' = [data EXCEPT ![t] = NoPages]
      /\ zombie' = zombie \ {t}
  BY <1>2 DEF drop
<1>4. mem \in Memories /\ S \subseteq Frames
  BY <1>1, TableTypes DEF IInv, Own
<1>5. mem' \in Memories /\ \A f \in Frames : f \notin S => mem'[f] = mem[f]
  BY <1>3, <1>4, JunkedSome
<1>6. NoPages \in [{} -> Frames] /\ DOMAIN NoPages = {}
  BY DEF NoPages
<1>7. TypeOK'
  <2>1. data' \in [Tables -> UNION {[D -> Frames] : D \in SUBSET MapVpns}]
    <3>1. NoPages \in UNION {[D -> Frames] : D \in SUBSET MapVpns}
      BY <1>6
    <3> QED BY <1>3, <3>1 DEF IInv, TypeOK
  <2> QED BY <1>3, <1>4, <1>5, <2>1 DEF IInv, TypeOK, Memories
<1>8. root'[t] = None /\ frames'[t] = {} /\ data'[t] = NoPages
  BY <1>3 DEF IInv, TypeOK
<1>9. Own(frames', data', zombie', t) = {}
  BY <1>6, <1>8 DEF Own
<1>10. Elsewhere(t)
  <2>1. \A u \in Tables : u # t => root'[u] = root[u] /\ frames'[u] = frames[u] /\ data'[u] = data[u]
    BY <1>3 DEF IInv, TypeOK
  <2> QED BY <1>1, <1>3, <1>5, <1>9, <2>1 DEF Elsewhere
<1>11. OwnPages(frames'[t], data'[t])
  BY <1>6, <1>8 DEF OwnPages
<1> QED BY <1>6, <1>7, <1>8, <1>10, <1>11, OneTable

\* The areas of a process that exits are cleared; its table keeps its frames.
LEMMA RecycleStep ==
    ASSUME IInv, NEW t \in Tables, recycle_data_pages(t)
    PROVE  IInv' /\ OthersKeep(t) /\ KeepsEntries(root[t], mem, mem')
<1>1. PICK S : S = DataFrames(t)
  OBVIOUS
<1>2. /\ root[t] # None /\ t \notin zombie /\ zombie' = zombie \cup {t}
      /\ mem' = Junked(mem, S) /\ free' = free \cup S
      /\ root' = root /\ frames' = frames /\ data' = data
  BY <1>1 DEF recycle_data_pages
<1>3. Own(frames, data, zombie, t) = frames[t] \cup S /\ Own(frames', data', zombie', t) = frames[t]
  BY <1>1, <1>2 DEF Own, DataFrames
<1>4. mem \in Memories /\ S \subseteq Frames /\ frames[t] \subseteq Frames /\ frames[t] \cap S = {}
  BY <1>1, <1>2, TableTypes DEF IInv, DataFrames, Pages, OwnPages
<1>5. mem' \in Memories /\ \A f \in Frames : f \notin S => mem'[f] = mem[f]
  BY <1>2, <1>4, JunkedSome
<1>6. TypeOK'
  BY <1>2, <1>4, <1>5 DEF IInv, TypeOK, Memories
<1>7. Elsewhere(t)
  <2>1. frames[t] \cap free' = {}
    BY <1>2, <1>3, <1>4 DEF IInv, Separate
  <2>2. \A f \in Frames : f \notin Own(frames, data, zombie, t) /\ f \notin free => mem'[f] = mem[f]
    BY <1>3, <1>5
  <2>3. free' \subseteq free \cup Own(frames, data, zombie, t)
    BY <1>2, <1>3
  <2> QED BY <1>2, <1>3, <2>1, <2>2, <2>3 DEF Elsewhere
<1>8. Tree(root[t], frames[t], data[t], mem') /\ KeepsEntries(root[t], mem, mem')
  <2>1. Agree(frames[t], mem, mem')
    BY <1>4, <1>5 DEF Agree
  <2>2. Tree(root[t], frames[t], data[t], mem)
    BY <1>2 DEF IInv, Trees
  <2> QED BY <2>1, <2>2, TreeKept
<1>9. OwnPages(frames'[t], data'[t])
  BY <1>2 DEF IInv, Pages
<1> QED BY <1>2, <1>6, <1>7, <1>8, <1>9, OneTable

\* User code fills one of its pages.
LEMMA ScribbleStep ==
    ASSUME IInv, NEW t \in Tables, NEW vpn \in MapVpns, scribble(t, vpn)
    PROVE  IInv' /\ OthersKeep(t) /\ KeepsEntries(root[t], mem, mem')
<1>1. root[t] # None /\ vpn \in DOMAIN data[t] /\ t \notin zombie
  BY FindsPages DEF scribble
<1>2. PICK f : f = data[t][vpn]
  OBVIOUS
<1>3. f \in Frames /\ f \in Own(frames, data, zombie, t) /\ f \notin frames[t] /\ mem \in Memories
  BY <1>1, <1>2, TableTypes DEF IInv, Own, Pages, OwnPages
<1>4. ppn(translate(token(t), vpn)) = f
  <2>1. PICK fl \in MapFlags : translate(token(t), vpn) = PteNew(data[t][vpn], fl + V)
    BY <1>1, FindsPages
  <2> QED BY <1>2, <1>3, <2>1, PteFields
<1>5. mem' = [mem EXCEPT ![f] = JunkPage] /\ root' = root /\ frames' = frames /\ data' = data /\ free' = free /\ zombie' = zombie
  BY <1>4 DEF scribble
<1>6. mem' \in Memories /\ \A g \in Frames : g # f => mem'[g] = mem[g]
  <2>1. JunkPage \in [Slots -> Nat]
    BY Widths DEF JunkPage
  <2> QED BY <1>3, <1>5, <2>1 DEF Memories
<1>7. TypeOK'
  BY <1>5, <1>6 DEF IInv, TypeOK, Memories
<1>8. Own(frames', data', zombie', t) = Own(frames, data, zombie, t)
  BY <1>5 DEF Own
<1>9. Elsewhere(t)
  BY <1>3, <1>5, <1>6, <1>8 DEF Elsewhere, IInv, Separate
<1>10. Tree(root[t], frames[t], data[t], mem') /\ KeepsEntries(root[t], mem, mem')
  <2>1. Agree(frames[t], mem, mem')
    BY <1>3, <1>6, TableTypes DEF Agree, IInv
  <2>2. Tree(root[t], frames[t], data[t], mem)
    BY <1>1 DEF IInv, Trees
  <2> QED BY <2>1, <2>2, TreeKept
<1>11. OwnPages(frames'[t], data'[t])
  BY <1>5 DEF IInv, Pages
<1> QED BY <1>1, <1>5, <1>7, <1>9, <1>10, <1>11, OneTable

\* unmap_one: the entry is cleared and the frame goes.
LEMMA UnmapStep ==
    ASSUME IInv, NEW t \in Tables, NEW vpn \in MapVpns, unmap(t, vpn)
    PROVE  /\ IInv' /\ OthersKeep(t) /\ root' = root
           /\ vpn \in DOMAIN data[t] /\ Loses(data[t], data'[t], vpn)
           /\ KeepsOthers(root[t], mem, mem', vpn)
<1>1. root[t] # None /\ vpn \in DOMAIN data[t] /\ t \notin zombie
  BY FindsPages DEF unmap
<1>2. PICK R, F, D, f, D2 : /\ R = root[t] /\ F = frames[t] /\ D = data[t] /\ f = data[t][vpn]
                            /\ D2 = [v \in DOMAIN D \ {vpn} |-> D[v]]
  OBVIOUS
<1>3. f \in Frames /\ f \in Own(frames, data, zombie, t) /\ f \notin F /\ mem \in Memories /\ F \subseteq Frames
  BY <1>1, <1>2, TableTypes DEF IInv, Own, Pages, OwnPages
<1>4. Tree(R, F, D, mem)
  BY <1>1, <1>2 DEF IInv, Trees
<1>5. PICK i \in Slots, j \in Slots, k \in Slots : indexes(vpn) = <<i, j, k>>
  BY IndexesDigits DEF Digits
<1>6. Walks(t, vpn, i, j, k)
  BY <1>1, <1>5, Walk DEF IInv
<1>7. PICK g : g = LeafOf(mem, R, i, j)
  OBVIOUS
<1>8. HasLeaf(mem, R, i, j) /\ g \in F
  BY <1>1, <1>2, <1>4, <1>5, <1>7 DEF Tree, Paged, Shows, Inside
<1>9. find_pte(R, vpn) = [frame |-> g, slot |-> k]
  BY <1>2, <1>6, <1>7, <1>8 DEF Walks
<1>10. PICK m2 : m2 = Store(mem, g, k, 0)
  OBVIOUS
<1>11. Stores(mem, m2, g, k, 0)
  BY <1>3, <1>8, <1>10, StoreOne
<1>12. /\ mem' = Junked(m2, {f}) /\ root' = root /\ frames' = frames /\ free' = free \cup {f}
       /\ data' = [data EXCEPT ![t] = D2] /\ zombie' = zombie
  BY <1>2, <1>9, <1>10 DEF unmap
<1>13. mem' \in Memories /\ \A h \in Frames : h # f => mem'[h] = m2[h]
  BY <1>11, <1>12, JunkedSome DEF Stores
<1>14. DOMAIN D \subseteq MapVpns /\ D \in [DOMAIN D -> Frames] /\ D2 \in [DOMAIN D \ {vpn} -> Frames] /\ data'[t] = D2
  BY <1>2, <1>12, TableTypes DEF IInv, TypeOK
<1>15. Loses(D, D2, vpn)
  BY <1>2, <1>14 DEF Loses
<1>16. LeafStore(R, F, mem, mem', i, j, k, 0)
  <2>1. g # f /\ mem'[g] = m2[g]
    BY <1>3, <1>8, <1>13
  <2>2. ASSUME NEW h \in F, NEW s \in Slots, ~ (h = g /\ s = k) PROVE mem'[h][s] = mem[h][s]
    BY <1>3, <1>11, <1>13, <2>2 DEF Stores
  <2> QED BY <1>7, <1>8, <1>11, <2>1, <2>2 DEF LeafStore, Stores
<1>17. Tree(R, F, D2, mem') /\ KeepsOthers(R, mem, mem', vpn)
  BY <1>4, <1>5, <1>14, <1>15, <1>16, ClearEntry
<1>18. TypeOK'
  <2>1. D2 \in UNION {[E -> Frames] : E \in SUBSET MapVpns}
    <3>1. DOMAIN D \ {vpn} \in SUBSET MapVpns
      BY <1>14
    <3> QED BY <1>14, <3>1
  <2>2. data' \in [Tables -> UNION {[E -> Frames] : E \in SUBSET MapVpns}]
    BY <1>12, <2>1 DEF IInv, TypeOK
  <2> QED BY <1>3, <1>12, <1>13, <2>2 DEF IInv, TypeOK, Memories
<1>19. OwnPages(F, D) /\ OwnPages(F, D2) /\ \A v \in DOMAIN D2 : D2[v] # f
  <2>1. OwnPages(F, D)
    BY <1>2 DEF IInv, Pages
  <2> QED BY <1>1, <1>2, <1>15, <2>1 DEF OwnPages, Loses
<1>20. Own(frames', data', zombie', t) \subseteq Own(frames, data, zombie, t) /\ f \notin Own(frames', data', zombie', t)
  <2>1. Own(frames', data', zombie', t) = F \cup {D2[v] : v \in DOMAIN D2}
    <3>1. t \notin zombie' /\ frames'[t] = F /\ data'[t] = D2
      BY <1>1, <1>2, <1>12, <1>14
    <3> QED BY <3>1 DEF Own
  <2>2. Own(frames, data, zombie, t) = F \cup {D[v] : v \in DOMAIN D}
    BY <1>1, <1>2 DEF Own
  <2> QED BY <1>3, <1>15, <1>19, <2>1, <2>2 DEF Loses
<1>21. Elsewhere(t)
  <2>1. \A u \in Tables : u # t => root'[u] = root[u] /\ frames'[u] = frames[u] /\ data'[u] = data[u]
    BY <1>12 DEF IInv, TypeOK
  <2>2. ASSUME NEW h \in Frames, h \notin Own(frames, data, zombie, t) PROVE mem'[h] = mem[h]
    <3>1. h # f /\ h # g
      BY <1>2, <1>3, <1>8, <2>2 DEF Own
    <3> QED BY <1>11, <1>13, <3>1 DEF Stores
  <2>3. Own(frames', data', zombie', t) \cap free' = {}
    BY <1>12, <1>20 DEF IInv, Separate
  <2> QED BY <1>3, <1>12, <1>20, <2>1, <2>2, <2>3 DEF Elsewhere
<1>22. IInv' /\ OthersKeep(t)
  BY <1>1, <1>2, <1>12, <1>14, <1>17, <1>18, <1>19, <1>21, OneTable
<1> QED BY <1>1, <1>2, <1>12, <1>14, <1>15, <1>17, <1>22

\* map_one: find_pte_create makes the levels that are missing, then the entry
\* is stored.
LEMMA MapStep ==
    ASSUME IInv, NEW t \in Tables, NEW vpn \in MapVpns, NEW fl \in MapFlags, map(t, vpn, fl)
    PROVE  /\ IInv' /\ OthersKeep(t) /\ root' = root
           /\ \E d \in Frames : Gains(data[t], data'[t], vpn, d)
           /\ KeepsOthers(root[t], mem, mem', vpn)
<1>1. root[t] # None /\ vpn \notin DOMAIN data[t] /\ t \notin zombie
  BY FindsPages DEF map
<1>2. PICK R, F, D, d, n : /\ R = root[t] /\ F = frames[t] /\ D = data[t] /\ d = Fresh1 /\ n = Missing(R, vpn)
  OBVIOUS
<1>3. PICK lv, D2 : lv = Levels(R, vpn) /\ D2 = [v \in DOMAIN D \cup {vpn} |-> IF v = vpn THEN d ELSE D[v]]
  OBVIOUS
<1>4. mem \in Memories /\ R \in F /\ F \subseteq Frames /\ Tree(R, F, D, mem) /\ free \subseteq Frames
  BY <1>1, <1>2, TableTypes DEF IInv, Trees, Tree, Inside
<1>5. PICK i \in Slots, j \in Slots, k \in Slots : indexes(vpn) = <<i, j, k>>
  BY IndexesDigits DEF Digits
<1>6. indexes(vpn)[1] = i /\ indexes(vpn)[2] = j /\ indexes(vpn)[3] = k
  BY <1>5
<1>7. PICK S : S = {d} \cup lv.created
  OBVIOUS
<1>8. PICK m0 : m0 = [f \in Frames |-> IF f \in S THEN Zero ELSE mem[f]]
  OBVIOUS
<1>9. PICK m1 : m1 = IF n = 2 THEN Store(m0, R, i, LevelPte(lv.mid)) ELSE m0
  OBVIOUS
<1>10. PICK m2 : m2 = IF n > 0 THEN Store(m1, lv.mid, j, LevelPte(lv.leaf)) ELSE m1
  OBVIOUS
<1>11. /\ mem' = Store(m2, lv.leaf, k, PteNew(d, fl + V)) /\ root' = root
       /\ frames' = [frames EXCEPT ![t] = @ \cup lv.created]
       /\ data' = [data EXCEPT ![t] = D2] /\ free' = free \ S /\ zombie' = zombie
       /\ Cardinality(free) > n
  BY <1>2, <1>3, <1>6, <1>7, <1>8, <1>9, <1>10 DEF map, Cleared
<1>12. Clears(mem, m0, S)
  BY <1>4, <1>8, ClearSome
<1>13. /\ n \in {0, 1, 2}
       /\ n = 2 <=> ~ HasMid(mem, R, i)
       /\ n = 0 <=> HasLeaf(mem, R, i, j)
  BY <1>2, <1>6 DEF Missing, HasMid, HasLeaf, MidOf
<1>14. Cardinality(free) \in Nat
  BY <1>4, Widths, FS_Subset, FS_CardinalityType
<1>15. d \in free
  BY <1>2, <1>11, <1>13, <1>14, FreshFrames DEF IInv
<1>16. free \cap F = {}
  BY <1>2 DEF IInv, Separate, Own
<1>17. /\ S \subseteq free /\ d \notin lv.created /\ m2 \in Memories /\ lv.leaf \in F \cup lv.created
       /\ \A f \in Frames : f \notin F /\ f \notin S => m2[f] = mem[f]
       /\ Ready(R, F \cup lv.created, D, mem, m2, i, j, lv.leaf)
  <2>1. CASE n = 0
    <3>1. lv.mid = MidOf(mem, R, i) /\ lv.leaf = LeafOf(mem, R, i, j) /\ lv.created = {}
      BY <1>2, <1>3, <1>6, <2>1 DEF Levels, MidOf, LeafOf
    <3>2. m2 = m0 /\ S \subseteq free /\ F \cap S = {}
      BY <1>7, <1>9, <1>10, <1>15, <1>16, <2>1, <3>1
    <3>3. Ready(R, F, D, mem, m2, i, j, lv.leaf) /\ F \cup lv.created = F
      BY <1>4, <1>12, <1>13, <2>1, <3>1, <3>2, ReadyBoth
    <3>4. lv.leaf \in F
      BY <1>4, <1>13, <2>1, <3>1 DEF Tree, Inside
    <3> QED BY <1>12, <3>1, <3>2, <3>3, <3>4 DEF Clears
  <2>2. CASE n = 1
    <3>1. PICK b : b = Fresh2
      OBVIOUS
    <3>2. lv.mid = MidOf(mem, R, i) /\ lv.leaf = b /\ lv.created = {b}
      BY <1>2, <1>3, <1>6, <2>2, <3>1 DEF Levels, MidOf
    <3>3. b \in free /\ b # d
      BY <1>2, <1>11, <2>2, <3>1, FreshFrames DEF IInv
    <3>4. S \subseteq free /\ F \cap S = {} /\ b \in Frames \cap S
      BY <1>4, <1>7, <1>15, <1>16, <3>2, <3>3
    <3>5. HasMid(mem, R, i) /\ ~ HasLeaf(mem, R, i, j) /\ MidOf(mem, R, i) \in F
      BY <1>4, <1>13, <2>2 DEF Tree, Inside
    <3>6. m2 = Store(m0, MidOf(mem, R, i), j, LevelPte(b))
      BY <1>9, <1>10, <2>2, <3>2
    <3>7. Stores(m0, m2, MidOf(mem, R, i), j, LevelPte(b))
      <4>1. LevelPte(b) \in Nat /\ MidOf(mem, R, i) \in Frames /\ m0 \in Memories
        BY <1>4, <1>12, <3>4, <3>5, LevelFields DEF Clears
      <4> QED BY <3>6, <4>1, StoreOne
    <3>8. Ready(R, F \cup {b}, D, mem, m2, i, j, b)
      BY <1>4, <1>12, <3>4, <3>5, <3>7, ReadyLeaf
    <3>9. \A f \in Frames : f \notin F /\ f \notin S => m2[f] = mem[f]
      BY <1>12, <3>5, <3>7 DEF Clears, Stores
    <3> QED BY <3>2, <3>3, <3>4, <3>7, <3>8, <3>9 DEF Stores
  <2>3. CASE n = 2
    <3>1. PICK a, b : a = Fresh2 /\ b = Fresh3
      OBVIOUS
    <3>2. lv.mid = a /\ lv.leaf = b /\ lv.created = {a, b}
      BY <1>2, <1>3, <2>3, <3>1 DEF Levels
    <3>3. a \in free /\ b \in free /\ a # d /\ b # d /\ a # b
      <4>1. Cardinality(free) > 2 /\ Cardinality(free) > 1
        BY <1>11, <1>14, <2>3
      <4> QED BY <1>2, <3>1, <4>1, FreshFrames DEF IInv
    <3>4. S \subseteq free /\ F \cap S = {} /\ a \in Frames \cap S /\ b \in Frames \cap S
      BY <1>4, <1>7, <1>15, <1>16, <3>2, <3>3
    <3>5. m1 = Store(m0, R, i, LevelPte(a)) /\ m2 = Store(m1, a, j, LevelPte(b))
      BY <1>9, <1>10, <2>3, <3>2
    <3>6. LevelPte(a) \in Nat /\ LevelPte(b) \in Nat /\ R \in Frames /\ m0 \in Memories
      BY <1>4, <1>12, <3>4, LevelFields DEF Clears
    <3>7. Stores(m0, m1, R, i, LevelPte(a))
      BY <3>5, <3>6, StoreOne
    <3>8. Stores(m1, m2, a, j, LevelPte(b))
      <4>1. m1 \in Memories /\ a \in Frames
        BY <3>4, <3>7 DEF Stores
      <4> QED BY <3>5, <3>6, <4>1, StoreOne
    <3>9. Ready(R, (F \cup {a}) \cup {b}, D, mem, m2, i, j, b)
      BY <1>4, <1>12, <1>13, <2>3, <3>3, <3>4, <3>7, <3>8, ReadyMid
    <3>10. (F \cup {a}) \cup {b} = F \cup lv.created
      BY <3>2
    <3>11. \A f \in Frames : f \notin F /\ f \notin S => m2[f] = mem[f]
      BY <1>4, <1>12, <3>4, <3>7, <3>8 DEF Clears, Stores
    <3> QED BY <3>2, <3>3, <3>4, <3>8, <3>9, <3>10, <3>11 DEF Stores
  <2> QED BY <1>13, <2>1, <2>2, <2>3
<1>18. PICK F2, g : F2 = F \cup lv.created /\ g = lv.leaf
  OBVIOUS
<1>19. F2 \subseteq Frames /\ g \in F2 /\ d \notin F2 /\ d \in Frames /\ F2 \subseteq F \cup S
  BY <1>4, <1>7, <1>15, <1>16, <1>17, <1>18
<1>20. Stores(m2, mem', g, k, PteNew(d, fl + V))
  <2>1. PteNew(d, fl + V) \in Nat
    BY <1>19, PteFields
  <2> QED BY <1>11, <1>17, <1>18, <1>19, <2>1, StoreOne
<1>21. DOMAIN D \subseteq MapVpns /\ D \in [DOMAIN D -> Frames] /\ OwnPages(F, D)
  BY <1>2, TableTypes DEF IInv, Pages
<1>22. D2 \in [DOMAIN D \cup {vpn} -> Frames] /\ data'[t] = D2 /\ frames'[t] = F2
  BY <1>2, <1>3, <1>11, <1>18, <1>19, <1>21 DEF IInv, TypeOK
<1>23. Gains(D, D2, vpn, d)
  BY <1>1, <1>2, <1>3, <1>22 DEF Gains
<1>24. LeafStore(R, F2, m2, mem', i, j, k, PteNew(d, fl + V))
  BY <1>17, <1>18, <1>19, <1>20 DEF LeafStore, Ready, Stores
<1>25. Tree(R, F2, D, m2) /\ KeepsEntries(R, mem, m2)
  BY <1>17, <1>18 DEF Ready
<1>26. Tree(R, F2, D2, mem') /\ KeepsOthers(R, m2, mem', vpn)
  BY <1>5, <1>21, <1>23, <1>24, <1>25, SetEntry
<1>27. KeepsOthers(R, mem, mem', vpn)
  BY <1>25, <1>26, KeepsChainOthers
<1>28. TypeOK'
  <2>1. D2 \in UNION {[E -> Frames] : E \in SUBSET MapVpns}
    <3>1. DOMAIN D \cup {vpn} \in SUBSET MapVpns
      BY <1>21
    <3> QED BY <1>22, <3>1
  <2>2. data' \in [Tables -> UNION {[E -> Frames] : E \in SUBSET MapVpns}]
    BY <1>11, <2>1 DEF IInv, TypeOK
  <2>3. frames' \in [Tables -> SUBSET Frames]
    BY <1>2, <1>11, <1>18, <1>19 DEF IInv, TypeOK
  <2>4. mem' \in [Frames -> [Slots -> Nat]]
    BY <1>20 DEF Stores, Memories
  <2> QED BY <1>11, <2>2, <2>3, <2>4 DEF IInv, TypeOK
<1>29. \A v \in DOMAIN D : D[v] \notin free /\ D[v] \notin F
  <2>1. \A v \in DOMAIN D : D[v] \in Own(frames, data, zombie, t)
    BY <1>1, <1>2 DEF Own
  <2> QED BY <1>21, <2>1 DEF IInv, Separate, OwnPages
<1>30. OwnPages(F2, D2)
  <2>1. ASSUME NEW v \in DOMAIN D2 PROVE D2[v] \notin F2 /\ (v # vpn => v \in DOMAIN D /\ D2[v] = D[v] /\ D2[v] # d)
    BY <1>15, <1>17, <1>18, <1>19, <1>23, <1>29, <1>7 DEF Gains
  <2>2. ASSUME NEW v \in DOMAIN D2, NEW w \in DOMAIN D2, D2[v] = D2[w] PROVE v = w
    BY <1>21, <1>23, <2>1, <2>2 DEF Gains, OwnPages
  <2> QED BY <2>1, <2>2 DEF OwnPages
<1>31. Own(frames', data', zombie', t) = F2 \cup {D2[v] : v \in DOMAIN D2} /\ Own(frames, data, zombie, t) = F \cup {D[v] : v \in DOMAIN D}
  BY <1>1, <1>2, <1>11, <1>22 DEF Own
<1>32. Own(frames', data', zombie', t) \subseteq Own(frames, data, zombie, t) \cup S
  <2>1. \A v \in DOMAIN D2 : D2[v] = d \/ (v \in DOMAIN D /\ D2[v] = D[v])
    BY <1>23 DEF Gains
  <2> QED BY <1>7, <1>19, <1>31, <2>1
<1>33. Elsewhere(t)
  <2>1. \A u \in Tables : u # t => root'[u] = root[u] /\ frames'[u] = frames[u] /\ data'[u] = data[u]
    BY <1>11 DEF IInv, TypeOK
  <2>2. ASSUME NEW f \in Frames, f \notin Own(frames, data, zombie, t), f \notin free PROVE mem'[f] = mem[f]
    <3>1. f \notin F /\ f \notin S /\ f # g
      BY <1>17, <1>19, <1>31, <2>2
    <3> QED BY <1>17, <1>20, <3>1 DEF Stores
  <2>3. Own(frames', data', zombie', t) \cap free' = {}
    <3>1. Own(frames, data, zombie, t) \cap free = {}
      BY DEF IInv, Separate
    <3> QED BY <1>11, <1>32, <3>1
  <2> QED BY <1>11, <1>17, <1>32, <2>1, <2>2, <2>3 DEF Elsewhere
<1>34. IInv' /\ OthersKeep(t)
  <2>1. root'[t] = R /\ R # None
    BY <1>1, <1>2, <1>11
  <2> QED BY <1>22, <1>26, <1>28, <1>30, <1>33, <2>1, OneTable
<1> QED BY <1>2, <1>11, <1>19, <1>22, <1>23, <1>27, <1>34

-----------------------------------------------------------------------------
(* The invariant holds.                                                    *)

\* Before the first table there are only free frames.
LEMMA InitIInv == Init => IInv
<1> SUFFICES ASSUME Init PROVE IInv
  OBVIOUS
<1>1. NoPages \in [{} -> Frames] /\ DOMAIN NoPages = {}
  BY DEF NoPages
<1>2. TypeOK
  <2>1. NoPages \in UNION {[D -> Frames] : D \in SUBSET MapVpns}
    BY <1>1
  <2>2. mem \in [Frames -> [Slots -> Nat]]
    BY Widths DEF Init, JunkPage
  <2> QED BY <2>1, <2>2 DEF Init, TypeOK
<1>3. Gone /\ Pages /\ Trees
  BY <1>1 DEF Init, Gone, Pages, Trees, OwnPages
<1>4. \A t \in Tables : Own(frames, data, zombie, t) = {}
  BY <1>1 DEF Init, Own
<1>5. Separate(frames, data, zombie, free)
  BY <1>4 DEF Separate
<1> QED BY <1>2, <1>3, <1>5 DEF IInv

\* Nothing happens.
LEMMA StutterStep == ASSUME IInv, UNCHANGED vars PROVE IInv'
BY DEF vars, IInv, TypeOK, Trees, Tree, Inside, Apart, Covers, Listed, Paged, Shows, HasLeaf, LeafOf,
       HasMid, MidOf, Gone, Pages, OwnPages, Separate, Own

\* The invariant holds in every reachable state.
THEOREM Invariance == Spec => []IInv
<1>1. IInv /\ [Next]_vars => IInv'
  <2> SUFFICES ASSUME IInv, [Next]_vars PROVE IInv'
    OBVIOUS
  <2>1. ASSUME NEW t \in Tables, new_table(t) PROVE IInv'
    BY <2>1, NewStep
  <2>2. ASSUME NEW t \in Tables, drop(t) PROVE IInv'
    BY <2>2, DropStep
  <2>3. ASSUME NEW t \in Tables, NEW vpn \in MapVpns, NEW fl \in MapFlags, map(t, vpn, fl) PROVE IInv'
    BY <2>3, MapStep
  <2>4. ASSUME NEW t \in Tables, NEW vpn \in MapVpns, unmap(t, vpn) PROVE IInv'
    BY <2>4, UnmapStep
  <2>5. ASSUME NEW t \in Tables, NEW vpn \in MapVpns, scribble(t, vpn) PROVE IInv'
    BY <2>5, ScribbleStep
  <2>6. ASSUME NEW t \in Tables, recycle_data_pages(t) PROVE IInv'
    BY <2>6, RecycleStep
  <2> QED BY <2>1, <2>2, <2>3, <2>4, <2>5, <2>6, StutterStep DEF Next
<1> QED BY <1>1, InitIInv, PTL DEF Spec

\* Counting along a one-to-one correspondence.
SameCount(S, T) == IsFiniteSet(T) /\ Cardinality(T) = Cardinality(S)

\* A one-to-one correspondence with a finite set.
LEMMA OneToOne ==
    ASSUME NEW S, IsFiniteSet(S), NEW T, NEW f \in [S -> T],
           \A x, y \in S : f[x] = f[y] => x = y, \A y \in T : \E x \in S : f[x] = y
    PROVE  SameCount(S, T)
<1>1. f \in Injection(S, T)
  BY DEF Injection, IsInjective
<1>2. f \in Surjection(S, T)
  BY DEF Surjection
<1>3. ExistsBijection(S, T)
  BY <1>1, <1>2 DEF ExistsBijection, Bijection
<1> QED BY <1>3, FS_Bijection DEF SameCount

\* Three sets without common members count up.
LEMMA CountThree ==
    ASSUME NEW r, NEW A, NEW B, IsFiniteSet(A), IsFiniteSet(B), r \notin A, r \notin B, A \cap B = {}
    PROVE  Cardinality(({r} \cup A) \cup B) = 1 + Cardinality(A) + Cardinality(B)
<1>1. IsFiniteSet({r}) /\ Cardinality({r}) = 1
  BY FS_Singleton
<1>2. PICK C : C = {r} \cup A
  OBVIOUS
<1>3. IsFiniteSet(C) /\ Cardinality(C) = Cardinality({r}) + Cardinality(A) - Cardinality({r} \cap A)
  BY <1>1, <1>2, FS_Union
<1>4. Cardinality({r} \cap A) = 0
  <2>1. {r} \cap A = {}
    OBVIOUS
  <2> QED BY <2>1, FS_EmptySet
<1>5. Cardinality(C \cup B) = Cardinality(C) + Cardinality(B) - Cardinality(C \cap B)
  BY <1>3, FS_Union
<1>6. Cardinality(C \cap B) = 0
  <2>1. C \cap B = {}
    BY <1>2
  <2> QED BY <2>1, FS_EmptySet
<1>7. Cardinality(A) \in Nat /\ Cardinality(B) \in Nat
  BY FS_CardinalityType
<1> QED BY <1>1, <1>2, <1>3, <1>4, <1>5, <1>6, <1>7

\* Along every way of map, unmap, reuse of frames and user stores, the valid
\* entries of a table lead to exactly the frames it tracks, to each along one
\* way only, and no frame belongs to two tables, to a table and a page, or
\* to one of them and the allocator.
THEOREM TablesAreTrees == Spec => []OwnTree
<1>1. ASSUME IInv PROVE OwnTree
  <2>1. ASSUME NEW t \in Tables, root[t] # None
        PROVE  /\ frames[t] = {root[t]} \cup {Mid(t, i) : i \in Mids(t)} \cup {Leaf(t, ij) : ij \in Leaves(t)}
               /\ Cardinality(frames[t]) = 1 + Cardinality(Mids(t)) + Cardinality(Leaves(t))
               /\ frames[t] \cap (free \cup DataFrames(t)) = {}
    <3>1. PICK R, F, A, B : /\ R = root[t] /\ F = frames[t] /\ A = {Mid(t, i) : i \in Mids(t)}
                            /\ B = {Leaf(t, ij) : ij \in Leaves(t)}
      OBVIOUS
    <3>2. Tree(R, F, data[t], mem)
      BY <1>1, <2>1, <3>1 DEF IInv, Trees
    <3>3. \A i \in Slots : (i \in Mids(t) <=> HasMid(mem, R, i)) /\ Mid(t, i) = MidOf(mem, R, i)
      BY <3>1 DEF Mids, Mid, HasMid, MidOf
    <3>4. \A i, j \in Slots : /\ <<i, j>> \in Leaves(t) <=> HasLeaf(mem, R, i, j)
                              /\ Leaf(t, <<i, j>>) = LeafOf(mem, R, i, j)
      BY <3>3 DEF Leaves, Leaf, HasLeaf, LeafOf
    <3>5. Mids(t) \subseteq Slots /\ \A ij \in Leaves(t) : \E i, j \in Slots : ij = <<i, j>>
      BY DEF Mids, Leaves
    <3>6. F = ({R} \cup A) \cup B
      <4>1. A \subseteq F /\ R \in F
        BY <3>1, <3>2, <3>3, <3>5 DEF Tree, Inside
      <4>2. B \subseteq F
        BY <3>1, <3>2, <3>4, <3>5 DEF Tree, Inside
      <4>3. ASSUME NEW f \in F PROVE f \in ({R} \cup A) \cup B
        <5>1. CASE f = R
          BY <5>1
        <5>2. CASE \E i \in Slots : HasMid(mem, R, i) /\ f = MidOf(mem, R, i)
          BY <3>1, <3>3, <5>2
        <5>3. CASE \E i, j \in Slots : HasLeaf(mem, R, i, j) /\ f = LeafOf(mem, R, i, j)
          <6>1. PICK i \in Slots, j \in Slots : HasLeaf(mem, R, i, j) /\ f = LeafOf(mem, R, i, j)
            BY <5>3
          <6>2. <<i, j>> \in Leaves(t) /\ f = Leaf(t, <<i, j>>)
            BY <3>4, <6>1
          <6> QED BY <3>1, <6>2
        <5> QED BY <3>2, <5>1, <5>2, <5>3 DEF Tree, Covers
      <4> QED BY <4>1, <4>2, <4>3
    <3>7. R \notin A /\ R \notin B /\ A \cap B = {}
      <4>1. R \notin A
        BY <3>1, <3>2, <3>3, <3>5 DEF Tree, Inside
      <4>2. R \notin B
        BY <3>1, <3>2, <3>4, <3>5 DEF Tree, Inside
      <4>3. ASSUME NEW i \in Mids(t), NEW kl \in Leaves(t) PROVE Mid(t, i) # Leaf(t, kl)
        BY <3>2, <3>3, <3>4, <3>5 DEF Tree, Apart
      <4> QED BY <3>1, <4>1, <4>2, <4>3
    <3>8. IsFiniteSet(Slots) /\ IsFiniteSet(Mids(t)) /\ IsFiniteSet(Leaves(t))
      <4>1. IsFiniteSet(Slots)
        <5>1. 0 \in Int /\ Fan - 1 \in Int
          BY Widths
        <5> QED BY <5>1, FS_Interval DEF Slots
      <4>2. Mids(t) \in SUBSET Slots /\ Leaves(t) \in SUBSET (Mids(t) \X Slots)
        BY <3>5 DEF Leaves
      <4>3. IsFiniteSet(Mids(t))
        BY <4>1, <4>2, FS_Subset
      <4>4. IsFiniteSet(Mids(t) \X Slots)
        BY <4>1, <4>3, FS_Product
      <4> QED BY <4>1, <4>2, <4>3, <4>4, FS_Subset
    <3>9. SameCount(Mids(t), A)
      <4>1. PICK g : g = [i \in Mids(t) |-> Mid(t, i)]
        OBVIOUS
      <4>2. g \in [Mids(t) -> A] /\ \A y \in A : \E x \in Mids(t) : g[x] = y
        BY <3>1, <4>1
      <4>3. \A x, y \in Mids(t) : g[x] = g[y] => x = y
        BY <3>2, <3>3, <3>5, <4>1 DEF Tree, Apart
      <4> QED BY <3>8, <4>2, <4>3, OneToOne
    <3>10. SameCount(Leaves(t), B)
      <4>1. PICK g : g = [ij \in Leaves(t) |-> Leaf(t, ij)]
        OBVIOUS
      <4>2. g \in [Leaves(t) -> B] /\ \A y \in B : \E x \in Leaves(t) : g[x] = y
        BY <3>1, <4>1
      <4>3. \A x, y \in Leaves(t) : g[x] = g[y] => x = y
        BY <3>2, <3>4, <3>5, <4>1 DEF Tree, Apart
      <4> QED BY <3>8, <4>2, <4>3, OneToOne
    <3>11. Cardinality(F) = 1 + Cardinality(A) + Cardinality(B)
      BY <3>6, <3>7, <3>9, <3>10, CountThree DEF SameCount
    <3>12. frames[t] \cap (free \cup DataFrames(t)) = {}
      BY <1>1 DEF IInv, Separate, Own, Pages, OwnPages, DataFrames
    <3> QED BY <3>1, <3>6, <3>9, <3>10, <3>11, <3>12 DEF SameCount
  <2>2. ASSUME NEW t \in Tables, NEW u \in Tables, t # u
        PROVE  (frames[t] \cup DataFrames(t)) \cap (frames[u] \cup DataFrames(u)) = {}
    BY <1>1, <2>2 DEF IInv, Separate, Own, DataFrames
  <2> QED BY <2>1, <2>2 DEF OwnTree
<1> QED BY <1>1, Invariance, PTL

-----------------------------------------------------------------------------
(* The walk implements the flat map.                                       *)

\* The entry at the end of the walk for page v, and what a lookup shows.
EntryAt(m, R, v) == m[LeafOf(m, R, indexes(v)[1], indexes(v)[2])][indexes(v)[3]]
Seen(R, D, m, v) == IF v \in DOMAIN D THEN EntryAt(m, R, v) ELSE None

PageEntries == {PteNew(f, fl + V) : f \in Frames, fl \in MapFlags}

\* A lookup shows the entry of each mapped page and nothing else.
LookupIs ==
    \A t \in Tables, v \in MapVpns :
       /\ Lookup(t)[v] = Seen(root[t], data[t], mem, v)
       /\ v \in DOMAIN data[t] => Lookup(t)[v] \in PageEntries

\* The invariant says what every lookup shows.
LEMMA LookupIsSeen == IInv => LookupIs
<1> SUFFICES ASSUME IInv, NEW t \in Tables, NEW v \in MapVpns
             PROVE  /\ Lookup(t)[v] = Seen(root[t], data[t], mem, v)
                    /\ v \in DOMAIN data[t] => Lookup(t)[v] \in PageEntries
  BY DEF LookupIs
<1>1. Lookup(t)[v] = IF root[t] = None THEN None
                     ELSE IF find_vpn(token(t), v) THEN translate(token(t), v) ELSE None
  BY DEF Lookup
<1>2. CASE root[t] = None
  BY <1>1, <1>2 DEF IInv, Gone, Seen
<1>3. CASE root[t] # None /\ v \notin DOMAIN data[t]
  BY <1>1, <1>3, FindsPages DEF Seen
<1>4. CASE root[t] # None /\ v \in DOMAIN data[t]
  <2>1. PICK i \in Slots, j \in Slots, k \in Slots : indexes(v) = <<i, j, k>>
    BY IndexesDigits DEF Digits
  <2>2. Walks(t, v, i, j, k)
    BY <1>4, <2>1, Walk DEF IInv
  <2>3. find_vpn(token(t), v) /\ \E fl \in MapFlags : translate(token(t), v) = PteNew(data[t][v], fl + V)
    BY <1>4, FindsPages
  <2>4. translate(token(t), v) = mem[LeafOf(mem, root[t], i, j)][k]
    BY <2>2, <2>3 DEF Walks
  <2>5. EntryAt(mem, root[t], v) = mem[LeafOf(mem, root[t], i, j)][k]
    BY <2>1 DEF EntryAt
  <2>6. data[t][v] \in Frames
    BY <1>4, TableTypes DEF IInv
  <2> QED BY <1>1, <1>4, <2>3, <2>4, <2>5, <2>6 DEF Seen, PageEntries
<1> QED BY <1>2, <1>3, <1>4

\* An entry is a number, so it is not None.
LEMMA EntryThere == ASSUME NEW e \in PageEntries PROVE e \in Nat /\ e # None
<1>1. PICK f \in Frames, fl \in MapFlags : e = PteNew(f, fl + V)
  BY DEF PageEntries
<1> QED BY <1>1, PteFields, Widths

\* The same for the state after a step.
LEMMA LookupNext ==
    ASSUME IInv', NEW t \in Tables, NEW v \in MapVpns
    PROVE  /\ Lookup(t)'[v] = Seen(root'[t], data'[t], mem', v)
           /\ v \in DOMAIN data'[t] => Lookup(t)'[v] \in PageEntries
<1>1. IInv' => LookupIs'
  BY LookupIsSeen, PTL
<1>2. LookupIs'
  BY <1>1
<1>3. Seen(root[t], data[t], mem, v)' = Seen(root'[t], data'[t], mem', v)
  BY DEF Seen, EntryAt, LeafOf, MidOf
<1>4. PageEntries' = PageEntries
  BY DEF PageEntries, PteNew, V
<1> QED BY <1>2, <1>3, <1>4 DEF LookupIs

\* What keeps the entries of a tree keeps what its lookups show.
SameEntry(R, m, m2, v) == EntryAt(m2, R, v) = EntryAt(m, R, v)

\* The walk for a mapped page finds all levels.
LEMMA PageHasLeaf ==
    ASSUME IInv, NEW t \in Tables, root[t] # None, NEW v \in DOMAIN data[t]
    PROVE  \E i, j, k \in Slots : indexes(v) = <<i, j, k>> /\ HasLeaf(mem, root[t], i, j)
<1>1. v \in MapVpns /\ Tree(root[t], frames[t], data[t], mem)
  BY TableTypes DEF IInv, Trees
<1>2. PICK i \in Slots, j \in Slots, k \in Slots : indexes(v) = <<i, j, k>>
  BY <1>1, IndexesDigits DEF Digits
<1> QED BY <1>1, <1>2 DEF Tree, Paged, Shows

\* A memory that keeps a table's entries shows the same entry,
LEMMA KeepsSeen ==
    ASSUME IInv, NEW t \in Tables, root[t] # None, NEW v \in DOMAIN data[t], NEW m2, KeepsEntries(root[t], mem, m2)
    PROVE  SameEntry(root[t], mem, m2, v)
<1>1. PICK i \in Slots, j \in Slots, k \in Slots : indexes(v) = <<i, j, k>> /\ HasLeaf(mem, root[t], i, j)
  BY PageHasLeaf
<1>2. indexes(v)[1] = i /\ indexes(v)[2] = j /\ indexes(v)[3] = k
  BY <1>1
<1>3. LeafOf(m2, root[t], i, j) = LeafOf(mem, root[t], i, j)
      /\ m2[LeafOf(mem, root[t], i, j)][k] = mem[LeafOf(mem, root[t], i, j)][k]
  BY <1>1 DEF KeepsEntries
<1> QED BY <1>2, <1>3 DEF SameEntry, EntryAt

\* and so does one that keeps all but that of another page.
LEMMA KeepsSeenOthers ==
    ASSUME IInv, NEW t \in Tables, root[t] # None, NEW v \in DOMAIN data[t], NEW x \in MapVpns, x # v,
           NEW m2, KeepsOthers(root[t], mem, m2, x)
    PROVE  SameEntry(root[t], mem, m2, v)
<1>1. PICK i \in Slots, j \in Slots, k \in Slots : indexes(v) = <<i, j, k>> /\ HasLeaf(mem, root[t], i, j)
  BY PageHasLeaf
<1>2. indexes(v)[1] = i /\ indexes(v)[2] = j /\ indexes(v)[3] = k
  BY <1>1
<1>3. v \in MapVpns
  BY TableTypes DEF IInv
<1>4. indexes(x) # <<i, j, k>>
  BY <1>1, <1>3, IndexesOne
<1>5. LeafOf(m2, root[t], i, j) = LeafOf(mem, root[t], i, j)
      /\ m2[LeafOf(mem, root[t], i, j)][k] = mem[LeafOf(mem, root[t], i, j)][k]
  BY <1>1, <1>4 DEF KeepsOthers
<1> QED BY <1>2, <1>5 DEF SameEntry, EntryAt

\* A table whose pages and root stay, and whose entries are kept, looks the same.
Still(u) == \A v \in MapVpns : Lookup(u)'[v] = Lookup(u)[v]

\* The same in terms of one step.
LEMMA StillStep ==
    ASSUME IInv, IInv', NEW u \in Tables, root'[u] = root[u], data'[u] = data[u],
           root[u] # None => KeepsEntries(root[u], mem, mem')
    PROVE  Still(u)
<1>1. ASSUME NEW v \in MapVpns PROVE Lookup(u)'[v] = Lookup(u)[v]
  <2>1. Lookup(u)'[v] = Seen(root[u], data[u], mem', v)
    BY LookupNext
  <2>2. Lookup(u)[v] = Seen(root[u], data[u], mem, v)
    BY LookupIsSeen DEF LookupIs
  <2>3. CASE v \in DOMAIN data[u]
    <3>1. root[u] # None
      BY <2>3 DEF IInv, Gone
    <3>2. SameEntry(root[u], mem, mem', v)
      BY <2>3, <3>1, KeepsSeen
    <3> QED BY <2>1, <2>2, <3>2 DEF SameEntry, Seen
  <2>4. CASE v \notin DOMAIN data[u]
    BY <2>1, <2>2, <2>4 DEF Seen
  <2> QED BY <2>3, <2>4
<1> QED BY <1>1 DEF Still

\* The variables of the flat map.
alive == {t \in Tables : root[t] # None}
table == [t \in Tables |-> Lookup(t)]

\* Two flat maps that differ in one entry at most.
OnlyAt(T, T2, t, v) == T2 = [T EXCEPT ![t][v] = T2[t][v]]

\* Tables that agree elsewhere differ in one entry at most.
LEMMA OneEntry ==
    ASSUME NEW T, NEW T2, NEW t \in Tables, NEW v \in MapVpns,
           T = [u \in Tables |-> T[u]], \A u \in Tables : T[u] = [w \in MapVpns |-> T[u][w]],
           T2 = [u \in Tables |-> T2[u]], \A u \in Tables : T2[u] = [w \in MapVpns |-> T2[u][w]],
           \A u \in Tables, w \in MapVpns : ~ (u = t /\ w = v) => T2[u][w] = T[u][w]
    PROVE  OnlyAt(T, T2, t, v)
<1>1. PICK e : e = T2[t][v]
  OBVIOUS
<1>2. PICK X : X = [T EXCEPT ![t][v] = e]
  OBVIOUS
<1>3. ASSUME NEW u \in Tables PROVE T2[u] = X[u]
  <2>1. CASE u # t
    <3>1. X[u] = T[u]
      BY <1>2, <2>1
    <3> QED BY <2>1, <3>1
  <2>2. CASE u = t
    <3>1. X[u] = [T[t] EXCEPT ![v] = e]
      BY <1>2, <2>2
    <3>2. PICK Y : Y = T[t]
      OBVIOUS
    <3>3. Y = [w \in MapVpns |-> Y[w]]
      BY <3>2
    <3>4. [Y EXCEPT ![v] = e] = [w \in MapVpns |-> IF w = v THEN e ELSE Y[w]]
      BY <3>3
    <3>5. T2[t] = [w \in MapVpns |-> IF w = v THEN e ELSE Y[w]]
      BY <1>1, <3>2
    <3> QED BY <2>2, <3>1, <3>2, <3>4, <3>5
  <2> QED BY <2>1, <2>2
<1>4. X = [u \in Tables |-> X[u]]
  BY <1>2
<1> QED BY <1>1, <1>2, <1>3, <1>4 DEF OnlyAt

\* A step that leaves every table but t, and of t every page but v, as it
\* looks changes the flat map at one entry.
LEMMA FlatEntry ==
    ASSUME NEW t \in Tables, NEW v \in MapVpns, \A u \in Tables : u # t => Still(u),
           \A w \in MapVpns : w # v => Lookup(t)'[w] = Lookup(t)[w]
    PROVE  table' = [table EXCEPT ![t][v] = table'[t][v]]
<1>1. PICK T, T2 : T = table /\ T2 = table'
  OBVIOUS
<1>2. /\ T = [u \in Tables |-> T[u]] /\ \A u \in Tables : T[u] = Lookup(u)
      /\ T2 = [u \in Tables |-> T2[u]] /\ \A u \in Tables : T2[u] = Lookup(u)'
  BY <1>1 DEF table
<1>3. \A u \in Tables : T[u] = [w \in MapVpns |-> T[u][w]] /\ T2[u] = [w \in MapVpns |-> T2[u][w]]
  BY <1>2 DEF Lookup
<1>4. \A u \in Tables, w \in MapVpns : ~ (u = t /\ w = v) => T2[u][w] = T[u][w]
  BY <1>2 DEF Still
<1>5. OnlyAt(T, T2, t, v)
  BY <1>2, <1>3, <1>4, OneEntry
<1> QED BY <1>1, <1>5 DEF OnlyAt

\* A step after which every table looks as before changes nothing of it.
LEMMA FlatSame ==
    ASSUME \A u \in Tables : Still(u)
    PROVE  table' = table
<1>1. ASSUME NEW u \in Tables PROVE Lookup(u)' = Lookup(u)
  <2>1. PICK X, X2 : X = Lookup(u) /\ X2 = Lookup(u)'
    OBVIOUS
  <2>2. X = [w \in MapVpns |-> X[w]] /\ X2 = [w \in MapVpns |-> X2[w]]
    BY <2>1 DEF Lookup
  <2>3. \A w \in MapVpns : X2[w] = X[w]
    BY <2>1 DEF Still
  <2> QED BY <2>1, <2>2, <2>3
<1> QED BY <1>1 DEF table

\* PageTable::new shows an empty table.
LEMMA CreateStep ==
    ASSUME IInv, NEW t \in Tables, new_table(t)
    PROVE  Flat!Create(t)
<1>1. IInv' /\ OthersKeep(t)
  BY NewStep
<1>2. PICK f : f \in Frames /\ root' = [root EXCEPT ![t] = f] /\ data' = data /\ root[t] = None
  BY FreshFrames, TableTypes DEF IInv, new_table
<1>3. root'[t] = f /\ f # None /\ \A u \in Tables : u # t => root'[u] = root[u]
  BY <1>2, Widths DEF IInv, TypeOK
<1>4. ASSUME NEW u \in Tables PROVE Still(u)
  <2>1. CASE u = t
    <3>1. DOMAIN data[t] = {}
      BY <1>2 DEF IInv, Gone
    <3>2. ASSUME NEW v \in MapVpns PROVE Lookup(t)'[v] = None /\ Lookup(t)[v] = None
      BY <1>1, <1>2, <3>1, LookupNext, LookupIsSeen DEF LookupIs, Seen
    <3> QED BY <2>1, <3>2 DEF Still
  <2>2. CASE u # t
    BY <1>1, <1>2, <1>3, <2>2, StillStep DEF OthersKeep
  <2> QED BY <2>1, <2>2
<1>5. table' = table
  BY <1>4, FlatSame
<1>6. t \notin alive /\ alive' = alive \cup {t}
  BY <1>2, <1>3 DEF alive
<1> QED BY <1>5, <1>6 DEF Flat!Create, alive, table

\* Dropping a MemorySet empties its table.
LEMMA DestroyStep ==
    ASSUME IInv, NEW t \in Tables, drop(t)
    PROVE  Flat!Destroy(t)
<1>1. IInv' /\ OthersKeep(t)
  BY DropStep
<1>2. /\ root' = [root EXCEPT ![t] = None] /\ data' = [data EXCEPT ![t] = NoPages] /\ root[t] # None
  BY DEF drop
<1>3. /\ root'[t] = None /\ data'[t] = NoPages
      /\ \A u \in Tables : u # t => root'[u] = root[u] /\ data'[u] = data[u]
  BY <1>2 DEF IInv, TypeOK
<1>4. ASSUME NEW u \in Tables, u # t PROVE Lookup(u)' = Lookup(u)
  <2>1. Still(u)
    BY <1>1, <1>3, <1>4, StillStep DEF OthersKeep
  <2>2. PICK X, X2 : X = Lookup(u) /\ X2 = Lookup(u)'
    OBVIOUS
  <2>3. X = [w \in MapVpns |-> X[w]] /\ X2 = [w \in MapVpns |-> X2[w]]
    BY <2>2 DEF Lookup
  <2> QED BY <2>1, <2>2, <2>3 DEF Still
<1>5. Lookup(t)' = [v \in MapVpns |-> None]
  BY <1>3 DEF Lookup
<1>6. table' = [table EXCEPT ![t] = [v \in MapVpns |-> None]]
  BY <1>4, <1>5 DEF table
<1>7. t \in alive /\ alive' = alive \ {t}
  BY <1>2, <1>3 DEF alive
<1> QED BY <1>6, <1>7 DEF Flat!Destroy, Flat!Empty, alive, table

\* PageTable::map adds one page.
LEMMA MapFlat ==
    ASSUME IInv, NEW t \in Tables, NEW vpn \in MapVpns, NEW fl \in MapFlags, map(t, vpn, fl)
    PROVE  Flat!Map(t, vpn)
<1>1. /\ IInv' /\ OthersKeep(t) /\ root' = root /\ KeepsOthers(root[t], mem, mem', vpn)
  BY MapStep
<1>2. PICK d \in Frames : Gains(data[t], data'[t], vpn, d)
  BY MapStep
<1>3. root[t] # None /\ \A u \in Tables : u # t => data'[u] = data[u]
  BY DEF map, IInv, TypeOK
<1>4. ASSUME NEW u \in Tables, u # t PROVE Still(u)
  BY <1>1, <1>3, <1>4, StillStep DEF OthersKeep
<1>5. ASSUME NEW w \in MapVpns, w # vpn PROVE Lookup(t)'[w] = Lookup(t)[w]
  <2>1. Lookup(t)'[w] = Seen(root[t], data'[t], mem', w) /\ Lookup(t)[w] = Seen(root[t], data[t], mem, w)
    BY <1>1, LookupNext, LookupIsSeen DEF LookupIs
  <2>2. w \in DOMAIN data'[t] <=> w \in DOMAIN data[t]
    BY <1>2, <1>5 DEF Gains
  <2>3. w \in DOMAIN data[t] => SameEntry(root[t], mem, mem', w)
    BY <1>1, <1>3, <1>5, KeepsSeenOthers
  <2> QED BY <2>1, <2>2, <2>3 DEF Seen, SameEntry
<1>6. table' = [table EXCEPT ![t][vpn] = table'[t][vpn]]
  BY <1>4, <1>5, FlatEntry
<1>7. table[t][vpn] = None
  <2>1. Lookup(t)[vpn] = None
    BY <1>2, LookupIsSeen DEF LookupIs, Seen, Gains
  <2> QED BY <2>1 DEF table
<1>8. table'[t][vpn] \in PageEntries
  <2>1. vpn \in DOMAIN data'[t]
    BY <1>2 DEF Gains
  <2>2. Lookup(t)'[vpn] \in PageEntries
    BY <1>1, <2>1, LookupNext
  <2> QED BY <2>2 DEF table
<1>9. t \in alive /\ alive' = alive
  BY <1>1, <1>3 DEF alive
<1> QED BY <1>6, <1>7, <1>8, <1>9 DEF Flat!Map, alive, table, PageEntries

\* PageTable::unmap takes one page away.
LEMMA UnmapFlat ==
    ASSUME IInv, NEW t \in Tables, NEW vpn \in MapVpns, unmap(t, vpn)
    PROVE  Flat!Unmap(t, vpn)
<1>1. /\ IInv' /\ OthersKeep(t) /\ root' = root /\ KeepsOthers(root[t], mem, mem', vpn)
      /\ vpn \in DOMAIN data[t] /\ Loses(data[t], data'[t], vpn)
  BY UnmapStep
<1>3. root[t] # None /\ \A u \in Tables : u # t => data'[u] = data[u]
  BY DEF unmap, IInv, TypeOK
<1>4. ASSUME NEW u \in Tables, u # t PROVE Still(u)
  BY <1>1, <1>3, <1>4, StillStep DEF OthersKeep
<1>5. ASSUME NEW w \in MapVpns, w # vpn PROVE Lookup(t)'[w] = Lookup(t)[w]
  <2>1. Lookup(t)'[w] = Seen(root[t], data'[t], mem', w) /\ Lookup(t)[w] = Seen(root[t], data[t], mem, w)
    BY <1>1, LookupNext, LookupIsSeen DEF LookupIs
  <2>2. w \in DOMAIN data'[t] <=> w \in DOMAIN data[t]
    BY <1>1, <1>5 DEF Loses
  <2>3. w \in DOMAIN data[t] => SameEntry(root[t], mem, mem', w)
    BY <1>1, <1>3, <1>5, KeepsSeenOthers
  <2> QED BY <2>1, <2>2, <2>3 DEF Seen, SameEntry
<1>6. table' = [table EXCEPT ![t][vpn] = table'[t][vpn]]
  BY <1>4, <1>5, FlatEntry
<1>7. table[t][vpn] # None
  <2>1. Lookup(t)[vpn] \in PageEntries
    BY <1>1, LookupIsSeen DEF LookupIs
  <2>2. Lookup(t)[vpn] # None
    BY <2>1, EntryThere
  <2> QED BY <2>2 DEF table
<1>8. table'[t][vpn] = None
  <2>1. vpn \notin DOMAIN data'[t]
    BY <1>1 DEF Loses
  <2>2. Lookup(t)'[vpn] = None
    BY <1>1, <2>1, LookupNext DEF Seen
  <2> QED BY <2>2 DEF table
<1>9. t \in alive /\ alive' = alive
  BY <1>1, <1>3 DEF alive
<1>10. table' = [table EXCEPT ![t][vpn] = None]
  BY <1>6, <1>8
<1> QED BY <1>7, <1>9, <1>10 DEF Flat!Unmap, alive, table

\* A user store does not show.
LEMMA ScribbleFlat ==
    ASSUME IInv, NEW t \in Tables, NEW vpn \in MapVpns, scribble(t, vpn)
    PROVE  UNCHANGED Flat!vars
<1>1. IInv' /\ OthersKeep(t) /\ KeepsEntries(root[t], mem, mem')
  BY ScribbleStep
<1>2. root' = root /\ data' = data
  BY DEF scribble
<1>3. ASSUME NEW u \in Tables PROVE Still(u)
  <2>1. root[u] # None => KeepsEntries(root[u], mem, mem')
    BY <1>1 DEF OthersKeep
  <2> QED BY <1>1, <1>2, <2>1, StillStep
<1>4. table' = table
  BY <1>3, FlatSame
<1>5. alive' = alive
  BY <1>2 DEF alive
<1> QED BY <1>4, <1>5 DEF Flat!vars, alive, table

\* The entries of a zombie's table stay as they are.
LEMMA RecycleFlat ==
    ASSUME IInv, NEW t \in Tables, recycle_data_pages(t)
    PROVE  UNCHANGED Flat!vars
<1>1. IInv' /\ OthersKeep(t) /\ KeepsEntries(root[t], mem, mem')
  BY RecycleStep
<1>2. root' = root /\ data' = data
  BY DEF recycle_data_pages
<1>3. ASSUME NEW u \in Tables PROVE Still(u)
  <2>1. root[u] # None => KeepsEntries(root[u], mem, mem')
    BY <1>1 DEF OthersKeep
  <2> QED BY <1>1, <1>2, <2>1, StillStep
<1>4. table' = table
  BY <1>3, FlatSame
<1>5. alive' = alive
  BY <1>2 DEF alive
<1> QED BY <1>4, <1>5 DEF Flat!vars, alive, table

\* Nothing shows when nothing happens.
LEMMA StutterFlat == ASSUME UNCHANGED vars PROVE UNCHANGED Flat!vars
BY DEF vars, Flat!vars, Lookup, find_vpn, translate, find_pte, token

\* The three-level tree, walked from the token, is a flat map from pages to
\* entries: map and unmap change one page of one table, new tables are empty,
\* and no user store, no other table and no reuse of a frame shows through.
THEOREM WalkImplementsFlat == Spec => ImplementsFlat
<1>1. ASSUME Init PROVE Flat!Init
  <2>1. \A t \in Tables : root[t] = None
    BY <1>1 DEF Init
  <2>2. \A t \in Tables : Lookup(t) = [v \in MapVpns |-> None]
    BY <2>1 DEF Lookup
  <2> QED BY <2>1, <2>2 DEF Flat!Init, Flat!Empty
<1>2. ASSUME IInv, [Next]_vars PROVE [Flat!Next]_Flat!vars
  <2>1. ASSUME NEW t \in Tables, new_table(t) PROVE Flat!Next
    BY <1>2, <2>1, CreateStep DEF Flat!Next
  <2>2. ASSUME NEW t \in Tables, drop(t) PROVE Flat!Next
    BY <1>2, <2>2, DestroyStep DEF Flat!Next
  <2>3. ASSUME NEW t \in Tables, NEW vpn \in MapVpns, NEW fl \in MapFlags, map(t, vpn, fl) PROVE Flat!Next
    BY <1>2, <2>3, MapFlat DEF Flat!Next
  <2>4. ASSUME NEW t \in Tables, NEW vpn \in MapVpns, unmap(t, vpn) PROVE Flat!Next
    BY <1>2, <2>4, UnmapFlat DEF Flat!Next
  <2>5. ASSUME NEW t \in Tables, NEW vpn \in MapVpns, scribble(t, vpn) PROVE UNCHANGED Flat!vars
    BY <1>2, <2>5, ScribbleFlat
  <2>6. ASSUME NEW t \in Tables, recycle_data_pages(t) PROVE UNCHANGED Flat!vars
    BY <1>2, <2>6, RecycleFlat
  <2> QED BY <1>2, <2>1, <2>2, <2>3, <2>4, <2>5, <2>6, StutterFlat DEF Next
<1> QED BY <1>1, <1>2, Invariance, PTL DEF Spec, ImplementsFlat, Flat!Spec

-----------------------------------------------------------------------------
(* User memory access.                                                     *)

\* The lesser and the greater of two numbers.
LEMMA MinMax ==
    ASSUME NEW a \in Nat, NEW b \in Nat
    PROVE  Min({a, b}) = (IF a <= b THEN a ELSE b) /\ Max({a, b}) = (IF a <= b THEN b ELSE a)
<1>1. PICK x : x = IF a <= b THEN a ELSE b
  OBVIOUS
<1>2. x \in {a, b} /\ \A y \in {a, b} : x <= y
  BY <1>1
<1>3. \A z \in {a, b} : (\A y \in {a, b} : z <= y) => z = x
  BY <1>1
<1>4. Min({a, b}) = x
  BY <1>2, <1>3 DEF Min
<1>5. PICK w : w = IF a <= b THEN b ELSE a
  OBVIOUS
<1>6. w \in {a, b} /\ \A y \in {a, b} : w >= y
  BY <1>5
<1>7. \A z \in {a, b} : (\A y \in {a, b} : z >= y) => z = w
  BY <1>5
<1>8. Max({a, b}) = w
  BY <1>6, <1>7 DEF Max
<1> QED BY <1>1, <1>4, <1>5, <1>8

\* An address is the beginning of its page and an offset into it.
OnPage(va, q, r) == va = q * PageSize + r /\ r < PageSize /\ floor(va) = q /\ page_offset(va) = r

\* Every address can be written so.
LEMMA PageOf ==
    ASSUME NEW va \in Nat
    PROVE  \E q, r \in Nat : OnPage(va, q, r)
<1>1. PICK n : n = PageSize /\ n \in Nat \ {0}
  BY Buffers
<1>2. PICK q, r : q = va \div n /\ r = va % n
  OBVIOUS
<1>3. q \in Nat /\ r \in Nat /\ r < n /\ va = n * q + r
  BY <1>1, <1>2
<1>4. n * q = q * n
  BY <1>1, <1>3
<1> QED BY <1>1, <1>2, <1>3, <1>4 DEF OnPage, floor, page_offset

\* Any way to write an address like that is the one.
LEMMA PageUnique ==
    ASSUME NEW q \in Nat, NEW r \in Nat, r < PageSize, NEW va, va = q * PageSize + r
    PROVE  OnPage(va, q, r)
<1>1. PageSize \in Nat \ {0}
  BY Buffers
<1> QED BY <1>1, DivMod DEF OnPage, floor, page_offset

\* The bytes of one page have consecutive addresses, virtual and physical.
LEMMA SamePage ==
    ASSUME NEW va \in Nat, NEW i \in Nat, page_offset(va) + i < PageSize
    PROVE  /\ floor(va + i) = floor(va) /\ page_offset(va + i) = page_offset(va) + i
           /\ translate_va(va + i) = ppn_of(floor(va)) * PageSize + (page_offset(va) + i)
<1>1. PICK q \in Nat, r \in Nat : OnPage(va, q, r)
  BY PageOf
<1>2. PICK w, s : w = va + i /\ s = r + i
  OBVIOUS
<1>3. s \in Nat /\ s < PageSize
  BY <1>1, <1>2 DEF OnPage
<1>4. w = q * PageSize + s
  <2>1. q * PageSize \in Nat
    BY Buffers
  <2> QED BY <1>1, <1>2, <2>1 DEF OnPage
<1>5. OnPage(w, q, s)
  BY <1>3, <1>4, PageUnique
<1> QED BY <1>1, <1>2, <1>5 DEF OnPage, translate_va

\* Every address below the top has a page of the user's table.
LEMMA VasPage ==
    ASSUME NEW va \in Vas
    PROVE  /\ va \in Nat /\ floor(va) \in Nat /\ floor(va) < Len(PpnOf) /\ page_offset(va) \in Nat
           /\ ppn_of(floor(va)) \in Nat /\ translate_va(va) \in Nat /\ translate_va(va) \in Pas
<1>1. PICK L : L = Len(PpnOf) /\ L \in Nat /\ PageSize \in Nat \ {0}
  BY Buffers
<1>2. va \in Nat /\ va < L * PageSize
  BY <1>1 DEF Vas
<1>3. PICK q \in Nat, r \in Nat : OnPage(va, q, r)
  BY <1>2, PageOf
<1>4. q < L
  <2>1. ASSUME q >= L PROVE FALSE
    <3>1. PICK c \in Nat : q = L + c
      <4>1. q - L \in Nat /\ q = L + (q - L)
        BY <1>1, <2>1
      <4> QED BY <4>1
    <3>2. q * PageSize = L * PageSize + c * PageSize /\ c * PageSize \in Nat /\ L * PageSize \in Nat
      BY <1>1, <3>1
    <3> QED BY <1>2, <1>3, <3>2 DEF OnPage
  <2> QED BY <1>1, <2>1
<1>5. ppn_of(q) \in Nat
  <2>1. q + 1 \in 1..Len(PpnOf)
    BY <1>1, <1>4
  <2> QED BY <2>1, Buffers DEF ppn_of
<1>6. ppn_of(q) * PageSize + r \in Nat
  BY <1>1, <1>5
<1>7. translate_va(va) = ppn_of(q) * PageSize + r
  BY <1>3 DEF OnPage, translate_va
<1> QED BY <1>1, <1>2, <1>3, <1>4, <1>5, <1>6, <1>7 DEF OnPage, Pas

\* No two of them share a physical byte.
LEMMA TranslateOne ==
    ASSUME NEW a \in Vas, NEW b \in Vas, translate_va(a) = translate_va(b)
    PROVE  a = b
<1>1. a \in Nat /\ b \in Nat
  BY VasPage
<1>2. PICK q \in Nat, r \in Nat : OnPage(a, q, r)
  BY <1>1, PageOf
<1>3. PICK p \in Nat, s \in Nat : OnPage(b, p, s)
  BY <1>1, PageOf
<1>4. /\ ppn_of(q) \in Nat /\ ppn_of(p) \in Nat /\ q < Len(PpnOf) /\ p < Len(PpnOf)
      /\ translate_va(a) = ppn_of(q) * PageSize + r /\ translate_va(b) = ppn_of(p) * PageSize + s
  BY <1>2, <1>3, VasPage DEF OnPage, translate_va
<1>5. PICK x : x = translate_va(a)
  OBVIOUS
<1>6. OnPage(x, ppn_of(q), r)
  <2>1. r < PageSize /\ x = ppn_of(q) * PageSize + r
    BY <1>2, <1>4, <1>5 DEF OnPage
  <2> QED BY <1>4, <2>1, PageUnique
<1>7. OnPage(x, ppn_of(p), s)
  <2>1. s < PageSize /\ x = ppn_of(p) * PageSize + s
    BY <1>3, <1>4, <1>5 DEF OnPage
  <2> QED BY <1>4, <2>1, PageUnique
<1>8. ppn_of(q) = ppn_of(p) /\ r = s
  BY <1>6, <1>7 DEF OnPage
<1>9. q = p
  <2>0. PpnOf \in Seq(Nat)
    BY Buffers
  <2>1. q + 1 \in DOMAIN PpnOf /\ p + 1 \in DOMAIN PpnOf
    BY <1>4, <2>0
  <2>2. q + 1 = p + 1
    BY <1>8, <2>1, Buffers DEF ppn_of
  <2> QED BY <2>2
<1> QED BY <1>2, <1>3, <1>8, <1>9 DEF OnPage

\* The end of a buffer that is on the user's pages and below the top is not
\* changed by the mask.
LEMMA EndNat ==
    ASSUME NEW end \in Ends
    PROVE  end \in Nat /\ end < Top /\ end < UsizeSize /\ VirtAddr(end) = end
<1>1. PICK t : t = Top /\ t \in Nat /\ t <= UsizeSize /\ UsizeSize \in Nat
  BY Buffers DEF Top
<1>2. end \in Nat /\ end < t
  BY <1>1, Buffers DEF Ends
<1>3. end % t = end
  BY <1>1, <1>2
<1> QED BY <1>1, <1>2, <1>3 DEF VirtAddr

\* What is before it has a page.
LEMMA BufferInside ==
    ASSUME NEW x \in Nat, NEW end \in Ends, x < end
    PROVE  x \in Vas
<1>1. PICK n : n = Len(PpnOf) * PageSize /\ n \in Nat
  BY Buffers
<1>2. end \in 0..n
  BY <1>1 DEF Ends
<1> QED BY <1>1, <1>2 DEF Vas

\* Nor is an address before it.
LEMMA AsIs ==
    ASSUME NEW x \in Nat, NEW end \in Ends, x < end
    PROVE  VirtAddr(x) = x
<1>1. PICK t : t = Top /\ t \in Nat /\ x < t
  BY EndNat, Buffers DEF Top
<1>2. x % t = x
  BY <1>1
<1> QED BY <1>1, <1>2 DEF VirtAddr

\* The end of such a buffer as the loops compute it.
LEMMA EndAsIs ==
    ASSUME ptr + len \in Ends
    PROVE  BufEnd = ptr + len /\ (BufferDone <=> start >= ptr + len)
<1>1. PICK end, t : end = ptr + len /\ t = UsizeSize
  OBVIOUS
<1>2. end \in Nat /\ end < t /\ t \in Nat
  BY <1>1, EndNat, Buffers
<1>3. end % t = end
  BY <1>2
<1>4. BufEnd = ptr + len
  BY <1>1, <1>3 DEF BufEnd
<1> QED BY <1>4 DEF BufferDone

\* The piece of a buffer on one page: from s to the end of the page or of the
\* buffer, with the offsets that translated_byte_buffer computes for it.
Piece(s, e, end) ==
    /\ e \in Nat /\ s < e /\ e <= end
    /\ page_offset(s) + (e - s) <= PageSize
    /\ SliceLen(Slice(s, e)) = e - s
    /\ Slice(s, e).ppn = ppn_of(floor(s)) /\ Slice(s, e).from = page_offset(s)
    /\ Slice(s, e).to \in Nat

\* EndVa and Slice compute such a piece.
LEMMA NextPiece ==
    ASSUME NEW s \in Nat, NEW end \in Ends, s < end
    PROVE  Piece(s, EndVa(s, end), end)
<1>0. end \in Nat /\ VirtAddr(end) = end
  BY EndNat
<1>1. PICK n : n = PageSize /\ n \in Nat \ {0}
  BY Buffers
<1>2. PICK q \in Nat, r \in Nat : OnPage(s, q, r)
  BY PageOf
<1>3. PICK B, t, e : B = q * n /\ t = (q + 1) * n /\ e = EndVa(s, end)
  OBVIOUS
<1>4. B \in Nat /\ t \in Nat /\ t = B + n /\ s = B + r /\ r < n
  BY <1>1, <1>2, <1>3 DEF OnPage
<1>5. e = IF t <= end THEN t ELSE end
  BY <1>0, <1>1, <1>2, <1>3, <1>4, MinMax DEF EndVa, PageStart, OnPage
<1>6. e \in Nat /\ s < e /\ e <= end /\ e <= t
  BY <1>0, <1>1, <1>4, <1>5
<1>7. (IF page_offset(e) = 0 THEN n ELSE page_offset(e)) = e - B
  <2>1. CASE e = t
    <3>1. e = (q + 1) * n + 0 /\ q + 1 \in Nat /\ 0 < n
      BY <1>1, <1>3, <1>4, <2>1
    <3>2. OnPage(e, q + 1, 0)
      BY <1>1, <3>1, PageUnique
    <3> QED BY <1>1, <1>4, <2>1, <3>2 DEF OnPage
  <2>2. CASE e < t
    <3>1. e - B \in Nat /\ e - B < n /\ e - B # 0 /\ e = B + (e - B)
      BY <1>1, <1>4, <1>6, <2>2
    <3>2. PICK d \in Nat : d = e - B /\ e = q * n + d /\ d < n
      BY <1>3, <3>1
    <3>3. OnPage(e, q, d)
      BY <1>1, <3>2, PageUnique
    <3> QED BY <3>1, <3>2, <3>3 DEF OnPage
  <2> QED BY <1>4, <1>6, <2>1, <2>2
<1>8. Slice(s, e) = [ppn |-> ppn_of(q), from |-> r, to |-> e - B]
  BY <1>1, <1>2, <1>7 DEF Slice, OnPage
<1>9. page_offset(s) = r /\ floor(s) = q /\ r + (e - s) = e - B /\ e - B <= n /\ (e - B) - r = e - s
  BY <1>1, <1>2, <1>4, <1>6 DEF OnPage
<1>10. SliceLen(Slice(s, e)) = e - s
  BY <1>8, <1>9 DEF SliceLen
<1>11. e - B \in Nat
  BY <1>4, <1>6
<1> QED BY <1>1, <1>3, <1>6, <1>8, <1>9, <1>10, <1>11 DEF Piece

\* Its physical bytes are those of its addresses.
LEMMA PieceBytes ==
    ASSUME NEW s \in Vas, NEW e, NEW end, Piece(s, e, end), NEW i \in Nat, i < e - s
    PROVE  SlicePa(Slice(s, e), i) = translate_va(s + i)
<1>1. page_offset(s) \in Nat /\ page_offset(s) + i < PageSize
  <2>1. PICK q \in Nat, r \in Nat : OnPage(s, q, r)
    BY VasPage, PageOf
  <2>2. e - s \in Nat /\ r + (e - s) <= PageSize /\ PageSize \in Nat
    BY <2>1, Buffers DEF Piece, OnPage
  <2> QED BY <2>1, <2>2 DEF OnPage
<1>2. translate_va(s + i) = ppn_of(floor(s)) * PageSize + (page_offset(s) + i)
  BY <1>1, VasPage, SamePage
<1>3. SlicePa(Slice(s, e), i) = ppn_of(floor(s)) * PageSize + page_offset(s) + i
  BY DEF SlicePa, Piece
<1>4. PICK P : P = ppn_of(floor(s)) * PageSize /\ P \in Nat
  BY VasPage, Buffers
<1> QED BY <1>1, <1>2, <1>3, <1>4

\* n bytes from s on become c, c + 1, ..., and the others stay.
Patched(m, m2, s, n, c) ==
    /\ m2 \in [Pas -> Nat]
    /\ \A va \in Vas : translate_va(va) \in Pas /\
          m2[translate_va(va)] = IF s <= va /\ va < s + n THEN c + (va - s) ELSE m[translate_va(va)]

\* A write of n bytes from the physical address base on.
Pokes(m, m2, base, n, c) ==
    /\ m2 \in [Pas -> Nat]
    /\ \A i \in Nat : i < n => m2[base + i] = c + i
    /\ \A pa \in Pas : (\A i \in Nat : i < n => pa # base + i) => m2[pa] = m[pa]

\* Writing the first n bytes from the physical address of s on does that, as
\* long as they are on one page.
LEMMA Patch ==
    ASSUME NEW m, NEW m2, NEW s \in Vas, NEW n \in Nat, NEW c,
           page_offset(s) + n <= PageSize, \A i \in Nat : i < n => s + i \in Vas,
           NEW base, base = translate_va(s), Pokes(m, m2, base, n, c)
    PROVE  Patched(m, m2, s, n, c)
<1>1. s \in Nat /\ base \in Nat /\ page_offset(s) \in Nat /\ PageSize \in Nat
  BY VasPage, Buffers
<1>2. ASSUME NEW i \in Nat, i < n PROVE translate_va(s + i) = base + i
  <2>1. page_offset(s) + i < PageSize
    BY <1>1, <1>2
  <2>2. PICK P : P = ppn_of(floor(s)) * PageSize /\ P \in Nat
    BY VasPage, Buffers
  <2>3. translate_va(s + i) = P + (page_offset(s) + i)
    BY <1>1, <2>1, <2>2, SamePage
  <2>4. base = P + page_offset(s)
    BY <2>2 DEF translate_va
  <2> QED BY <1>1, <2>2, <2>3, <2>4
<1>3. ASSUME NEW va \in Vas
      PROVE  /\ translate_va(va) \in Pas
             /\ m2[translate_va(va)] = IF s <= va /\ va < s + n THEN c + (va - s) ELSE m[translate_va(va)]
  <2>1. va \in Nat /\ translate_va(va) \in Pas
    BY VasPage
  <2>2. CASE s <= va /\ va < s + n
    <3>1. PICK i \in Nat : i = va - s /\ i < n /\ va = s + i
      <4>1. va - s \in Nat /\ va - s < n /\ va = s + (va - s)
        BY <1>1, <2>1, <2>2
      <4> QED BY <4>1
    <3>2. m2[base + i] = c + i /\ translate_va(s + i) = base + i
      BY <1>2, <3>1 DEF Pokes
    <3> QED BY <2>1, <2>2, <3>1, <3>2
  <2>3. CASE ~ (s <= va /\ va < s + n)
    <3>1. ASSUME NEW i \in Nat, i < n PROVE translate_va(va) # base + i
      <4>1. s + i \in Vas /\ translate_va(s + i) = base + i
        BY <1>2, <3>1
      <4>2. va # s + i
        BY <1>1, <2>1, <2>3, <3>1
      <4> QED BY <4>1, <4>2, TranslateOne
    <3> QED BY <2>1, <2>3, <3>1 DEF Pokes
  <2> QED BY <2>2, <2>3
<1> QED BY <1>3 DEF Patched, Pokes

-----------------------------------------------------------------------------
(* The inductive invariant: how far each loop is.                          *)

Slices == [ppn : Nat, from : Nat, to : Nat]
File0 == [i \in 1..FileSize |-> FileByte(i - 1)]

\* n bytes from lo on are c, c + 1, ...; the others are the user's.
Filled(m, lo, n, c) ==
    \A va \in Vas : m[translate_va(va)] = IF lo <= va /\ va < lo + n THEN c + (va - lo) ELSE UserByte(va)

Typed ==
    /\ op \in Calls \cup {"start"}
    /\ ptr \in Nat /\ len \in Nat /\ start \in Nat /\ count \in Nat /\ total \in Nat
    /\ slices \in Seq(Slices) /\ bytes \in [Pas -> Nat] /\ file \in Seq(Nat) /\ result \in Seq(Nat)
    /\ offset0 \in 0..FileSize /\ offset = offset0 + total
    /\ done \in BOOLEAN
    /\ op \notin {"start", "str"} => ptr + len \in Ends

\* The slices sl, found so far, each end where the next one begins, the last
\* at st; b are the places.
Cut(b, sl, p, end, st) ==
    /\ b \in [1..(Len(sl) + 1) -> p..end]
    /\ b[1] = p /\ b[Len(sl) + 1] = st
    /\ \A k \in 1..Len(sl) : /\ b[k] < end /\ b[k + 1] = EndVa(b[k], end)
                             /\ sl[k] = Slice(b[k], b[k + 1])

\* The file f has the bytes of the buffer p from o to o2.
Written(f, p, o, o2) ==
    /\ Len(f) = IF FileSize < o2 THEN o2 ELSE FileSize
    /\ \A i \in 0..(Len(f) - 1) :
          f[i + 1] = IF o <= i /\ i < o2 THEN UserByte(p + (i - o)) ELSE FileByte(i)

Starting == op = "start" =>
    /\ start = 0 /\ count = 0 /\ total = 0 /\ slices = <<>> /\ result = <<>> /\ file = File0 /\ done = FALSE
    /\ Filled(bytes, 0, 0, 0)

Reading == op = "read" =>
    /\ file = File0 /\ Filled(bytes, ptr, total, 50 + offset0)
    /\ done => BufferDone /\ count = Len(slices)
    /\ \E b \in [1..(Len(slices) + 1) -> ptr..(ptr + len)] :
          /\ Cut(b, slices, ptr, ptr + len, start) /\ count <= Len(slices)
          /\ total <= FileSize - offset0 /\ total <= b[count + 1] - ptr
          /\ total = FileSize - offset0 \/ total = b[count + 1] - ptr

Writing == op = "write" =>
    /\ Written(file, ptr, offset0, offset) /\ Filled(bytes, ptr, 0, 0)
    /\ done => BufferDone /\ count = Len(slices)
    /\ \E b \in [1..(Len(slices) + 1) -> ptr..(ptr + len)] :
          Cut(b, slices, ptr, ptr + len, start) /\ count <= Len(slices) /\ total = b[count + 1] - ptr

Sending == op = "bytes" =>
    /\ ptr <= start /\ start <= ptr + len /\ count = start - ptr
    /\ Filled(bytes, ptr, count, 200)
    /\ done => BufferDone

Loading == op = "elf" =>
    /\ page_offset(start) = 0 /\ start = ptr + count
    /\ Filled(bytes, ptr, IF count < len THEN count ELSE len, 200)
    /\ done => count >= len

Parsing == op = "str" =>
    /\ len <= MaxLen /\ ptr <= start /\ start <= ptr + len
    /\ result = [i \in 1..(start - ptr) |-> UserByte(VirtAddr(ptr + i - 1))]
    /\ \A va \in Vas : bytes[translate_va(va)] = IF va = VirtAddr(ptr + len) THEN 0 ELSE UserByte(va)
    /\ done => start = ptr + len

\* A call on a buffer whose end the mask leaves alone, and a path anywhere.
Settled == Typed /\ Starting /\ Reading /\ Writing /\ Sending /\ Loading /\ Parsing

\* Any other buffer is empty, or wraps around usize, or its loop never gets
\* to the end that the kernel compares with.
Nothing == /\ start = ptr /\ len = 0 /\ total = 0 /\ count = 0 /\ slices = <<>> /\ file = File0
           /\ offset0 \in 0..FileSize /\ offset = offset0 /\ Filled(bytes, ptr, 0, 0)

Stray == /\ op \in {"read", "write", "bytes"} /\ ptr \in Nat /\ len \in Nat /\ start \in Nat
         /\ ptr + len \notin Ends
         /\ \/ ptr + len >= UsizeSize
            \/ ptr + len < UsizeSize /\ start < ptr + len /\ ~ done
            \/ ptr + len < UsizeSize /\ Nothing

IOInv == Settled \/ Stray


\* Consecutive pieces.
LEMMA FilledMore ==
    ASSUME NEW m, NEW m2, NEW lo \in Nat, NEW k \in Nat, NEW n \in Nat, NEW c \in Nat, NEW s, NEW d,
           s = lo + k, d = c + k, Filled(m, lo, k, c), Patched(m, m2, s, n, d)
    PROVE  Filled(m2, lo, k + n, c)
<1>1. ASSUME NEW va \in Vas
      PROVE  m2[translate_va(va)] = IF lo <= va /\ va < lo + (k + n) THEN c + (va - lo) ELSE UserByte(va)
  <2>1. va \in Nat
    BY VasPage
  <2>2. PICK x, y : x = m[translate_va(va)] /\ y = m2[translate_va(va)]
    OBVIOUS
  <2>3. x = IF lo <= va /\ va < lo + k THEN c + (va - lo) ELSE UserByte(va)
    BY <2>2 DEF Filled
  <2>4. y = IF s <= va /\ va < s + n THEN d + (va - s) ELSE x
    BY <2>2 DEF Patched
  <2> QED BY <2>1, <2>2, <2>3, <2>4
<1> QED BY <1>1 DEF Filled

\* Before the first call memory and file are the user's.
LEMMA IOStart ==
    ASSUME IOInit
    PROVE  Settled
<1>1. ASSUME NEW va \in Vas PROVE bytes[translate_va(va)] = UserByte(va)
  <2>1. translate_va(va) \in Pas
    BY VasPage
  <2>2. VaOf(translate_va(va)) = va
    BY TranslateOne DEF VaOf
  <2> QED BY <2>1, <2>2 DEF IOInit
<1>2. Filled(bytes, 0, 0, 0)
  BY <1>1, VasPage DEF Filled
<1>3. bytes \in [Pas -> Nat]
  <2>1. ASSUME NEW pa \in Pas PROVE UserByte(VaOf(pa)) \in Nat
    <3>1. PICK va \in Vas : pa = translate_va(va)
      BY DEF Pas
    <3>2. VaOf(pa) \in Vas
      BY <3>1 DEF VaOf
    <3> QED BY <3>2, VasPage DEF UserByte
  <2> QED BY <2>1 DEF IOInit
<1>4. File0 \in Seq(Nat)
  BY Buffers DEF File0, FileByte
<1>5. Typed
  <2>1. op = "start" /\ ptr = 0 /\ len = 0 /\ start = 0 /\ count = 0 /\ total = 0 /\ slices = <<>> /\ result = <<>> /\ done = FALSE
    BY DEF IOInit
  <2>2. file \in Seq(Nat)
    BY <1>4 DEF IOInit, File0
  <2>3. offset0 \in 0..FileSize /\ offset = offset0 + total
    BY <2>1, Buffers DEF IOInit
  <2>4. slices \in Seq(Slices) /\ result \in Seq(Nat)
    BY <2>1
  <2> QED BY <1>3, <2>1, <2>2, <2>3, <2>4 DEF Typed
<1>6. Starting
  BY <1>2 DEF IOInit, Starting, File0
<1> QED BY <1>5, <1>6 DEF IOInit, Settled, Reading, Writing, Sending, Loading, Parsing

\* No byte is written yet.
LEMMA FilledNone ==
    ASSUME NEW m, NEW lo \in Nat, NEW c, NEW p \in Nat, NEW d, Filled(m, lo, 0, c)
    PROVE  Filled(m, p, 0, d)
<1>1. ASSUME NEW va \in Vas PROVE ~ (lo <= va /\ va < lo + 0) /\ ~ (p <= va /\ va < p + 0)
  BY VasPage
<1> QED BY <1>1 DEF Filled

\* A call begins.
LEMMA CallStep ==
    ASSUME Settled, NEW c \in Calls, NEW p \in 0..(UsizeSize - 1), NEW n \in 0..MaxLen, Call(c, p, n),
           c # "str" => p + n \in Ends
    PROVE  Settled'
<1>1. /\ op = "start" /\ op' = c /\ ptr' = p /\ len' = n /\ start' = p
      /\ slices' = slices /\ count' = count /\ file' = file /\ offset' = offset /\ offset0' = offset0
      /\ total' = total /\ result' = result /\ done' = done
  BY DEF Call
<1>2. /\ start = 0 /\ count = 0 /\ total = 0 /\ slices = <<>> /\ result = <<>> /\ file = File0 /\ done = FALSE
      /\ Filled(bytes, 0, 0, 0)
  BY <1>1 DEF Settled, Starting
<1>3. p \in Nat /\ n \in Nat /\ n <= MaxLen
  BY Buffers
<1>4. c # "str" => bytes' = bytes
  BY DEF Call
<1>5. bytes' \in [Pas -> Nat]
  <2>1. bytes \in [Pas -> Nat]
    BY DEF Settled, Typed
  <2>2. bytes' = bytes \/ \E x : bytes' = [bytes EXCEPT ![x] = 0]
    BY DEF Call
  <2> QED BY <2>1, <2>2
<1>6. Typed'
  BY <1>1, <1>3, <1>5 DEF Settled, Typed, Calls
<1>7. op' # "start"
  BY <1>1 DEF Calls
<1>8. PICK b : b = [k \in 1..1 |-> p]
  OBVIOUS
<1>9. Cut(b, slices', ptr', ptr' + len', start') /\ b \in [1..(Len(slices') + 1) -> ptr'..(ptr' + len')]
  <2>1. slices' = <<>> /\ Len(slices') = 0 /\ ptr' = p /\ start' = p /\ p \in p..(ptr' + len')
    BY <1>1, <1>2, <1>3
  <2> QED BY <1>8, <2>1 DEF Cut
<1>10. \A d : c # "str" => Filled(bytes', p, 0, d)
  BY <1>2, <1>3, <1>4, FilledNone
<1>11. Reading'
  <2>1. total' <= FileSize - offset0' /\ total' <= b[count' + 1] - p /\ total' = b[count' + 1] - p /\ count' <= Len(slices')
    BY <1>1, <1>2, <1>3, <1>8, Buffers DEF Settled, Typed
  <2>2. c = "read" => Filled(bytes', ptr', total', 50 + offset0')
    BY <1>1, <1>2, <1>10
  <2> QED BY <1>1, <1>2, <1>9, <2>1, <2>2 DEF Reading, Cut, Filled, File0
<1>12. Writing'
  <2>1. total' = b[count' + 1] - p /\ count' <= Len(slices')
    BY <1>1, <1>2, <1>3, <1>8
  <2>2. c = "write" => Filled(bytes', ptr', 0, 0)
    BY <1>1, <1>10
  <2>3. Written(file', ptr', offset0', offset')
    <3>1. offset0 \in Nat /\ offset0 <= FileSize /\ offset = offset0 /\ Len(File0) = FileSize /\ FileSize \in Nat
      BY <1>2, Buffers DEF Settled, Typed, File0
    <3>2. \A i \in 0..(FileSize - 1) : File0[i + 1] = FileByte(i)
      BY <3>1 DEF File0
    <3> QED BY <1>1, <1>2, <3>1, <3>2 DEF Written
  <2> QED BY <1>1, <1>2, <1>9, <2>1, <2>2, <2>3 DEF Writing, Cut, Filled, Written
<1>13. Sending'
  <2>1. c = "bytes" => Filled(bytes', ptr', count', 200)
    BY <1>1, <1>2, <1>10
  <2> QED BY <1>1, <1>2, <1>3, <2>1 DEF Sending, Filled
<1>14. Loading'
  <2>1. c = "elf" => Filled(bytes', ptr', IF count' < len' THEN count' ELSE len', 200)
    <3>1. (IF count' < len' THEN count' ELSE len') = 0
      BY <1>1, <1>2, <1>3
    <3> QED BY <1>1, <1>10, <3>1
  <2>2. c = "elf" => page_offset(start') = 0
    BY <1>1 DEF Call
  <2>3. start' = ptr' + count'
    BY <1>1, <1>2, <1>3
  <2> QED BY <1>1, <1>2, <2>1, <2>2, <2>3 DEF Loading, Filled
<1>15. Parsing'
  <2>1. ASSUME c = "str", NEW va \in Vas
        PROVE  bytes'[translate_va(va)] = IF va = VirtAddr(p + n) THEN 0 ELSE UserByte(va)
    <3>1. PICK w : w = VirtAddr(p + n)
      OBVIOUS
    <3>2. bytes' = IF w \in Vas THEN [bytes EXCEPT ![translate_va(w)] = 0] ELSE bytes
      BY <2>1, <3>1 DEF Call
    <3>3. bytes[translate_va(va)] = UserByte(va) /\ translate_va(va) \in Pas
      BY <1>2, VasPage DEF Filled
    <3>4. CASE w \in Vas
      <4>1. va # w => translate_va(va) # translate_va(w)
        BY <3>4, TranslateOne
      <4> QED BY <3>1, <3>2, <3>3, <3>4, <4>1 DEF Settled, Typed
    <3>5. CASE w \notin Vas
      BY <3>1, <3>2, <3>3, <3>5
    <3> QED BY <3>4, <3>5
  <2>2. result' = [i \in 1..(start' - ptr') |-> UserByte(VirtAddr(ptr' + i - 1))]
    <3>1. start' - ptr' = 0
      BY <1>1, <1>3
    <3>2. result' = <<>> /\ 1..0 = {}
      BY <1>1, <1>2
    <3> QED BY <3>1, <3>2
  <2> QED BY <1>1, <1>2, <1>3, <2>1, <2>2 DEF Parsing
<1> QED BY <1>6, <1>7, <1>11, <1>12, <1>13, <1>14, <1>15 DEF Settled, Starting

\* A slice is three numbers.
LEMMA SliceTyped ==
    ASSUME NEW s \in Vas, NEW e, NEW end, Piece(s, e, end)
    PROVE  Slice(s, e) \in Slices
BY VasPage DEF Slice, Piece, Slices

\* One more slice.
OneMore(b, sl, p, end, e, sl2) ==
    /\ sl2 \in Seq(Slices) /\ Len(sl2) = Len(sl) + 1 /\ e \in Nat
    /\ \E b2 \in [1..(Len(sl2) + 1) -> p..end] :
          Cut(b2, sl2, p, end, e) /\ \A k \in 1..(Len(sl) + 1) : b2[k] = b[k]

\* Append adds the next piece of the buffer.
LEMMA CutMore ==
    ASSUME NEW b, NEW sl \in Seq(Slices), NEW p \in Nat, NEW end \in Ends, NEW st \in Nat,
           Cut(b, sl, p, end, st), st < end, NEW e, e = EndVa(st, end),
           NEW sl2, sl2 = Append(sl, Slice(st, e))
    PROVE  OneMore(b, sl, p, end, e, sl2)
<1>1. PICK n \in Nat : n = Len(sl)
  OBVIOUS
<1>2. end \in Nat /\ st \in Vas /\ Piece(st, e, end)
  BY EndNat, BufferInside, NextPiece
<1>3. PICK x \in Slices : x = Slice(st, e)
  BY <1>2, SliceTyped
<1>4. /\ sl2 \in Seq(Slices) /\ Len(sl2) = n + 1 /\ \A k \in 1..n : sl2[k] = sl[k]
      /\ sl2[n + 1] = x
  BY <1>1, <1>3
<1>5. e \in Nat /\ p <= st /\ st < e /\ e <= end /\ b[n + 1] = st
  <2>1. b[n + 1] = st /\ n + 1 \in 1..(n + 1) /\ b \in [1..(n + 1) -> p..end]
    BY <1>1 DEF Cut
  <2>2. st \in p..end
    BY <2>1
  <2> QED BY <1>2, <2>1, <2>2 DEF Piece
<1>6. PICK b2 : b2 = [k \in 1..(n + 2) |-> IF k = n + 2 THEN e ELSE b[k]]
  OBVIOUS
<1>7. b2[n + 2] = e /\ \A k \in 1..(n + 1) : b2[k] = b[k] /\ b[k] \in p..end
  BY <1>1, <1>6 DEF Cut
<1>8. b2 \in [1..(n + 2) -> p..end]
  <2>1. e \in p..end
    BY <1>2, <1>5
  <2>2. ASSUME NEW k \in 1..(n + 2) PROVE (IF k = n + 2 THEN e ELSE b[k]) \in p..end
    <3>1. k # n + 2 => k \in 1..(n + 1)
      BY <1>1
    <3> QED BY <1>7, <2>1, <3>1
  <2> QED BY <1>6, <2>2
<1>9. ASSUME NEW k \in 1..(n + 1)
      PROVE  b2[k] < end /\ b2[k + 1] = EndVa(b2[k], end) /\ sl2[k] = Slice(b2[k], b2[k + 1])
  <2>1. CASE k = n + 1
    <3>1. b2[k] = st /\ b2[k + 1] = e
      BY <1>1, <1>5, <1>7, <2>1
    <3> QED BY <1>3, <1>4, <2>1, <3>1
  <2>2. CASE k # n + 1
    <3>1. k \in 1..n /\ k + 1 \in 1..(n + 1)
      BY <1>1, <2>2
    <3>2. b2[k] = b[k] /\ b2[k + 1] = b[k + 1] /\ sl2[k] = sl[k]
      BY <1>4, <1>7, <3>1
    <3> QED BY <1>1, <3>1, <3>2 DEF Cut
  <2> QED BY <2>1, <2>2
<1>10. Cut(b2, sl2, p, end, e)
  <2>1. b2[1] = p
    BY <1>1, <1>7 DEF Cut
  <2>2. Len(sl2) + 1 = n + 2
    BY <1>4
  <2> QED BY <1>4, <1>7, <1>8, <1>9, <2>1, <2>2 DEF Cut
<1>11. Len(sl2) + 1 = n + 2
  BY <1>4
<1> QED BY <1>1, <1>4, <1>5, <1>7, <1>8, <1>10, <1>11 DEF OneMore

\* translated_byte_buffer finds the next slice.
LEMMA BufferStep ==
    ASSUME Settled, translated_byte_buffer
    PROVE  Settled'
<1>1. /\ op \in {"read", "write"} /\ start < ptr + len
      /\ op' = op /\ ptr' = ptr /\ len' = len /\ count' = count /\ bytes' = bytes /\ file' = file
      /\ offset' = offset /\ offset0' = offset0 /\ total' = total /\ result' = result /\ done' = done
      /\ start' = EndVa(start, ptr + len) /\ slices' = Append(slices, Slice(start, start'))
  <2>1. op \in {"read", "write"} /\ ~ BufferDone
    BY DEF translated_byte_buffer
  <2>2. ptr + len \in Ends /\ start \in Nat /\ ptr + len \in Nat
    BY <2>1 DEF Settled, Typed
  <2>3. BufEnd = ptr + len /\ start < ptr + len
    BY <2>1, <2>2, EndAsIs
  <2>4. VirtAddr(start) = start
    BY <2>2, <2>3, AsIs
  <2>5. start' = EndVa(start, ptr + len) /\ slices' = Append(slices, Slice(start, start'))
    BY <2>3, <2>4 DEF translated_byte_buffer, ThisSlice, end_va, start_va
  <2> QED BY <2>1, <2>3, <2>5 DEF translated_byte_buffer
<1>2. PICK p, end, sl, st, sl2, e : /\ p = ptr /\ end = ptr + len /\ sl = slices /\ st = start
                                    /\ sl2 = slices' /\ e = start'
  OBVIOUS
<1>3. p \in Nat /\ end \in Ends /\ sl \in Seq(Slices) /\ st \in Nat /\ st < end /\ end \in Nat
  BY <1>1, <1>2 DEF Settled, Typed
<1>4. e = EndVa(st, end) /\ sl2 = Append(sl, Slice(st, e))
  BY <1>1, <1>2
<1>5. op = "read" \/ op = "write"
  BY <1>1
<1>6. PICK b0 : Cut(b0, sl, p, end, st)
  BY <1>2, <1>5 DEF Settled, Reading, Writing
<1>7. sl2 \in Seq(Slices) /\ Len(sl2) = Len(sl) + 1 /\ e \in Nat
  <2>1. OneMore(b0, sl, p, end, e, sl2)
    BY <1>3, <1>4, <1>6, CutMore
  <2> QED BY <2>1 DEF OneMore
<1>8. Typed'
  BY <1>1, <1>2, <1>7 DEF Settled, Typed
<1>9. ~ done
  BY <1>1, <1>3, <1>2, <1>5, EndAsIs DEF Settled, Reading, Writing
<1>10. ASSUME op = "read" PROVE Reading'
  <2>1. PICK b \in [1..(Len(slices) + 1) -> ptr..(ptr + len)] :
          /\ Cut(b, slices, ptr, ptr + len, start) /\ count <= Len(slices)
          /\ total <= FileSize - offset0 /\ total <= b[count + 1] - ptr
          /\ total = FileSize - offset0 \/ total = b[count + 1] - ptr
    BY <1>10 DEF Settled, Reading
  <2>2. PICK b2 \in [1..(Len(sl2) + 1) -> p..end] :
            Cut(b2, sl2, p, end, e) /\ \A k \in 1..(Len(sl) + 1) : b2[k] = b[k]
    <3>1. Cut(b, sl, p, end, st)
      BY <1>2, <2>1
    <3>2. OneMore(b, sl, p, end, e, sl2)
      BY <1>3, <1>4, <3>1, CutMore
    <3> QED BY <3>2 DEF OneMore
  <2>3. count \in Nat /\ count + 1 \in 1..(Len(sl) + 1) /\ count <= Len(sl2)
    BY <1>2, <1>3, <1>7, <2>1 DEF Settled, Typed
  <2>4. b2[count + 1] = b[count + 1]
    BY <2>2, <2>3
  <2>5. Filled(bytes, ptr, total, 50 + offset0) /\ file = File0
    BY <1>10 DEF Settled, Reading
  <2>6. Cut(b2, slices', ptr', ptr' + len', start') /\ b2 \in [1..(Len(slices') + 1) -> ptr'..(ptr' + len')]
    BY <1>1, <1>2, <2>2
  <2>7. /\ count' <= Len(slices') /\ total' <= FileSize - offset0' /\ total' <= b2[count' + 1] - ptr'
        /\ total' = FileSize - offset0' \/ total' = b2[count' + 1] - ptr'
    BY <1>1, <1>2, <2>1, <2>3, <2>4
  <2>8. Filled(bytes', ptr', total', 50 + offset0') /\ file' = File0 /\ ~ done'
    BY <1>1, <1>9, <2>5
  <2> QED BY <2>6, <2>7, <2>8 DEF Reading, Cut, Filled, File0
<1>11. ASSUME op = "write" PROVE Writing'
  <2>1. PICK b \in [1..(Len(slices) + 1) -> ptr..(ptr + len)] :
          Cut(b, slices, ptr, ptr + len, start) /\ count <= Len(slices) /\ total = b[count + 1] - ptr
    BY <1>11 DEF Settled, Writing
  <2>2. PICK b2 \in [1..(Len(sl2) + 1) -> p..end] :
            Cut(b2, sl2, p, end, e) /\ \A k \in 1..(Len(sl) + 1) : b2[k] = b[k]
    <3>1. Cut(b, sl, p, end, st)
      BY <1>2, <2>1
    <3>2. OneMore(b, sl, p, end, e, sl2)
      BY <1>3, <1>4, <3>1, CutMore
    <3> QED BY <3>2 DEF OneMore
  <2>3. count \in Nat /\ count + 1 \in 1..(Len(sl) + 1) /\ count <= Len(sl2)
    BY <1>2, <1>3, <1>7, <2>1 DEF Settled, Typed
  <2>4. b2[count + 1] = b[count + 1]
    BY <2>2, <2>3
  <2>5. Filled(bytes, ptr, 0, 0) /\ Written(file, ptr, offset0, offset)
    BY <1>11 DEF Settled, Writing
  <2>6. Cut(b2, slices', ptr', ptr' + len', start') /\ b2 \in [1..(Len(slices') + 1) -> ptr'..(ptr' + len')]
    BY <1>1, <1>2, <2>2
  <2>7. count' <= Len(slices') /\ total' = b2[count' + 1] - ptr'
    BY <1>1, <1>2, <2>1, <2>3, <2>4
  <2>8. Filled(bytes', ptr', 0, 0) /\ Written(file', ptr', offset0', offset') /\ ~ done'
    BY <1>1, <1>9, <2>5
  <2> QED BY <2>6, <2>7, <2>8 DEF Writing, Cut, Filled, Written
<1>12. Starting' /\ Sending' /\ Loading' /\ Parsing' /\ (op # "read" => Reading') /\ (op # "write" => Writing')
  BY <1>1 DEF Starting, Sending, Loading, Parsing, Reading, Writing
<1> QED BY <1>8, <1>10, <1>11, <1>12 DEF Settled

\* The addresses of a piece of the buffer.
LEMMA PieceInside ==
    ASSUME NEW s \in Nat, NEW e, NEW end \in Ends, Piece(s, e, end)
    PROVE  s \in Vas /\ \A i \in Nat : i < e - s => s + i \in Vas
<1>1. end \in Nat /\ e \in Nat /\ s < e /\ e <= end
  BY EndNat DEF Piece
<1>2. s \in Vas
  <2>1. s < end
    BY <1>1
  <2> QED BY <2>1, BufferInside
<1>3. ASSUME NEW i \in Nat, i < e - s PROVE s + i \in Vas
  <2>1. s + i \in Nat /\ s + i < end
    BY <1>1, <1>3
  <2> QED BY <2>1, BufferInside
<1> QED BY <1>2, <1>3

\* Where a page begins in physical memory.
LEMMA PageBase ==
    ASSUME NEW s \in Vas
    PROVE  ppn_of(floor(s)) * PageSize \in Nat
<1>1. ppn_of(floor(s)) \in Nat /\ PageSize \in Nat
  BY VasPage, Buffers
<1> QED BY <1>1

\* A copy into the first n bytes of the slice x.
Copied(m, m2, x, n, c) ==
    /\ m2 = [pa \in Pas |-> m2[pa]]
    /\ \A pa \in Pas : m2[pa] = IF \E i \in 0..(n - 1) : pa = SlicePa(x, i)
                                  THEN c + (pa - SlicePa(x, 0)) ELSE m[pa]

\* It writes the first n bytes of the piece.
LEMMA SlicePatch ==
    ASSUME NEW m \in [Pas -> Nat], NEW m2, NEW s \in Nat, NEW e, NEW end \in Ends, Piece(s, e, end),
           NEW n \in Nat, n <= e - s, NEW c \in Nat, NEW x, x = Slice(s, e), Copied(m, m2, x, n, c)
    PROVE  Patched(m, m2, s, n, c)
<1>1. s \in Vas /\ \A i \in Nat : i < e - s => s + i \in Vas
  BY PieceInside
<1>2. e - s \in Nat /\ page_offset(s) + (e - s) <= PageSize /\ 0 < e - s
  BY DEF Piece
<1>3. PICK base : base = translate_va(s)
  OBVIOUS
<1>4. base \in Nat /\ page_offset(s) \in Nat /\ PageSize \in Nat
  BY <1>1, <1>3, VasPage, Buffers
<1>5. ASSUME NEW i \in Nat, i < e - s PROVE SlicePa(x, i) = base + i /\ base + i \in Pas
  <2>1. SlicePa(x, i) = translate_va(s + i)
    BY <1>1, <1>5, PieceBytes
  <2>2. page_offset(s) + i < PageSize
    BY <1>2, <1>4, <1>5
  <2>3. PICK P : P = ppn_of(floor(s)) * PageSize /\ P \in Nat
    BY <1>1, PageBase
  <2>4. translate_va(s + i) = P + (page_offset(s) + i)
    BY <2>2, <2>3, SamePage
  <2>5. base = P + page_offset(s)
    BY <1>3, <2>3 DEF translate_va
  <2>6. translate_va(s + i) \in Pas
    BY <1>1, <1>5, VasPage
  <2> QED BY <1>4, <2>1, <2>3, <2>4, <2>5, <2>6
<1>6. SlicePa(x, 0) = base
  <2>1. SlicePa(x, 0) = base + 0
    BY <1>2, <1>5
  <2> QED BY <1>4, <2>1
<1>7. ASSUME NEW i \in Nat, i < n PROVE m2[base + i] = c + i
  <2>1. i < e - s /\ i \in 0..(n - 1)
    BY <1>2, <1>7
  <2>2. base + i \in Pas /\ SlicePa(x, i) = base + i
    BY <1>5, <2>1
  <2>3. (base + i) - base = i
    BY <1>4
  <2> QED BY <1>6, <2>1, <2>2, <2>3 DEF Copied
<1>8. ASSUME NEW pa \in Pas, \A i \in Nat : i < n => pa # base + i PROVE m2[pa] = m[pa]
  <2>1. ASSUME NEW i \in 0..(n - 1) PROVE pa # SlicePa(x, i)
    <3>1. i \in Nat /\ i < n /\ i < e - s
      BY <1>2
    <3> QED BY <1>5, <1>8, <3>1
  <2> QED BY <2>1 DEF Copied
<1>9. m2 \in [Pas -> Nat]
  <2>1. ASSUME NEW pa \in Pas PROVE m2[pa] \in Nat
    <3>1. CASE \E i \in 0..(n - 1) : pa = SlicePa(x, i)
      <4>1. PICK i \in 0..(n - 1) : pa = SlicePa(x, i)
        BY <3>1
      <4>2. i \in Nat /\ i < n /\ i < e - s
        BY <1>2
      <4>3. pa = base + i
        BY <1>5, <4>1, <4>2
      <4>4. m2[pa] = c + i
        BY <1>7, <4>2, <4>3
      <4> QED BY <4>2, <4>4
    <3>2. CASE ~ \E i \in 0..(n - 1) : pa = SlicePa(x, i)
      BY <3>2 DEF Copied
    <3> QED BY <3>1, <3>2
  <2> QED BY <2>1 DEF Copied
<1>10. page_offset(s) + n <= PageSize /\ \A i \in Nat : i < n => s + i \in Vas
  <2>1. \A i \in Nat : i < n => i < e - s
    BY <1>2
  <2>2. page_offset(s) + n <= PageSize
    BY <1>2, <1>4
  <2> QED BY <1>1, <2>1, <2>2
<1>11. Pokes(m, m2, base, n, c)
  BY <1>7, <1>8, <1>9 DEF Pokes
<1> QED BY <1>1, <1>3, <1>10, <1>11, Patch

\* The slice after the first k is the piece from s to e.
NextAt(sl, k, p, s, e, end) ==
    s \in Nat /\ p <= s /\ s < end /\ sl[k + 1] = Slice(s, e) /\ Piece(s, e, end)

\* Every slice is such a piece.
LEMMA CutPiece ==
    ASSUME NEW b, NEW sl \in Seq(Slices), NEW p \in Nat, NEW end \in Ends, NEW st,
           Cut(b, sl, p, end, st), NEW k \in Nat, k < Len(sl), NEW s, s = b[k + 1], NEW e, e = b[k + 2]
    PROVE  NextAt(sl, k, p, s, e, end)
<1>1. /\ k + 1 \in 1..Len(sl) /\ k + 1 \in 1..(Len(sl) + 1) /\ (k + 1) + 1 = k + 2 /\ end \in Nat
  BY EndNat
<1>2. s \in p..end
  BY <1>1 DEF Cut
<1>3. s < end /\ e = EndVa(s, end) /\ sl[k + 1] = Slice(s, e)
  BY <1>1 DEF Cut
<1>4. s \in Nat /\ p <= s
  BY <1>1, <1>2
<1> QED BY <1>1, <1>3, <1>4, NextPiece DEF NextAt

\* OSInode::read fills the next slice, as far as the file goes.
LEMMA ReadStep ==
    ASSUME Settled, read
    PROVE  Settled'
<1>1. /\ op = "read" /\ BufferDone /\ count < Len(slices)
      /\ op' = op /\ ptr' = ptr /\ len' = len /\ start' = start /\ slices' = slices /\ file' = file
      /\ offset0' = offset0 /\ result' = result /\ done' = done
  BY DEF read
<1>2. PICK b \in [1..(Len(slices) + 1) -> ptr..(ptr + len)] :
          /\ Cut(b, slices, ptr, ptr + len, start) /\ count <= Len(slices)
          /\ total <= FileSize - offset0 /\ total <= b[count + 1] - ptr
          /\ total = FileSize - offset0 \/ total = b[count + 1] - ptr
  BY <1>1 DEF Settled, Reading
<1>3. PICK N, end, s, e, x, n : /\ N = Len(slices) /\ end = ptr + len /\ s = b[count + 1] /\ e = b[count + 2]
                                /\ x = slices[count + 1] /\ n = read_at(offset, x)
  OBVIOUS
<1>4. /\ count \in Nat /\ N \in Nat /\ count < N /\ ptr \in Nat /\ end \in Ends /\ end \in Nat /\ total \in Nat
      /\ offset0 \in Nat /\ FileSize \in Nat /\ offset0 <= FileSize /\ offset = offset0 + total
      /\ bytes \in [Pas -> Nat] /\ start \in Nat
  BY <1>1, <1>3, Buffers DEF Settled, Typed
<1>5. count + 1 \in 1..N /\ (count + 1) + 1 = count + 2 /\ count + 1 \in 1..(N + 1) /\ count + 2 \in 1..(N + 1)
  BY <1>4
<1>6. s \in Nat /\ ptr <= s /\ s < end /\ x = Slice(s, e) /\ Piece(s, e, end)
  <2>1. slices \in Seq(Slices) /\ Cut(b, slices, ptr, end, start) /\ count < Len(slices)
    BY <1>2, <1>3, <1>4 DEF Settled, Typed
  <2>2. NextAt(slices, count, ptr, s, e, end)
    BY <1>3, <1>4, <2>1, CutPiece
  <2> QED BY <1>3, <2>2 DEF NextAt
<1>7. Piece(s, e, end)
  BY <1>6
<1>8. e \in Nat /\ s < e /\ e <= end /\ SliceLen(x) = e - s
  BY <1>6, <1>7 DEF Piece
<1>9. file = File0 /\ Len(file) = FileSize /\ Filled(bytes, ptr, total, 50 + offset0)
      /\ \A i \in 1..FileSize : file[i] = 50 + (i - 1)
  BY <1>1, <1>4 DEF Settled, Reading, File0, FileByte
<1>10. n = IF offset >= FileSize THEN 0 ELSE IF e - s <= FileSize - offset THEN e - s ELSE FileSize - offset
  <2>1. CASE offset >= FileSize
    BY <1>3, <1>9, <2>1 DEF read_at
  <2>2. CASE ~ (offset >= FileSize)
    <3>1. e - s \in Nat /\ FileSize - offset \in Nat
      BY <1>4, <1>8, <1>6, <2>2
    <3>2. n = Min({e - s, FileSize - offset})
      BY <1>3, <1>8, <1>9, <2>2 DEF read_at
    <3>3. Min({e - s, FileSize - offset}) = IF e - s <= FileSize - offset THEN e - s ELSE FileSize - offset
      BY <3>1, MinMax
    <3> QED BY <2>2, <3>2, <3>3
  <2> QED BY <2>1, <2>2
<1>11. n \in Nat /\ n <= e - s /\ (offset < FileSize => n > 0)
  BY <1>4, <1>6, <1>8, <1>10
<1>12. /\ offset' = offset + n /\ total' = total + n /\ count' = IF n = 0 THEN Len(slices) ELSE count + 1
       /\ bytes' = [pa \in Pas |-> IF \E i \in 0..(n - 1) : pa = SlicePa(x, i)
                                     THEN file[offset + 1 + pa - SlicePa(x, 0)] ELSE bytes[pa]]
  BY <1>3 DEF read, ReadOffset
<1>13. Patched(bytes, bytes', s, n, 50 + offset)
  <2>1. PICK m2 : m2 = bytes'
    OBVIOUS
  <2>2. ASSUME NEW pa \in Pas
        PROVE  m2[pa] = IF \E i \in 0..(n - 1) : pa = SlicePa(x, i)
                        THEN (50 + offset) + (pa - SlicePa(x, 0)) ELSE bytes[pa]
    <3>1. CASE \E i \in 0..(n - 1) : pa = SlicePa(x, i)
      <4>1. PICK i \in 0..(n - 1) : pa = SlicePa(x, i)
        BY <3>1
      <4>2. PICK B \in Nat : SlicePa(x, 0) = B /\ pa = B + i
        <5>1. PICK P \in Nat, f \in Nat : P = x.ppn * PageSize /\ f = x.from
          <6>1. s \in Vas
            BY <1>4, <1>6, <1>7, PieceInside
          <6>2. ppn_of(floor(s)) * PageSize \in Nat /\ page_offset(s) \in Nat
            BY <6>1, PageBase, VasPage
          <6>3. x.ppn = ppn_of(floor(s)) /\ x.from = page_offset(s)
            BY <1>6, <1>7 DEF Piece
          <6> QED BY <6>2, <6>3
        <5>2. SlicePa(x, 0) = P + f + 0 /\ pa = P + f + i
          BY <4>1, <5>1 DEF SlicePa
        <5> QED BY <1>11, <5>1, <5>2
      <4>3. offset + 1 + pa - B = (offset + i) + 1 /\ (offset + i) + 1 \in 1..FileSize /\ pa - B = i
        BY <1>4, <1>10, <1>11, <4>2
      <4>4. file[offset + 1 + pa - B] = (50 + offset) + (pa - B)
        BY <1>4, <1>9, <1>11, <4>3
      <4> QED BY <1>12, <2>1, <3>1, <4>2, <4>4
    <3>2. CASE ~ \E i \in 0..(n - 1) : pa = SlicePa(x, i)
      BY <1>12, <2>1, <3>2
    <3> QED BY <3>1, <3>2
  <2>3. m2 = [pa \in Pas |-> m2[pa]]
    BY <1>12, <2>1
  <2>4. 50 + offset \in Nat
    BY <1>4
  <2>5. PICK d \in Nat : d = 50 + offset
    BY <2>4
  <2>6. Copied(bytes, m2, x, n, d)
    BY <2>2, <2>3, <2>5 DEF Copied
  <2>7. Patched(bytes, m2, s, n, d)
    BY <1>4, <1>6, <1>7, <1>11, <2>6, SlicePatch
  <2> QED BY <2>1, <2>5, <2>7
<1>14. bytes' \in [Pas -> Nat]
  BY <1>13 DEF Patched
<1>15. Typed'
  BY <1>1, <1>4, <1>11, <1>12, <1>14 DEF Settled, Typed
<1>16. b[N + 1] = end
  <2>1. b[N + 1] = start /\ b[N + 1] \in ptr..end
    <3>1. N + 1 \in 1..(N + 1)
      BY <1>4
    <3> QED BY <1>2, <1>3, <3>1 DEF Cut
  <2>2. start >= end
    BY <1>1, <1>3, <1>4, EndAsIs
  <2> QED BY <1>3, <1>4, <2>1, <2>2
<1>17. /\ Filled(bytes', ptr, total + n, 50 + offset0)
       /\ total + n <= FileSize - offset0 /\ count' <= N /\ count' \in Nat
       /\ total + n <= b[count' + 1] - ptr
       /\ total + n = FileSize - offset0 \/ total + n = b[count' + 1] - ptr
  <2>1. CASE offset >= FileSize
    <3>1. n = 0 /\ count' = N
      BY <1>3, <1>10, <1>12, <2>1
    <3>2. bytes' = bytes
      <4>1. \A pa \in Pas : bytes'[pa] = bytes[pa]
        BY <1>12, <3>1
      <4> QED BY <1>4, <1>14, <4>1
    <3>3. total = FileSize - offset0 /\ total <= end - ptr /\ total + 0 = total
      BY <1>2, <1>3, <1>4, <1>6, <2>1
    <3> QED BY <1>3, <1>4, <1>9, <1>16, <3>1, <3>2, <3>3
  <2>2. CASE offset < FileSize
    <3>1. n > 0 /\ count' = count + 1 /\ total = s - ptr /\ s = ptr + total
      <4>1. n > 0 /\ count' = count + 1
        BY <1>11, <1>12, <2>2
      <4>2. total # FileSize - offset0
        BY <1>4, <2>2
      <4>3. total = s - ptr
        BY <1>2, <1>3, <4>2
      <4> QED BY <1>4, <1>6, <4>1, <4>3
    <3>2. 50 + offset = (50 + offset0) + total
      BY <1>4
    <3>3. Filled(bytes', ptr, total + n, 50 + offset0)
      <4>1. PICK c, d : c \in Nat /\ c = 50 + offset0 /\ d = 50 + offset
        BY <1>4
      <4>2. PICK m2 : m2 = bytes'
        OBVIOUS
      <4>3. d = c + total /\ s = ptr + total /\ Filled(bytes, ptr, total, c) /\ Patched(bytes, m2, s, n, d)
        BY <1>9, <1>13, <3>1, <3>2, <4>1, <4>2
      <4>4. Filled(m2, ptr, total + n, c)
        BY <1>4, <1>11, <4>1, <4>3, FilledMore
      <4> QED BY <4>1, <4>2, <4>4
    <3>4. b[count' + 1] = e /\ count' <= N /\ count' \in Nat
      BY <1>3, <1>4, <1>5, <3>1
    <3>5. /\ total + n <= FileSize - offset0 /\ total + n <= e - ptr
          /\ total + n = FileSize - offset0 \/ total + n = e - ptr
      <4>1. n = IF e - s <= FileSize - offset THEN e - s ELSE FileSize - offset
        BY <1>4, <1>10, <2>2
      <4>2. CASE e - s <= FileSize - offset
        <5>1. n = e - s
          BY <4>1, <4>2
        <5>2. total + n = e - ptr /\ total + n <= FileSize - offset0
          <6>1. total + n = e - ptr
            BY <1>4, <1>6, <1>8, <3>1, <5>1
          <6>2. n <= FileSize - offset /\ n \in Nat
            BY <1>11, <4>2, <5>1
          <6>3. total + n <= FileSize - offset0
            BY <1>4, <6>2
          <6> QED BY <6>1, <6>3
        <5> QED BY <1>4, <1>8, <5>2
      <4>3. CASE ~ (e - s <= FileSize - offset)
        <5>1. n = FileSize - offset
          BY <4>1, <4>3
        <5>2. total + n = FileSize - offset0 /\ total + n <= e - ptr
          BY <1>4, <1>6, <1>8, <3>1, <4>3, <5>1
        <5> QED BY <1>4, <1>8, <5>2
      <4> QED BY <4>2, <4>3
    <3> QED BY <3>3, <3>4, <3>5
  <2> QED BY <1>4, <2>1, <2>2
<1>18. Reading'
  <2>1. ~ done
    BY <1>1, <1>3, <1>4 DEF Settled, Reading
  <2>2. Cut(b, slices', ptr', ptr' + len', start') /\ b \in [1..(Len(slices') + 1) -> ptr'..(ptr' + len')]
    BY <1>1, <1>2
  <2>3. /\ count' <= Len(slices') /\ total' <= FileSize - offset0' /\ total' <= b[count' + 1] - ptr'
        /\ total' = FileSize - offset0' \/ total' = b[count' + 1] - ptr'
    BY <1>1, <1>3, <1>12, <1>17
  <2>4. Filled(bytes', ptr', total', 50 + offset0') /\ file' = File0 /\ ~ done'
    BY <1>1, <1>9, <1>12, <1>17, <2>1
  <2> QED BY <2>2, <2>3, <2>4 DEF Reading, Cut, Filled, File0
<1>19. Starting' /\ Sending' /\ Loading' /\ Parsing' /\ Writing'
  BY <1>1 DEF Starting, Sending, Loading, Parsing, Writing
<1> QED BY <1>15, <1>18, <1>19 DEF Settled

\* The file after a write of n bytes at offset q.
Stored(f, f2, m, x, q, n) ==
    f2 = [i \in 1..Max({Len(f), q + n}) |->
            IF i > q /\ i <= q + n THEN m[SlicePa(x, i - q - 1)] ELSE f[i]]

\* write_at of the piece at s continues what was written before.
LEMMA WrittenMore ==
    ASSUME NEW f \in Seq(Nat), NEW f2, NEW m, NEW p \in Nat, NEW o \in Nat, NEW k \in Nat, o <= FileSize,
           NEW s, s = p + k, NEW q, q = o + k, Written(f, p, o, q), Filled(m, p, 0, 0),
           NEW e, NEW end \in Ends, Piece(s, e, end), NEW x, x = Slice(s, e), NEW n \in Nat, n = e - s,
           Stored(f, f2, m, x, q, n)
    PROVE  f2 \in Seq(Nat) /\ Written(f2, p, o, q + n)
<1>1. /\ s \in Nat /\ q \in Nat /\ FileSize \in Nat
      /\ Len(f) \in Nat /\ Len(f) = IF FileSize < q THEN q ELSE FileSize
  BY Buffers DEF Written
<1>2. s \in Vas /\ \A i \in Nat : i < e - s => s + i \in Vas
  BY <1>1, PieceInside
<1>3. ASSUME NEW i \in Nat, i < n PROVE m[SlicePa(x, i)] = 100 + (s + i)
  <2>1. SlicePa(x, i) = translate_va(s + i) /\ s + i \in Vas
    BY <1>2, <1>3, PieceBytes
  <2>2. m[translate_va(s + i)] = UserByte(s + i)
    BY <1>1, <2>1 DEF Filled
  <2> QED BY <2>1, <2>2 DEF UserByte
<1>4. PICK L \in Nat : L = IF Len(f) <= q + n THEN q + n ELSE Len(f)
  BY <1>1
<1>5. L = Max({Len(f), q + n}) /\ L = (IF FileSize < q + n THEN q + n ELSE FileSize)
  <2>1. q + n \in Nat
    BY <1>1
  <2>2. Max({Len(f), q + n}) = IF Len(f) <= q + n THEN q + n ELSE Len(f)
    BY <1>1, <2>1, MinMax
  <2>3. L = (IF FileSize < q + n THEN q + n ELSE FileSize)
    BY <1>1, <1>4
  <2> QED BY <1>4, <2>2, <2>3
<1>6. f2 = [i \in 1..L |-> IF i > q /\ i <= q + n THEN m[SlicePa(x, i - q - 1)] ELSE f[i]]
  BY <1>5 DEF Stored
<1>7. ASSUME NEW i \in 0..(L - 1)
      PROVE  /\ f2[i + 1] = IF o <= i /\ i < q + n THEN UserByte(p + (i - o)) ELSE FileByte(i)
             /\ f2[i + 1] \in Nat
  <2>1. i \in Nat /\ i + 1 \in 1..L
    OBVIOUS
  <2>2. f2[i + 1] = IF i + 1 > q /\ i + 1 <= q + n THEN m[SlicePa(x, (i + 1) - q - 1)] ELSE f[i + 1]
    BY <1>6, <2>1
  <2>3. CASE q <= i /\ i < q + n
    <3>1. PICK j \in Nat : j = i - q /\ j < n /\ (i + 1) - q - 1 = j /\ s + j = p + (i - o)
      <4>1. i - q \in Nat /\ i - q < n /\ (i + 1) - q - 1 = i - q /\ s + (i - q) = p + (i - o)
        BY <1>1, <2>1, <2>3
      <4> QED BY <4>1
    <3>2. f2[i + 1] = m[SlicePa(x, j)]
      BY <1>1, <2>1, <2>2, <2>3, <3>1
    <3>3. f2[i + 1] = 100 + (p + (i - o)) /\ s + j \in Nat
      BY <1>1, <1>3, <3>1, <3>2
    <3>4. o <= i
      BY <1>1, <2>1, <2>3
    <3> QED BY <1>1, <2>1, <2>3, <3>1, <3>3, <3>4 DEF UserByte
  <2>4. CASE ~ (q <= i /\ i < q + n)
    <3>1. f2[i + 1] = f[i + 1]
      <4>1. ~ (i + 1 > q /\ i + 1 <= q + n)
        BY <1>1, <2>1, <2>4
      <4> QED BY <2>2, <4>1
    <3>2. i \in 0..(Len(f) - 1) /\ i + 1 \in 1..Len(f)
      BY <1>1, <1>4, <2>1, <2>4
    <3>3. f[i + 1] = (IF o <= i /\ i < q THEN UserByte(p + (i - o)) ELSE FileByte(i)) /\ f[i + 1] \in Nat
      BY <3>2 DEF Written
    <3>4. i < q + n <=> i < q
      BY <1>1, <2>1, <2>4
    <3> QED BY <3>1, <3>3, <3>4
  <2> QED BY <2>3, <2>4
<1>8. f2 \in Seq(Nat) /\ Len(f2) = L
  <2>1. ASSUME NEW j \in 1..L PROVE f2[j] \in Nat
    <3>1. j - 1 \in 0..(L - 1) /\ (j - 1) + 1 = j
      OBVIOUS
    <3> QED BY <1>7, <3>1
  <2>2. f2 \in [1..L -> Nat]
    BY <1>6, <2>1
  <2> QED BY <2>2
<1> QED BY <1>5, <1>7, <1>8 DEF Written

\* OSInode::write stores the next slice.
LEMMA WriteStep ==
    ASSUME Settled, write
    PROVE  Settled'
<1>1. /\ op = "write" /\ BufferDone /\ count < Len(slices) /\ count' = count + 1
      /\ op' = op /\ ptr' = ptr /\ len' = len /\ start' = start /\ slices' = slices /\ bytes' = bytes
      /\ offset0' = offset0 /\ result' = result /\ done' = done
  BY DEF write
<1>2. PICK b \in [1..(Len(slices) + 1) -> ptr..(ptr + len)] :
          Cut(b, slices, ptr, ptr + len, start) /\ count <= Len(slices) /\ total = b[count + 1] - ptr
  BY <1>1 DEF Settled, Writing
<1>3. PICK N, end, s, e, x, n, f2 : /\ N = Len(slices) /\ end = ptr + len /\ s = b[count + 1] /\ e = b[count + 2]
                                    /\ x = slices[count + 1] /\ n = SliceLen(x) /\ f2 = file'
  OBVIOUS
<1>4. /\ count \in Nat /\ N \in Nat /\ count < N /\ ptr \in Nat /\ end \in Ends /\ end \in Nat /\ total \in Nat
      /\ offset0 \in Nat /\ offset0 <= FileSize /\ offset = offset0 + total /\ file \in Seq(Nat)
  BY <1>1, <1>3, Buffers DEF Settled, Typed
<1>5. count + 1 \in 1..N /\ (count + 1) + 1 = count + 2 /\ count + 1 \in 1..(N + 1) /\ count + 2 \in 1..(N + 1)
  BY <1>4
<1>6. s \in Nat /\ ptr <= s /\ s < end /\ x = Slice(s, e) /\ Piece(s, e, end)
  <2>1. slices \in Seq(Slices) /\ Cut(b, slices, ptr, end, start) /\ count < Len(slices)
    BY <1>2, <1>3, <1>4 DEF Settled, Typed
  <2>2. NextAt(slices, count, ptr, s, e, end)
    BY <1>3, <1>4, <2>1, CutPiece
  <2> QED BY <1>3, <2>2 DEF NextAt
<1>7. Piece(s, e, end)
  BY <1>6
<1>8. e \in Nat /\ s < e /\ n = e - s /\ n \in Nat /\ s = ptr + total
  <2>1. e \in Nat /\ s < e /\ n = e - s
    BY <1>3, <1>6 DEF Piece
  <2>2. total = s - ptr
    BY <1>2, <1>3
  <2> QED BY <1>4, <1>6, <2>1, <2>2
<1>9. offset' = offset + n /\ total' = total + n /\ Stored(file, f2, bytes, x, offset, n)
  BY <1>3 DEF write, Stored
<1>10. Written(file, ptr, offset0, offset) /\ Filled(bytes, ptr, 0, 0) /\ ~ done
  BY <1>1, <1>3, <1>4 DEF Settled, Writing
<1>11. PICK q : q = offset
  OBVIOUS
<1>12. f2 \in Seq(Nat) /\ Written(f2, ptr, offset0, q + n)
  BY <1>4, <1>6, <1>7, <1>8, <1>9, <1>10, <1>11, WrittenMore
<1>13. Typed'
  <2>1. file' \in Seq(Nat) /\ offset' = offset0 + total' /\ total' \in Nat /\ count' \in Nat
    <3>1. file' \in Seq(Nat)
      BY <1>3, <1>12
    <3>2. total' \in Nat
      BY <1>4, <1>8, <1>9
    <3>3. count' \in Nat
      BY <1>1, <1>4
    <3>4. offset' = offset0 + total'
      BY <1>4, <1>8, <1>9
    <3> QED BY <3>1, <3>2, <3>3, <3>4
  <2> QED BY <1>1, <2>1 DEF Settled, Typed
<1>14. Writing'
  <2>1. total' = b[count' + 1] - ptr
    <3>1. b[count' + 1] = e
      BY <1>1, <1>3, <1>5
    <3> QED BY <1>4, <1>6, <1>8, <1>9, <3>1
  <2>2. count' <= Len(slices')
    BY <1>1, <1>3, <1>4
  <2>3. Cut(b, slices', ptr', ptr' + len', start') /\ b \in [1..(Len(slices') + 1) -> ptr'..(ptr' + len')]
    BY <1>1, <1>2
  <2>4. Written(file', ptr', offset0', offset') /\ Filled(bytes', ptr', 0, 0) /\ ~ done'
    BY <1>1, <1>3, <1>9, <1>10, <1>11, <1>12
  <2> QED BY <1>1, <2>1, <2>2, <2>3, <2>4 DEF Writing, Cut, Filled, Written
<1>15. Starting' /\ Sending' /\ Loading' /\ Parsing' /\ Reading'
  BY <1>1 DEF Starting, Sending, Loading, Parsing, Reading
<1> QED BY <1>13, <1>14, <1>15 DEF Settled

\* translated_and_write_bytes fills the next piece.
LEMMA BytesStep ==
    ASSUME Settled, translated_and_write_bytes
    PROVE  Settled'
<1>0. op = "bytes" /\ ~ BufferDone
  BY DEF translated_and_write_bytes
<1>1. /\ op = "bytes" /\ start < ptr + len /\ BufEnd = ptr + len
      /\ op' = op /\ ptr' = ptr /\ len' = len /\ slices' = slices /\ file' = file /\ offset' = offset
      /\ offset0' = offset0 /\ total' = total /\ result' = result /\ done' = done
  <2>1. ptr + len \in Ends /\ start \in Nat /\ ptr + len \in Nat
    BY <1>0 DEF Settled, Typed
  <2>2. BufEnd = ptr + len /\ start < ptr + len
    BY <1>0, <2>1, EndAsIs
  <2> QED BY <1>0, <2>2 DEF translated_and_write_bytes
<1>2. PICK end, s, e, x, n, m2 : /\ end = ptr + len /\ s = start /\ e = EndVa(s, end)
                                 /\ x = Slice(s, e) /\ n = SliceLen(x) /\ m2 = bytes'
  OBVIOUS
<1>3. /\ ptr \in Nat /\ len \in Nat /\ end \in Ends /\ end \in Nat /\ s \in Nat /\ count \in Nat
      /\ bytes \in [Pas -> Nat] /\ s < end
  BY <1>1, <1>2 DEF Settled, Typed
<1>4. ptr <= s /\ count = s - ptr /\ Filled(bytes, ptr, count, 200) /\ ~ done /\ s = ptr + count
  <2>1. ptr <= start /\ count = start - ptr /\ Filled(bytes, ptr, count, 200) /\ ~ done
    BY <1>0 DEF Settled, Sending
  <2> QED BY <1>2, <1>3, <2>1
<1>5. Piece(s, e, end)
  BY <1>2, <1>3, NextPiece
<1>6. e \in Nat /\ s < e /\ e <= end /\ n = e - s /\ n \in Nat /\ n <= e - s
  <2>1. e \in Nat /\ s < e /\ e <= end /\ n = e - s
    BY <1>2, <1>5 DEF Piece
  <2> QED BY <1>3, <2>1
<1>7. /\ count' = count + n /\ start' = e
      /\ m2 = [pa \in Pas |-> IF \E i \in 0..(n - 1) : pa = SlicePa(x, i)
                                THEN 200 + (count + (pa - SlicePa(x, 0))) ELSE bytes[pa]]
  <2>1. start_va = s
    BY <1>2, <1>3, AsIs DEF start_va
  <2>2. end_va = e /\ ThisSlice = x
    BY <1>1, <1>2, <2>1 DEF end_va, ThisSlice
  <2>3. Span(x) = n
    <3>1. x.from \in Nat /\ x.to \in Nat
      <4>1. s \in Vas
        BY <1>3, <1>5, PieceInside
      <4> QED BY <1>2, <1>5, <4>1, VasPage DEF Piece
    <3>2. n = x.to - x.from
      BY <1>2 DEF SliceLen
    <3> QED BY <1>2, <1>6, <3>1, <3>2 DEF Span
  <2> QED BY <1>2, <2>2, <2>3 DEF translated_and_write_bytes, DataByte, DataIndex
<1>8. PICK d \in Nat : d = 200 + count
  BY <1>3
<1>9. Copied(bytes, m2, x, n, d)
  <2>1. ASSUME NEW pa \in Pas
        PROVE  m2[pa] = IF \E i \in 0..(n - 1) : pa = SlicePa(x, i)
                        THEN d + (pa - SlicePa(x, 0)) ELSE bytes[pa]
    <3>1. CASE \E i \in 0..(n - 1) : pa = SlicePa(x, i)
      <4>1. s \in Vas
        BY <1>3, <1>5, PieceInside
      <4>2. PICK P \in Nat, f \in Nat : P = x.ppn * PageSize /\ f = x.from
        <5>1. ppn_of(floor(s)) * PageSize \in Nat /\ page_offset(s) \in Nat
          BY <4>1, PageBase, VasPage
        <5>2. x.ppn = ppn_of(floor(s)) /\ x.from = page_offset(s)
          BY <1>2, <1>5 DEF Piece
        <5> QED BY <5>1, <5>2
      <4>3. PICK i \in 0..(n - 1) : pa = SlicePa(x, i)
        BY <3>1
      <4>4. pa - SlicePa(x, 0) \in Int
        BY <1>6, <4>2, <4>3 DEF SlicePa
      <4>5. 200 + (count + (pa - SlicePa(x, 0))) = d + (pa - SlicePa(x, 0))
        BY <1>3, <1>8, <4>4
      <4> QED BY <1>7, <3>1, <4>5
    <3>2. CASE ~ \E i \in 0..(n - 1) : pa = SlicePa(x, i)
      BY <1>7, <3>2
    <3> QED BY <3>1, <3>2
  <2>2. m2 = [pa \in Pas |-> m2[pa]]
    BY <1>7
  <2> QED BY <2>1, <2>2 DEF Copied
<1>10. Patched(bytes, m2, s, n, d)
  BY <1>2, <1>3, <1>5, <1>6, <1>9, SlicePatch
<1>11. Filled(m2, ptr, count + n, 200)
  <2>1. PICK c \in Nat : c = 200
    OBVIOUS
  <2>2. Filled(bytes, ptr, count, c) /\ d = c + count
    BY <1>4, <1>8, <2>1
  <2>3. Filled(m2, ptr, count + n, c)
    BY <1>3, <1>4, <1>6, <1>10, <2>1, <2>2, FilledMore
  <2> QED BY <2>1, <2>3
<1>12. Typed'
  <2>1. bytes' \in [Pas -> Nat]
    BY <1>2, <1>10 DEF Patched
  <2>2. start' \in Nat /\ count' \in Nat
    BY <1>3, <1>6, <1>7
  <2> QED BY <1>1, <2>1, <2>2 DEF Settled, Typed
<1>13. Sending'
  <2>1. ptr' <= start' /\ start' <= ptr' + len' /\ count' = start' - ptr'
    BY <1>1, <1>2, <1>3, <1>4, <1>6, <1>7
  <2>2. Filled(bytes', ptr', count', 200) /\ ~ done'
    BY <1>1, <1>2, <1>4, <1>7, <1>11
  <2> QED BY <2>1, <2>2 DEF Sending, Filled
<1>14. Starting' /\ Reading' /\ Writing' /\ Loading' /\ Parsing'
  BY <1>1 DEF Starting, Reading, Writing, Loading, Parsing
<1> QED BY <1>12, <1>13, <1>14 DEF Settled

\* The beginning of the next page.
LEMMA NextPage ==
    ASSUME NEW s \in Nat, page_offset(s) = 0
    PROVE  page_offset(s + PageSize) = 0
<1>1. PICK q \in Nat, r \in Nat : OnPage(s, q, r)
  BY PageOf
<1>2. r = 0 /\ PageSize \in Nat \ {0} /\ q * PageSize \in Nat
  BY <1>1, Buffers DEF OnPage
<1>3. PICK w : w = s + PageSize
  OBVIOUS
<1>4. w = (q + 1) * PageSize + 0
  <2>1. (q + 1) * PageSize = q * PageSize + PageSize
    BY <1>2
  <2> QED BY <1>1, <1>2, <1>3, <2>1 DEF OnPage
<1>5. OnPage(w, q + 1, 0)
  BY <1>2, <1>4, PageUnique
<1> QED BY <1>3, <1>5 DEF OnPage

\* MapArea::copy_data fills the next page.
LEMMA CopyStep ==
    ASSUME Settled, copy_data
    PROVE  Settled'
<1>1. /\ op = "elf" /\ count < len /\ count' = count + PageSize /\ start' = start + PageSize
      /\ op' = op /\ ptr' = ptr /\ len' = len /\ slices' = slices /\ file' = file /\ offset' = offset
      /\ offset0' = offset0 /\ total' = total /\ result' = result /\ done' = done
  BY DEF copy_data
<1>2. PICK end, s, n, base, m2 : /\ end = ptr + len /\ s = start /\ n = Min({PageSize, len - count})
                                 /\ base = ppn_of(floor(s)) * PageSize /\ m2 = bytes'
  OBVIOUS
<1>3. /\ ptr \in Nat /\ len \in Nat /\ end \in Ends /\ end \in Nat /\ s \in Nat /\ count \in Nat
      /\ bytes \in [Pas -> Nat] /\ PageSize \in Nat \ {0}
  BY <1>1, <1>2, Buffers DEF Settled, Typed
<1>4. page_offset(s) = 0 /\ s = ptr + count /\ Filled(bytes, ptr, count, 200) /\ ~ done
  <2>1. (IF count < len THEN count ELSE len) = count /\ ~ (count >= len)
    BY <1>1, <1>3
  <2> QED BY <1>1, <1>2, <2>1 DEF Settled, Loading
<1>5. n = IF PageSize <= len - count THEN PageSize ELSE len - count
  <2>1. len - count \in Nat /\ PageSize \in Nat
    BY <1>1, <1>3
  <2>2. Min({PageSize, len - count}) = IF PageSize <= len - count THEN PageSize ELSE len - count
    BY <2>1, MinMax
  <2> QED BY <1>2, <2>2
<1>6. n \in Nat /\ n <= PageSize /\ s + n <= end /\ s < end
  <2>1. n \in Nat /\ n <= PageSize /\ n <= len - count
    BY <1>1, <1>3, <1>5
  <2>2. s + n <= end
    BY <1>2, <1>3, <1>4, <2>1
  <2>3. s < end
    BY <1>1, <1>2, <1>3, <1>4
  <2> QED BY <2>1, <2>2, <2>3
<1>7. s \in Vas /\ \A i \in Nat : i < n => s + i \in Vas
  <2>1. s \in Vas
    BY <1>3, <1>6, BufferInside
  <2>2. ASSUME NEW i \in Nat, i < n PROVE s + i \in Vas
    <3>1. s + i \in Nat /\ s + i < end
      BY <1>3, <1>6, <2>2
    <3> QED BY <1>3, <3>1, BufferInside
  <2> QED BY <2>1, <2>2
<1>8. base \in Nat /\ base = translate_va(s)
  <2>1. base \in Nat
    BY <1>2, <1>7, PageBase
  <2>2. translate_va(s) = base + 0
    BY <1>2, <1>4 DEF translate_va
  <2> QED BY <2>1, <2>2
<1>9. m2 = [pa \in Pas |-> IF pa \in base .. (base + n - 1) THEN 200 + (count + pa - base) ELSE bytes[pa]]
  BY <1>2 DEF copy_data, DataByte
<1>10. PICK d \in Nat : d = 200 + count
  BY <1>3
<1>11. Pokes(bytes, m2, base, n, d)
  <2>1. ASSUME NEW i \in Nat, i < n PROVE base + i \in Pas /\ m2[base + i] = d + i
    <3>1. translate_va(s + i) = base + (page_offset(s) + i)
      <4>1. page_offset(s) + i < PageSize
        BY <1>3, <1>4, <1>6, <2>1
      <4> QED BY <1>2, <1>3, <4>1, SamePage
    <3>2. translate_va(s + i) = base + i
      BY <1>4, <1>8, <3>1
    <3>3. base + i \in Pas
      BY <1>7, <2>1, <3>2, VasPage
    <3>4. base + i \in base .. (base + n - 1) /\ 200 + (count + (base + i) - base) = d + i
      BY <1>3, <1>6, <1>8, <1>10, <2>1
    <3> QED BY <1>9, <3>3, <3>4
  <2>2. ASSUME NEW pa \in Pas, \A i \in Nat : i < n => pa # base + i PROVE m2[pa] = bytes[pa]
    <3>1. pa \notin base .. (base + n - 1)
      <4>1. ASSUME pa \in base .. (base + n - 1) PROVE FALSE
        <5>1. pa - base \in Nat /\ pa - base < n /\ pa = base + (pa - base)
          BY <1>6, <1>8, <4>1
        <5> QED BY <2>2, <5>1
      <4> QED BY <4>1
    <3> QED BY <1>9, <3>1
  <2>3. m2 \in [Pas -> Nat]
    <3>1. ASSUME NEW pa \in Pas PROVE m2[pa] \in Nat
      <4>1. CASE pa \in base .. (base + n - 1)
        <5>1. 200 + (count + pa - base) \in Nat
          BY <1>3, <1>6, <1>8, <4>1
        <5> QED BY <1>9, <4>1, <5>1
      <4>2. CASE pa \notin base .. (base + n - 1)
        BY <1>3, <1>9, <4>2
      <4> QED BY <4>1, <4>2
    <3> QED BY <1>9, <3>1
  <2> QED BY <2>1, <2>2, <2>3 DEF Pokes
<1>12. Patched(bytes, m2, s, n, d)
  <2>1. page_offset(s) + n <= PageSize
    BY <1>3, <1>4, <1>6
  <2> QED BY <1>6, <1>7, <1>8, <1>11, <2>1, Patch
<1>13. Filled(m2, ptr, count + n, 200)
  <2>1. PICK c \in Nat : c = 200
    OBVIOUS
  <2>2. Filled(bytes, ptr, count, c) /\ d = c + count
    BY <1>4, <1>10, <2>1
  <2>3. Filled(m2, ptr, count + n, c)
    <3>1. s = ptr + count /\ s \in Nat /\ n \in Nat /\ ptr \in Nat /\ count \in Nat
      BY <1>3, <1>4, <1>6
    <3> QED BY <1>12, <2>1, <2>2, <3>1, FilledMore
  <2> QED BY <2>1, <2>3
<1>14. count + n = IF count + PageSize < len THEN count + PageSize ELSE len
  BY <1>1, <1>3, <1>5
<1>15. Typed'
  <2>1. bytes' \in [Pas -> Nat]
    BY <1>2, <1>12 DEF Patched
  <2>2. start' \in Nat /\ count' \in Nat
    BY <1>1, <1>2, <1>3
  <2> QED BY <1>1, <2>1, <2>2 DEF Settled, Typed
<1>16. Loading'
  <2>1. page_offset(s + PageSize) = 0
    BY <1>3, <1>4, NextPage
  <2>2. page_offset(start') = 0 /\ start' = ptr' + count'
    BY <1>1, <1>2, <1>3, <1>4, <2>1
  <2>3. Filled(bytes', ptr', IF count' < len' THEN count' ELSE len', 200) /\ ~ done'
    BY <1>1, <1>2, <1>4, <1>13, <1>14
  <2> QED BY <2>2, <2>3 DEF Loading, Filled
<1>17. Starting' /\ Reading' /\ Writing' /\ Sending' /\ Parsing'
  BY <1>1 DEF Starting, Reading, Writing, Sending, Parsing
<1> QED BY <1>15, <1>16, <1>17 DEF Settled

\* A sequence with one more element.
LEMMA AppendAt ==
    \A x \in Seq(Nat), c \in Nat :
       /\ Append(x, c) \in Seq(Nat) /\ Len(Append(x, c)) = Len(x) + 1
       /\ Append(x, c)[Len(x) + 1] = c
       /\ \A i \in 1..Len(x) : Append(x, c)[i] = x[i]
OBVIOUS

\* translated_str takes the next byte: the one at ptr + len is the first NUL.
LEMMA StrStep ==
    ASSUME Settled, translated_str
    PROVE  Settled'
<1>1. /\ op = "str" /\ start_va \in Vas /\ start' = start + 1
      /\ op' = op /\ ptr' = ptr /\ len' = len /\ slices' = slices /\ count' = count /\ bytes' = bytes
      /\ file' = file /\ offset' = offset /\ offset0' = offset0 /\ total' = total /\ done' = done
  BY DEF translated_str
<1>2. PICK c, v : c = bytes[translate_va(start_va)] /\ v = start_va
  OBVIOUS
<1>3. c # 0 /\ result' = Append(result, c)
  BY <1>2 DEF translated_str, AtNul
<1>4. /\ ptr \in Nat /\ len \in Nat /\ start \in Nat /\ ptr <= start /\ start <= ptr + len /\ result \in Seq(Nat)
      /\ len <= MaxLen
      /\ done => start = ptr + len
  BY <1>1 DEF Settled, Typed, Parsing
<1>5. result = [i \in 1..(start - ptr) |-> UserByte(VirtAddr(ptr + i - 1))]
  BY <1>1 DEF Settled, Parsing
<1>6. \A va \in Vas : bytes[translate_va(va)] = IF va = VirtAddr(ptr + len) THEN 0 ELSE UserByte(va)
  BY <1>1 DEF Settled, Parsing
<1>7. start # ptr + len /\ c = UserByte(v) /\ c \in Nat /\ v = VirtAddr(start)
  <2>1. c = IF v = VirtAddr(ptr + len) THEN 0 ELSE UserByte(v)
    BY <1>1, <1>2, <1>6
  <2>2. UserByte(v) \in Nat
    BY <1>1, <1>2, VasPage DEF UserByte
  <2>3. v = VirtAddr(start)
    BY <1>2 DEF start_va
  <2>4. v # VirtAddr(ptr + len)
    BY <1>3, <2>1
  <2> QED BY <1>3, <2>1, <2>2, <2>3, <2>4
<1>8. PICK n \in Nat : n = start - ptr
  <2>1. start - ptr \in Nat
    BY <1>4
  <2> QED BY <2>1
<1>9. Len(result) = n /\ \A i \in 1..n : result[i] = UserByte(VirtAddr(ptr + i - 1))
  BY <1>5, <1>8
<1>10. start' - ptr' = n + 1
  BY <1>1, <1>4, <1>8
<1>11. result' = [i \in 1..(n + 1) |-> UserByte(VirtAddr(ptr + i - 1))]
  <2>1. PICK r2 : r2 = Append(result, c)
    OBVIOUS
  <2>2. r2 \in Seq(Nat) /\ Len(r2) = n + 1 /\ r2[n + 1] = c /\ \A i \in 1..n : r2[i] = result[i]
    <3>1. result \in Seq(Nat) /\ Len(result) = n /\ c \in Nat
      BY <1>4, <1>7, <1>9
    <3>2. /\ r2 \in Seq(Nat) /\ Len(r2) = Len(result) + 1 /\ r2[Len(result) + 1] = c
          /\ \A i \in 1..Len(result) : r2[i] = result[i]
      BY <2>1, <3>1, AppendAt
    <3> QED BY <3>1, <3>2
  <2>3. ASSUME NEW i \in 1..(n + 1) PROVE r2[i] = UserByte(VirtAddr(ptr + i - 1))
    <3>1. CASE i = n + 1
      <4>1. ptr + i - 1 = start
        BY <1>4, <1>8, <3>1
      <4> QED BY <1>7, <2>2, <3>1, <4>1
    <3>2. CASE i # n + 1
      <4>1. i \in 1..n
        BY <3>2
      <4> QED BY <1>9, <2>2, <4>1
    <3> QED BY <3>1, <3>2
  <2>4. r2 = [i \in 1..(n + 1) |-> r2[i]]
    BY <2>2
  <2> QED BY <1>3, <2>1, <2>3, <2>4
<1>12. Typed'
  <2>1. result' \in Seq(Nat)
    BY <1>3, <1>4, <1>7
  <2>2. start' \in Nat
    BY <1>1, <1>4
  <2> QED BY <1>1, <2>1, <2>2 DEF Settled, Typed
<1>13. Parsing'
  <2>1. ptr' <= start' /\ start' <= ptr' + len' /\ ~ done'
    BY <1>1, <1>4, <1>7
  <2>2. result' = [i \in 1..(start' - ptr') |-> UserByte(VirtAddr(ptr' + i - 1))]
    BY <1>1, <1>10, <1>11
  <2> QED BY <1>1, <1>4, <1>6, <2>1, <2>2 DEF Parsing
<1>14. Starting' /\ Reading' /\ Writing' /\ Sending' /\ Loading'
  BY <1>1 DEF Starting, Reading, Writing, Sending, Loading
<1> QED BY <1>12, <1>13, <1>14 DEF Settled

\* Addresses less than the whole space apart have different masked forms.
LEMMA MaskOnce ==
    ASSUME NEW a \in Nat, NEW b \in Nat, a <= b, b - a < Top, VirtAddr(a) = VirtAddr(b)
    PROVE  a = b
<1>1. PICK t : t = Top /\ t \in Nat \ {0}
  BY Buffers DEF Top
<1>2. PICK q, p, r : q = a \div t /\ p = b \div t /\ r = a % t /\ r = b % t
  BY <1>1 DEF VirtAddr
<1>3. q \in Nat /\ p \in Nat /\ r \in Nat /\ a = t * q + r /\ b = t * p + r
  BY <1>1, <1>2
<1>4. ASSUME p < q PROVE FALSE
  <2>1. PICK c \in Nat : q = p + 1 + c
    <3>1. q - (p + 1) \in Nat /\ q = p + 1 + (q - (p + 1))
      BY <1>3, <1>4
    <3> QED BY <3>1
  <2>2. t * q = t * p + t + t * c /\ t * c \in Nat /\ t * p \in Nat
    BY <1>1, <1>3, <2>1
  <2> QED BY <1>1, <1>3, <2>2
<1>5. ASSUME q < p PROVE FALSE
  <2>1. PICK c \in Nat : p = q + 1 + c
    <3>1. p - (q + 1) \in Nat /\ p = q + 1 + (p - (q + 1))
      BY <1>3, <1>5
    <3> QED BY <3>1
  <2>2. t * p = t * q + t + t * c /\ t * c \in Nat /\ t * q \in Nat
    BY <1>1, <1>3, <2>1
  <2> QED BY <1>1, <1>3, <2>2
<1>6. p = q
  BY <1>3, <1>4, <1>5
<1> QED BY <1>3, <1>6

\* A call returns when its loop is over.
LEMMA ReturnStep ==
    ASSUME Settled, Return
    PROVE  Settled'
<1>1. /\ op' = op /\ ptr' = ptr /\ len' = len /\ start' = start /\ slices' = slices /\ count' = count /\ bytes' = bytes
      /\ file' = file /\ offset' = offset /\ offset0' = offset0 /\ total' = total /\ result' = result /\ done' = TRUE
  BY DEF Return
<1>2. Typed'
  BY <1>1 DEF Settled, Typed
<1>3. \/ op \in {"read", "write"} /\ BufferDone /\ count = Len(slices)
      \/ op = "bytes" /\ BufferDone
      \/ op = "elf" /\ count >= len
      \/ op = "str" /\ start_va \in Vas /\ AtNul(start_va)
  BY DEF Return
<1>4. op = "str" => start = ptr + len
  <2>1. ASSUME op = "str" PROVE start = ptr + len
    <3>1. PICK v : v = start_va /\ bytes[translate_va(v)] = 0 /\ v \in Vas
      BY <1>3, <2>1 DEF AtNul
    <3>2. bytes[translate_va(v)] = IF v = VirtAddr(ptr + len) THEN 0 ELSE UserByte(v)
      BY <2>1, <3>1 DEF Settled, Parsing
    <3>3. v \in Nat
      BY <3>1, VasPage
    <3>4. v = VirtAddr(ptr + len)
      BY <3>1, <3>2, <3>3 DEF UserByte
    <3>5. start \in Nat /\ ptr \in Nat /\ len \in Nat /\ ptr <= start /\ start <= ptr + len /\ len <= MaxLen
      BY <2>1 DEF Settled, Typed, Parsing
    <3>6. PICK a, b : a = start /\ b = ptr + len
      OBVIOUS
    <3>7. a \in Nat /\ b \in Nat /\ a <= b /\ b - a < Top
      BY <3>5, <3>6, Buffers DEF Top
    <3>8. VirtAddr(a) = VirtAddr(b)
      BY <3>1, <3>4, <3>6 DEF start_va
    <3> QED BY <3>6, <3>7, <3>8, MaskOnce
  <2> QED BY <2>1
<1>5. Starting'
  BY <1>1, <1>3 DEF Starting
<1>6. Reading'
  <2>1. op = "read" => BufferDone' /\ count' = Len(slices')
    BY <1>1, <1>3 DEF BufferDone, BufEnd
  <2>2. op' = "read" => Reading
    BY DEF Settled
  <2> QED BY <1>1, <2>1, <2>2 DEF Reading, Cut, Filled, File0
<1>7. Writing'
  <2>1. op = "write" => BufferDone' /\ count' = Len(slices')
    BY <1>1, <1>3 DEF BufferDone, BufEnd
  <2>2. op' = "write" => Writing
    BY DEF Settled
  <2> QED BY <1>1, <2>1, <2>2 DEF Writing, Cut, Filled, Written
<1>8. Sending'
  BY <1>1, <1>3 DEF Settled, Sending, Filled, BufferDone, BufEnd
<1>9. Loading'
  BY <1>1, <1>3 DEF Settled, Loading, Filled
<1>10. Parsing'
  BY <1>1, <1>4 DEF Settled, Parsing
<1> QED BY <1>2, <1>5, <1>6, <1>7, <1>8, <1>9, <1>10 DEF Settled

\* No argument, no byte and no counter changes.
LEMMA SettledSame ==
    ASSUME Settled,
           op' = op, ptr' = ptr, len' = len, start' = start, slices' = slices, count' = count, bytes' = bytes,
           file' = file, offset' = offset, offset0' = offset0, total' = total, result' = result, done' = done
    PROVE  Settled'
<1>1. /\ op' = op /\ ptr' = ptr /\ len' = len /\ start' = start /\ slices' = slices /\ count' = count /\ bytes' = bytes
      /\ file' = file /\ offset' = offset /\ offset0' = offset0 /\ total' = total /\ result' = result /\ done' = done
  OBVIOUS
<1>2. Typed' /\ Starting'
  BY <1>1 DEF Settled, Typed, Starting, Filled, File0
<1>3. Reading'
  BY <1>1 DEF Settled, Reading, Cut, Filled, File0, BufferDone, BufEnd
<1>4. Writing'
  BY <1>1 DEF Settled, Writing, Cut, Filled, Written, BufferDone, BufEnd
<1>5. Sending' /\ Loading' /\ Parsing'
  BY <1>1 DEF Settled, Sending, Loading, Parsing, Filled, BufferDone, BufEnd
<1> QED BY <1>2, <1>3, <1>4, <1>5 DEF Settled

\* Nothing happens.
LEMMA IOStutter ==
    ASSUME Settled, UNCHANGED io_vars
    PROVE  Settled'
BY SettledSame DEF io_vars

\* A call on a buffer that is not where the loops can end.
LEMMA StrayCall ==
    ASSUME Settled, NEW c \in Calls, NEW p \in 0..(UsizeSize - 1), NEW n \in 0..MaxLen, Call(c, p, n),
           c # "str", p + n \notin Ends
    PROVE  Stray'
<1>1. /\ op = "start" /\ op' = c /\ ptr' = p /\ len' = n /\ start' = p /\ bytes' = bytes
      /\ slices' = slices /\ count' = count /\ file' = file /\ offset' = offset /\ offset0' = offset0
      /\ total' = total /\ done' = done
  BY DEF Call
<1>2. /\ count = 0 /\ total = 0 /\ slices = <<>> /\ file = File0 /\ done = FALSE
      /\ Filled(bytes, 0, 0, 0)
  BY <1>1 DEF Settled, Starting
<1>3. p \in Nat /\ n \in Nat /\ UsizeSize \in Nat
  BY Buffers
<1>4. c \in {"read", "write", "bytes"}
  BY DEF Call, Calls
<1>5. CASE n = 0
  <2>1. offset0 \in 0..FileSize /\ offset = offset0
    BY <1>2, Buffers DEF Settled, Typed
  <2>2. Filled(bytes, p, 0, 0)
    BY <1>2, <1>3, FilledNone
  <2>3. Nothing'
    BY <1>1, <1>2, <1>5, <2>1, <2>2 DEF Nothing, Filled, File0
  <2>4. p + n < UsizeSize
    BY <1>3, <1>5
  <2> QED BY <1>1, <1>3, <1>4, <2>3, <2>4 DEF Stray
<1>6. CASE n # 0
  <2>1. p < p + n /\ (p + n >= UsizeSize \/ p + n < UsizeSize)
    BY <1>3, <1>6
  <2> QED BY <1>1, <1>2, <1>3, <1>4, <2>1 DEF Stray
<1> QED BY <1>5, <1>6

\* The next place of such a loop is before the end it compares with.
LEMMA StrayNext ==
    ASSUME NEW s \in Vas, NEW end \in Nat, end \notin Ends
    PROVE  EndVa(s, end) \in Nat /\ EndVa(s, end) < end
<1>1. PICK n, t, L : n = PageSize /\ t = Top /\ L = Len(PpnOf) /\ n \in Nat \ {0} /\ t \in Nat \ {0} /\ L \in Nat
  BY Buffers DEF Top
<1>2. PICK a, b, e : a = PageStart(floor(s) + 1) /\ b = VirtAddr(end) /\ e = EndVa(s, end)
  OBVIOUS
<1>3. b \in Nat /\ b < t
  BY <1>1, <1>2 DEF VirtAddr
<1>4. a \in Nat /\ a <= L * n
  <2>1. PICK q \in Nat : q = floor(s) /\ q < L
    BY <1>1, VasPage
  <2>2. PICK c \in Nat : L = (q + 1) + c
    <3>1. L - (q + 1) \in Nat /\ L = (q + 1) + (L - (q + 1))
      BY <1>1, <2>1
    <3> QED BY <3>1
  <2>3. L * n = (q + 1) * n + c * n /\ (q + 1) * n \in Nat /\ c * n \in Nat
    BY <1>1, <2>1, <2>2
  <2>4. a = (q + 1) * n
    BY <1>1, <1>2, <2>1 DEF PageStart
  <2> QED BY <2>3, <2>4
<1>5. e = IF a <= b THEN a ELSE b
  BY <1>2, <1>3, <1>4, MinMax DEF EndVa
<1>6. end > L * n \/ end >= t
  <2>1. L * n \in Nat /\ ~ (end \in 0..(L * n) /\ end < t)
    BY <1>1 DEF Ends
  <2> QED BY <1>1, <2>1
<1>7. L * n \in Nat
  BY <1>1
<1>8. e \in Nat /\ e < end
  BY <1>1, <1>3, <1>4, <1>5, <1>6, <1>7
<1> QED BY <1>2, <1>8

\* No step of such a call brings it to its end.
LEMMA StrayStep ==
    ASSUME Stray, IONext \/ UNCHANGED io_vars
    PROVE  Stray'
<1>1. /\ op \in {"read", "write", "bytes"} /\ ptr \in Nat /\ len \in Nat /\ start \in Nat
      /\ ptr + len \notin Ends /\ op # "start"
  BY DEF Stray
<1>2. op' = op /\ ptr' = ptr /\ len' = len
  BY <1>1 DEF IONext, Call, Step, translated_byte_buffer, read, write, translated_and_write_bytes, copy_data,
              translated_str, Panic, Return, io_vars
<1>3. \/ start' = start
      \/ /\ ~ BufferDone /\ start_va \in Vas /\ start' = EndVa(start_va, BufEnd) /\ done' = done
  BY <1>1 DEF IONext, Call, Step, translated_byte_buffer, read, write, translated_and_write_bytes, copy_data,
              translated_str, Panic, Return, io_vars, end_va
<1>4. BufEnd \in Nat /\ (ptr + len < UsizeSize => BufEnd = ptr + len)
  <2>1. PICK end, t : end = ptr + len /\ t = UsizeSize
    OBVIOUS
  <2>2. end \in Nat /\ t \in Nat \ {0}
    BY <1>1, <2>1, Buffers
  <2>3. end % t \in Nat /\ (end < t => end % t = end)
    BY <2>2
  <2> QED BY <2>1, <2>3 DEF BufEnd
<1>5. start' \in Nat
  <2>1. CASE start' = start
    BY <1>1, <2>1
  <2>2. CASE start_va \in Vas /\ start' = EndVa(start_va, BufEnd)
    <3>1. PICK s, end, e : s = start_va /\ end = BufEnd /\ e = EndVa(s, end)
      OBVIOUS
    <3>2. e \in Nat
      <4>1. CASE end \in Ends
        <5>1. PICK a, b : a = PageStart(floor(s) + 1) /\ b = VirtAddr(end)
          OBVIOUS
        <5>2. a \in Nat
          <6>1. floor(s) \in Nat /\ PageSize \in Nat
            BY <2>2, <3>1, VasPage, Buffers
          <6> QED BY <5>1, <6>1 DEF PageStart
        <5>3. b \in Nat
          BY <4>1, <5>1, EndNat
        <5>4. e = IF a <= b THEN a ELSE b
          BY <3>1, <5>1, <5>2, <5>3, MinMax DEF EndVa
        <5> QED BY <5>2, <5>3, <5>4
      <4>2. CASE end \notin Ends
        BY <1>4, <2>2, <3>1, <4>2, StrayNext
      <4> QED BY <4>1, <4>2
    <3> QED BY <2>2, <3>1, <3>2
  <2> QED BY <1>3, <2>1, <2>2
<1>6. CASE ptr + len >= UsizeSize
  BY <1>1, <1>2, <1>5, <1>6 DEF Stray
<1>7. CASE ptr + len < UsizeSize /\ start < ptr + len /\ ~ done
  <2>1. ~ BufferDone /\ BufEnd = ptr + len
    BY <1>1, <1>4, <1>7 DEF BufferDone
  <2>2. done' = done
    BY <1>1, <2>1 DEF IONext, Call, Step, translated_byte_buffer, read, write, translated_and_write_bytes,
                      copy_data, translated_str, Panic, Return, io_vars
  <2>3. start' < ptr + len
    <3>1. CASE start' = start
      BY <1>7, <3>1
    <3>2. CASE start_va \in Vas /\ start' = EndVa(start_va, BufEnd)
      <4>1. PICK s, end : s = start_va /\ end = ptr + len /\ end \in Nat
        BY <1>1
      <4>2. EndVa(s, end) < end
        BY <1>1, <3>2, <4>1, StrayNext
      <4> QED BY <2>1, <3>2, <4>1, <4>2
    <3> QED BY <1>3, <3>1, <3>2
  <2> QED BY <1>1, <1>2, <1>5, <1>7, <2>2, <2>3 DEF Stray
<1>8. CASE ptr + len < UsizeSize /\ Nothing
  <2>1. start = ptr /\ len = 0 /\ ptr + len = ptr /\ slices = <<>> /\ count = 0
    BY <1>1, <1>8 DEF Nothing
  <2>2. BufferDone /\ ~ (count < Len(slices))
    BY <1>1, <1>4, <1>8, <2>1 DEF BufferDone
  <2>3. /\ start' = start /\ total' = total /\ count' = count /\ slices' = slices /\ file' = file
        /\ offset' = offset /\ offset0' = offset0 /\ bytes' = bytes
    BY <1>1, <2>2 DEF IONext, Call, Step, translated_byte_buffer, read, write, translated_and_write_bytes,
                      copy_data, translated_str, Panic, Return, io_vars
  <2>4. Nothing'
    BY <1>2, <1>8, <2>3 DEF Nothing, Filled, File0
  <2> QED BY <1>1, <1>2, <1>5, <1>8, <2>4 DEF Stray
<1> QED BY <1>6, <1>7, <1>8 DEF Stray

\* A panic moves no byte.
LEMMA PanicStep ==
    ASSUME Settled, Panic
    PROVE  Settled'
<1>1. /\ op' = op /\ ptr' = ptr /\ len' = len /\ start' = start /\ slices' = slices /\ count' = count /\ bytes' = bytes
      /\ file' = file /\ offset' = offset /\ offset0' = offset0 /\ total' = total /\ result' = result /\ done' = done
  BY DEF Panic
<1> QED BY <1>1, SettledSame

\* How far each of the copy loops is, at every step of every call.
THEOREM IOInvariance == IOSpec => []IOInv
<1>1. IOInit => IOInv
  BY IOStart DEF IOInv
<1>2. ASSUME IOInv, [IONext]_(io_vars) PROVE IOInv'
  <2>1. CASE Settled /\ \E c \in Calls, p \in 0..(UsizeSize - 1), n \in 0..MaxLen : Call(c, p, n)
    <3>1. PICK c \in Calls, p \in 0..(UsizeSize - 1), n \in 0..MaxLen : Call(c, p, n)
      BY <2>1
    <3>2. CASE c # "str" => p + n \in Ends
      BY <2>1, <3>1, <3>2, CallStep DEF IOInv
    <3>3. CASE c # "str" /\ p + n \notin Ends
      BY <2>1, <3>1, <3>3, StrayCall DEF IOInv
    <3> QED BY <3>2, <3>3
  <2>2. CASE Settled /\ Step
    <3>1. Settled'
      BY <2>2, BufferStep, ReadStep, WriteStep, BytesStep, CopyStep, StrStep, ReturnStep, PanicStep DEF Step
    <3> QED BY <3>1 DEF IOInv
  <2>3. CASE Settled /\ UNCHANGED io_vars
    BY <2>3, IOStutter DEF IOInv
  <2>4. CASE Stray
    BY <1>2, <2>4, StrayStep DEF IOInv
  <2> QED BY <1>2, <2>1, <2>2, <2>3, <2>4 DEF IOInv, IONext
<1> QED BY <1>1, <1>2, PTL DEF IOSpec

-----------------------------------------------------------------------------
(* What a call has done when it returns.                                   *)

\* A buffer of n bytes, and everything around it, from what the loops left.
LEMMA FilledMeans ==
    ASSUME NEW n \in Nat, NEW c \in Nat, ptr \in Nat, Filled(bytes, ptr, n, c),
           NEW end \in Ends, ptr + n <= end
    PROVE  /\ \A k \in 0..(n - 1) : bytes[translate_va(ptr + k)] = c + k
           /\ Untouched(n)
<1>1. ASSUME NEW k \in 0..(n - 1) PROVE bytes[translate_va(ptr + k)] = c + k
  <2>1. end \in Nat
    BY EndNat
  <2>2. k \in Nat /\ ptr + k \in Nat /\ ptr + k < end
    BY <2>1
  <2>3. ptr + k \in Vas
    BY <2>2, BufferInside
  <2>4. PICK w : w = ptr + k
    OBVIOUS
  <2>5. bytes[translate_va(w)] = IF ptr <= w /\ w < ptr + n THEN c + (w - ptr) ELSE UserByte(w)
    BY <2>3, <2>4 DEF Filled
  <2>6. ptr <= w /\ w < ptr + n /\ w - ptr = k
    BY <2>2, <2>4
  <2> QED BY <2>4, <2>5, <2>6
<1>2. ASSUME NEW va \in Vas, va \notin ptr .. (ptr + n - 1) PROVE bytes[translate_va(va)] = UserByte(va)
  <2>1. va \in Nat
    BY VasPage
  <2>2. ~ (ptr <= va /\ va < ptr + n)
    BY <1>2, <2>1
  <2> QED BY <2>2 DEF Filled
<1> QED BY <1>1, <1>2 DEF Untouched

\* The slices of a buffer that has been gone through end with it.
LEMMA CutDone ==
    ASSUME NEW b, Cut(b, slices, ptr, ptr + len, start), BufferDone, slices \in Seq(Slices),
           ptr \in Nat, len \in Nat, start \in Nat, count = Len(slices), ptr + len \in Ends
    PROVE  b[count + 1] = ptr + len
<1>1. PICK N \in Nat : N = Len(slices)
  OBVIOUS
<1>2. b[N + 1] \in ptr..(ptr + len) /\ b[N + 1] = start
  <2>1. N + 1 \in 1..(N + 1) /\ b \in [1..(N + 1) -> ptr..(ptr + len)] /\ b[N + 1] = start
    BY <1>1 DEF Cut
  <2> QED BY <2>1
<1>3. start >= ptr + len
  BY EndAsIs
<1> QED BY <1>1, <1>2, <1>3

\* OSInode::read: as much as the buffer takes and the file has left.
LEMMA ReadDone ==
    ASSUME Settled, done, op = "read"
    PROVE  LET left == IF offset0 < FileSize THEN FileSize - offset0 ELSE 0
           IN  /\ total = Min({len, left})
               /\ offset = offset0 + total
               /\ \A k \in 0..(total - 1) : bytes[translate_va(ptr + k)] = FileByte(offset0 + k)
               /\ Untouched(total)
<1>1. /\ ptr \in Nat /\ len \in Nat /\ start \in Nat /\ count \in Nat /\ total \in Nat /\ slices \in Seq(Slices)
      /\ offset0 \in Nat /\ offset0 <= FileSize /\ FileSize \in Nat /\ offset = offset0 + total /\ ptr + len \in Ends
  BY Buffers DEF Settled, Typed
<1>2. Filled(bytes, ptr, total, 50 + offset0) /\ BufferDone /\ count = Len(slices)
  BY DEF Settled, Reading
<1>3. PICK b \in [1..(Len(slices) + 1) -> ptr..(ptr + len)] :
          /\ Cut(b, slices, ptr, ptr + len, start) /\ count <= Len(slices)
          /\ total <= FileSize - offset0 /\ total <= b[count + 1] - ptr
          /\ total = FileSize - offset0 \/ total = b[count + 1] - ptr
  BY DEF Settled, Reading
<1>4. b[count + 1] = ptr + len
  BY <1>1, <1>2, <1>3, CutDone
<1>5. PICK left \in Nat : left = (IF offset0 < FileSize THEN FileSize - offset0 ELSE 0) /\ left = FileSize - offset0
  <2>1. FileSize - offset0 \in Nat /\ FileSize - offset0 = IF offset0 < FileSize THEN FileSize - offset0 ELSE 0
    BY <1>1
  <2> QED BY <2>1
<1>6. total = IF len <= left THEN len ELSE left
  BY <1>1, <1>3, <1>4, <1>5
<1>7. total = Min({len, left})
  <2>1. Min({len, left}) = IF len <= left THEN len ELSE left
    BY <1>1, <1>5, MinMax
  <2> QED BY <1>6, <2>1
<1>8. /\ \A k \in 0..(total - 1) : bytes[translate_va(ptr + k)] = (50 + offset0) + k
      /\ Untouched(total)
  <2>1. total \in Nat /\ 50 + offset0 \in Nat /\ ptr + total <= ptr + len
    BY <1>1, <1>5, <1>6
  <2> QED BY <1>1, <1>2, <2>1, FilledMeans
<1>9. \A k \in 0..(total - 1) : bytes[translate_va(ptr + k)] = FileByte(offset0 + k)
  <2>1. \A k \in 0..(total - 1) : FileByte(offset0 + k) = (50 + offset0) + k
    BY <1>1 DEF FileByte
  <2> QED BY <1>8, <2>1
<1> QED BY <1>1, <1>5, <1>7, <1>8, <1>9

\* OSInode::write: the whole buffer is in the file.
LEMMA WriteDone ==
    ASSUME Settled, done, op = "write"
    PROVE  /\ total = len
           /\ offset = offset0 + len
           /\ Len(file) = Max({FileSize, offset})
           /\ \A i \in 0..(Len(file) - 1) :
                 file[i + 1] = IF i \in offset0 .. (offset - 1)
                               THEN UserByte(ptr + i - offset0) ELSE FileByte(i)
           /\ Untouched(0)
<1>1. /\ ptr \in Nat /\ len \in Nat /\ start \in Nat /\ count \in Nat /\ total \in Nat /\ slices \in Seq(Slices)
      /\ offset0 \in Nat /\ FileSize \in Nat /\ offset = offset0 + total /\ ptr + len \in Ends
  BY Buffers DEF Settled, Typed
<1>2. Filled(bytes, ptr, 0, 0) /\ BufferDone /\ count = Len(slices) /\ Written(file, ptr, offset0, offset)
  BY DEF Settled, Writing
<1>3. PICK b \in [1..(Len(slices) + 1) -> ptr..(ptr + len)] :
          Cut(b, slices, ptr, ptr + len, start) /\ count <= Len(slices) /\ total = b[count + 1] - ptr
  BY DEF Settled, Writing
<1>4. b[count + 1] = ptr + len
  BY <1>1, <1>2, <1>3, CutDone
<1>5. total = len /\ offset = offset0 + len /\ offset \in Nat
  BY <1>1, <1>3, <1>4
<1>6. Len(file) = Max({FileSize, offset})
  <2>1. Max({FileSize, offset}) = IF FileSize <= offset THEN offset ELSE FileSize
    BY <1>1, <1>5, MinMax
  <2>2. Len(file) = IF FileSize < offset THEN offset ELSE FileSize
    BY <1>2 DEF Written
  <2>3. (IF FileSize <= offset THEN offset ELSE FileSize) = (IF FileSize < offset THEN offset ELSE FileSize)
    BY <1>1, <1>5
  <2> QED BY <2>1, <2>2, <2>3
<1>7. ASSUME NEW i \in 0..(Len(file) - 1)
      PROVE  file[i + 1] = IF i \in offset0 .. (offset - 1)
                           THEN UserByte(ptr + i - offset0) ELSE FileByte(i)
  <2>1. file[i + 1] = IF offset0 <= i /\ i < offset THEN UserByte(ptr + (i - offset0)) ELSE FileByte(i)
    BY <1>2 DEF Written
  <2>2. i \in offset0 .. (offset - 1) <=> offset0 <= i /\ i < offset
    BY <1>1, <1>5
  <2>3. ptr + i - offset0 = ptr + (i - offset0)
    BY <1>1
  <2> QED BY <2>1, <2>2, <2>3
<1>8. Untouched(0)
  <2>1. 0 \in Nat /\ ptr + 0 <= ptr + len
    BY <1>1
  <2> QED BY <1>1, <1>2, <2>1, FilledMeans
<1> QED BY <1>5, <1>6, <1>7, <1>8

\* translated_and_write_bytes and copy_data: the data is in the buffer.
LEMMA SendDone ==
    ASSUME Settled, done, op \in {"bytes", "elf"}
    PROVE  /\ \A k \in 0..(len - 1) : bytes[translate_va(ptr + k)] = DataByte(k)
           /\ Untouched(len)
<1>1. ptr \in Nat /\ len \in Nat /\ start \in Nat /\ count \in Nat /\ ptr + len \in Ends /\ ptr + len \in Nat
  BY DEF Settled, Typed
<1>2. Filled(bytes, ptr, len, 200)
  <2>1. CASE op = "bytes"
    <3>1. ptr <= start /\ start <= ptr + len /\ count = start - ptr /\ start >= ptr + len /\ Filled(bytes, ptr, count, 200)
      BY <1>1, <2>1, EndAsIs DEF Settled, Sending
    <3>2. count = len
      BY <1>1, <3>1
    <3> QED BY <3>1, <3>2
  <2>2. CASE op = "elf"
    <3>1. count >= len /\ Filled(bytes, ptr, IF count < len THEN count ELSE len, 200)
      BY <2>2 DEF Settled, Loading
    <3>2. (IF count < len THEN count ELSE len) = len
      BY <1>1, <3>1
    <3> QED BY <3>1, <3>2
  <2> QED BY <2>1, <2>2
<1>3. /\ \A k \in 0..(len - 1) : bytes[translate_va(ptr + k)] = 200 + k
      /\ Untouched(len)
  <2>1. PICK c \in Nat : c = 200
    OBVIOUS
  <2>2. ptr + len <= ptr + len
    BY <1>1
  <2>3. /\ \A k \in 0..(len - 1) : bytes[translate_va(ptr + k)] = c + k
        /\ Untouched(len)
    BY <1>1, <1>2, <2>1, <2>2, FilledMeans
  <2> QED BY <2>1, <2>3
<1> QED BY <1>3 DEF DataByte

\* translated_str: the bytes before the NUL.
LEMMA StrDone ==
    ASSUME Settled, done, op = "str"
    PROVE  result = [i \in 1..len |-> UserByte(VirtAddr(ptr + i - 1))]
<1>1. /\ ptr \in Nat /\ len \in Nat /\ start = ptr + len
      /\ result = [i \in 1..(start - ptr) |-> UserByte(VirtAddr(ptr + i - 1))]
  BY DEF Settled, Typed, Parsing
<1>2. start - ptr = len
  BY <1>1
<1> QED BY <1>1, <1>2

\* An empty buffer: nothing is copied.
LEMMA NothingDone ==
    ASSUME op \in {"read", "write", "bytes"}, ptr \in Nat, Nothing
    PROVE  CopiesExactly
<1>1. /\ len = 0 /\ total = 0 /\ file = File0 /\ offset0 \in Nat /\ offset0 <= FileSize /\ offset = offset0
      /\ FileSize \in Nat /\ Filled(bytes, ptr, 0, 0)
  BY Buffers DEF Nothing
<1>2. Untouched(0)
  <2>1. ASSUME NEW va \in Vas PROVE ~ (ptr <= va /\ va < ptr + 0)
    BY VasPage
  <2> QED BY <1>1, <2>1 DEF Untouched, Filled
<1>3. CASE op = "read"
  <2>1. PICK left \in Nat : left = (IF offset0 < FileSize THEN FileSize - offset0 ELSE 0)
    <3>1. (IF offset0 < FileSize THEN FileSize - offset0 ELSE 0) \in Nat
      BY <1>1
    <3> QED BY <3>1
  <2>2. Min({len, left}) = 0
    <3>1. Min({0, left}) = IF 0 <= left THEN 0 ELSE left
      BY <2>1, MinMax
    <3> QED BY <1>1, <3>1
  <2>3. offset = offset0 + total /\ 0..(total - 1) = {}
    BY <1>1
  <2> QED BY <1>1, <1>2, <1>3, <2>1, <2>2, <2>3 DEF CopiesExactly
<1>4. CASE op = "write"
  <2>1. Len(file) = FileSize /\ \A i \in 0..(FileSize - 1) : file[i + 1] = FileByte(i)
    <3>1. \A i \in 0..(FileSize - 1) : i + 1 \in 1..FileSize /\ (i + 1) - 1 = i
      BY <1>1
    <3> QED BY <1>1, <3>1 DEF File0
  <2>2. Max({FileSize, offset}) = FileSize
    <3>1. Max({FileSize, offset}) = IF FileSize <= offset THEN offset ELSE FileSize
      BY <1>1, MinMax
    <3> QED BY <1>1, <3>1
  <2>3. total = len /\ offset = offset0 + len /\ \A i \in 0..(FileSize - 1) : i \notin offset0..(offset - 1)
    BY <1>1
  <2> QED BY <1>2, <1>4, <2>1, <2>2, <2>3 DEF CopiesExactly
<1>5. CASE op = "bytes"
  <2>1. 0..(len - 1) = {}
    BY <1>1
  <2> QED BY <1>1, <1>2, <1>5, <2>1 DEF CopiesExactly
<1> QED BY <1>3, <1>4, <1>5

\* Of every call that has returned, with whatever buffer: the bytes are where
\* they belong and nothing else has moved (OSInode::read and write,
\* translated_and_write_bytes, copy_data, translated_str), for every page
\* size, address space, page table, buffer and file.  A buffer that is not on
\* the user's pages below the top is never half served: the call does not
\* return.
THEOREM CallsCopyExactly == IOSpec => []CopiesExactly
<1>1. ASSUME Settled PROVE CopiesExactly
  <2>1. SUFFICES ASSUME done PROVE CopiesExactly
    BY DEF CopiesExactly
  <2>2. op = "read" \/ op = "write" \/ op \in {"bytes", "elf"} \/ op = "str"
    BY <1>1, <2>1 DEF Settled, Typed, Starting, Calls
  <2>3. CASE op = "read"
    BY <1>1, <2>1, <2>3, ReadDone DEF CopiesExactly
  <2>4. CASE op = "write"
    BY <1>1, <2>1, <2>4, WriteDone DEF CopiesExactly
  <2>5. CASE op \in {"bytes", "elf"}
    BY <1>1, <2>1, <2>5, SendDone DEF CopiesExactly
  <2>6. CASE op = "str"
    BY <1>1, <2>1, <2>6, StrDone DEF CopiesExactly
  <2> QED BY <2>2, <2>3, <2>4, <2>5, <2>6
<1>2. ASSUME Stray PROVE CopiesExactly
  <2>1. CASE Nothing
    BY <1>2, <2>1, NothingDone DEF Stray
  <2>2. CASE ~ done
    BY <2>2 DEF CopiesExactly
  <2>3. CASE ptr + len >= UsizeSize
    <3>1. ~ (ptr + len < UsizeSize)
      BY <1>2, <2>3, Buffers DEF Stray
    <3> QED BY <3>1 DEF CopiesExactly
  <2> QED BY <1>2, <2>1, <2>2, <2>3 DEF Stray
<1> QED BY <1>1, <1>2, IOInvariance, PTL DEF IOInv

-----------------------------------------------------------------------------
(* The slices that translated_byte_buffer returns.                         *)

\* f[i] is the first i of the sequences s, one after the other.
Joined(s, n, f) == f = [i \in 1..n |-> IF i = 1 THEN s[i] ELSE f[i-1] \o s[i]]

Flattened(s, x) == FlattenSeq(s) = x

\* There is one such f.
LEMMA JoinedOnce ==
    ASSUME NEW s, NEW n \in Nat, NEW f, NEW g, Joined(s, n, f), Joined(s, n, g)
    PROVE  f = g
<1>1. /\ f = [i \in 1..n |-> f[i]] /\ g = [i \in 1..n |-> g[i]]
      /\ \A i \in 1..n : f[i] = IF i = 1 THEN s[i] ELSE f[i-1] \o s[i]
      /\ \A i \in 1..n : g[i] = IF i = 1 THEN s[i] ELSE g[i-1] \o s[i]
  BY DEF Joined
<1>2. PICK D : D = {i \in 1..n : f[i] # g[i]}
  OBVIOUS
<1>3. ASSUME D # {} PROVE FALSE
  <2>1. D \subseteq Nat
    BY <1>2
  <2>2. PICK k \in D : \A j \in D : ~ (<<j, k>> \in OpToRel(<, Nat))
    BY <1>3, <2>1, NatLessThanWellFounded, WFMin
  <2>3. k \in 1..n /\ f[k] # g[k] /\ \A j \in D : ~ (j < k)
    BY <1>2, <2>1, <2>2 DEF OpToRel
  <2>4. k # 1
    BY <1>1, <2>3
  <2>5. k - 1 \in 1..n /\ k - 1 < k
    BY <2>3, <2>4
  <2>6. f[k-1] = g[k-1]
    BY <1>2, <2>3, <2>5
  <2> QED BY <1>1, <2>3, <2>4, <2>6
<1>4. \A i \in 1..n : f[i] = g[i]
  BY <1>2, <1>3
<1>5. [i \in 1..n |-> f[i]] = [i \in 1..n |-> g[i]]
  BY <1>4
<1> QED BY <1>1, <1>5

\* What FlattenSeq computes.
LEMMA FlattenIs ==
    ASSUME NEW s, NEW n \in Nat, n # 0, Len(s) = n, NEW g, Joined(s, n, g)
    PROVE  Flattened(s, g[n])
<1>1. PICK h : h = CHOOSE f : f = [i \in 1..n |-> IF i = 1 THEN s[i] ELSE f[i-1] \o s[i]]
  OBVIOUS
<1>2. \E f : f = [i \in 1..n |-> IF i = 1 THEN s[i] ELSE f[i-1] \o s[i]]
  BY DEF Joined
<1>3. h = [i \in 1..n |-> IF i = 1 THEN s[i] ELSE h[i-1] \o s[i]]
  BY <1>1, <1>2
<1>4. Joined(s, n, h)
  BY <1>3 DEF Joined
<1>5. h = g
  BY <1>4, JoinedOnce
<1>6. FlattenSeq(s) = h[n]
  BY <1>1 DEF FlattenSeq
<1> QED BY <1>5, <1>6 DEF Flattened

\* The physical addresses of n bytes from p on.
Image(p, n) == [i \in 1..n |-> translate_va(p + i - 1)]

IsImage(x, p, n) == x = Image(p, n)

\* They are a sequence.
LEMMA ImageSeq ==
    ASSUME NEW p \in Nat, NEW n \in Nat, NEW end \in Ends, p + n <= end
    PROVE  Image(p, n) \in Seq(Nat) /\ Len(Image(p, n)) = n
<1>1. end \in Nat
  BY EndNat
<1>2. ASSUME NEW i \in 1..n PROVE translate_va(p + i - 1) \in Nat
  <2>1. p + i - 1 \in Nat /\ p + i - 1 < end
    BY <1>1
  <2>2. p + i - 1 \in Vas
    BY <2>1, BufferInside
  <2> QED BY <2>2, VasPage
<1>3. PICK x : x = Image(p, n)
  OBVIOUS
<1>4. x \in [1..n -> Nat]
  BY <1>2, <1>3 DEF Image
<1>5. x \in Seq(Nat) /\ Len(x) = n
  BY <1>4
<1> QED BY <1>3, <1>5

\* Two sequences, one after the other.
LEMMA ConcatAt ==
    \A x \in Seq(Nat), y \in Seq(Nat) :
       /\ x \o y \in Seq(Nat) /\ Len(x \o y) = Len(x) + Len(y)
       /\ \A i \in 1..Len(x) : (x \o y)[i] = x[i]
       /\ \A i \in 1..Len(y) : (x \o y)[Len(x) + i] = y[i]
OBVIOUS

\* Two buffers, one after the other, are one.
LEMMA ImageJoin ==
    ASSUME NEW p \in Nat, NEW m \in Nat, NEW n \in Nat, NEW q, q = p + m, NEW end \in Ends, q + n <= end
    PROVE  IsImage(Image(p, m) \o Image(q, n), p, m + n)
<1>1. end \in Nat /\ q \in Nat /\ p + m <= end
  BY EndNat
<1>2. PICK x, y : x = Image(p, m) /\ y = Image(q, n)
  OBVIOUS
<1>3. x \in Seq(Nat) /\ Len(x) = m
  BY <1>1, <1>2, ImageSeq
<1>4. y \in Seq(Nat) /\ Len(y) = n
  BY <1>1, <1>2, ImageSeq
<1>5. PICK z : z = x \o y
  OBVIOUS
<1>6. /\ z \in Seq(Nat) /\ Len(z) = m + n
      /\ \A i \in 1..m : z[i] = x[i]
      /\ \A i \in 1..n : z[m + i] = y[i]
  <2>1. /\ z \in Seq(Nat) /\ Len(z) = Len(x) + Len(y)
        /\ \A i \in 1..Len(x) : z[i] = x[i]
        /\ \A i \in 1..Len(y) : z[Len(x) + i] = y[i]
    <3>1. x \in Seq(Nat) /\ y \in Seq(Nat) /\ z = x \o y
      BY <1>3, <1>4, <1>5
    <3> QED BY <3>1, ConcatAt
  <2> QED BY <1>3, <1>4, <2>1
<1>7. ASSUME NEW i \in 1..(m + n) PROVE z[i] = translate_va(p + i - 1)
  <2>1. CASE i <= m
    <3>1. i \in 1..m
      BY <2>1
    <3>2. z[i] = x[i]
      BY <1>6, <3>1
    <3> QED BY <1>2, <3>1, <3>2 DEF Image
  <2>2. CASE i > m
    <3>1. i - m \in 1..n /\ m + (i - m) = i /\ q + (i - m) - 1 = p + i - 1
      BY <2>2
    <3>2. z[i] = y[i - m]
      BY <1>6, <3>1
    <3>3. y[i - m] = translate_va(q + (i - m) - 1)
      BY <1>2, <3>1 DEF Image
    <3> QED BY <3>1, <3>2, <3>3
  <2> QED BY <2>1, <2>2
<1>8. z = [i \in 1..(m + n) |-> z[i]]
  BY <1>6
<1>9. z = Image(p, m + n)
  BY <1>7, <1>8 DEF Image
<1> QED BY <1>2, <1>5, <1>9 DEF IsImage

\* The addresses of the bytes of each slice.
Bytes(sl) == [k \in DOMAIN sl |-> [i \in 1..SliceLen(sl[k]) |-> SlicePa(sl[k], i - 1)]]

\* A slice is the image of its piece of the buffer.
LEMMA SliceImage ==
    ASSUME NEW b, NEW sl \in Seq(Slices), NEW p \in Nat, NEW end \in Ends, NEW st, Cut(b, sl, p, end, st),
           NEW k \in 1..Len(sl)
    PROVE  /\ b[k] \in Nat /\ b[k + 1] \in Nat /\ p <= b[k] /\ b[k] < b[k + 1] /\ b[k + 1] <= end
           /\ IsImage(Bytes(sl)[k], b[k], b[k + 1] - b[k])
<1>1. PICK j, s, e : j \in Nat /\ j = k - 1 /\ s = b[j + 1] /\ e = b[j + 2]
  <2>1. k - 1 \in Nat
    OBVIOUS
  <2> QED BY <2>1
<1>2. j < Len(sl) /\ s = b[k] /\ e = b[k + 1] /\ j + 1 = k
  <2>1. j < Len(sl) /\ j + 1 = k /\ j + 2 = k + 1
    BY <1>1
  <2> QED BY <1>1, <2>1
<1>3. NextAt(sl, j, p, s, e, end)
  BY <1>1, <1>2, CutPiece
<1>4. s \in Nat /\ p <= s /\ s < end /\ sl[k] = Slice(s, e) /\ Piece(s, e, end)
  BY <1>2, <1>3 DEF NextAt
<1>5. PICK x, n : x = sl[k] /\ n = e - s
  OBVIOUS
<1>6. e \in Nat /\ s < e /\ e <= end /\ SliceLen(x) = n /\ n \in Nat
  <2>1. e \in Nat /\ s < e /\ e <= end /\ SliceLen(x) = n
    BY <1>4, <1>5 DEF Piece
  <2> QED BY <1>4, <1>5, <2>1
<1>7. ASSUME NEW i \in 1..n PROVE SlicePa(x, i - 1) = translate_va(s + i - 1)
  <2>1. i - 1 \in Nat /\ i - 1 < e - s /\ s + (i - 1) = s + i - 1
    BY <1>4, <1>5, <1>6
  <2>2. s \in Vas
    BY <1>4, PieceInside
  <2>3. SlicePa(x, i - 1) = translate_va(s + (i - 1))
    BY <1>4, <1>5, <2>1, <2>2, PieceBytes
  <2> QED BY <2>1, <2>3
<1>8. Bytes(sl)[k] = [i \in 1..n |-> SlicePa(x, i - 1)]
  <2>1. k \in DOMAIN sl
    OBVIOUS
  <2>2. Bytes(sl)[k] = [i \in 1..SliceLen(sl[k]) |-> SlicePa(sl[k], i - 1)]
    BY <2>1 DEF Bytes
  <2> QED BY <1>5, <1>6, <2>2
<1>9. Bytes(sl)[k] = Image(s, n)
  BY <1>7, <1>8 DEF Image
<1> QED BY <1>2, <1>4, <1>5, <1>6, <1>9 DEF IsImage

\* All of them together are the image of the buffer up to st.
LEMMA CutImage ==
    ASSUME NEW b, NEW sl \in Seq(Slices), NEW p \in Nat, NEW end \in Ends, NEW st \in Nat,
           Cut(b, sl, p, end, st)
    PROVE  st <= end /\ Flattened(Bytes(sl), Image(p, st - p))
<1>1. PICK N \in Nat : N = Len(sl)
  OBVIOUS
<1>2. end \in Nat /\ b[1] = p /\ b[N + 1] = st /\ \A k \in 1..(N + 1) : b[k] \in p..end
  BY <1>1, EndNat DEF Cut
<1>3. st <= end /\ p <= st
  <2>1. N + 1 \in 1..(N + 1)
    BY <1>1
  <2> QED BY <1>2, <2>1
<1>4. PICK s : s = Bytes(sl)
  OBVIOUS
<1>5. s = [k \in 1..N |-> s[k]] /\ Len(s) = N
  BY <1>1, <1>4 DEF Bytes
<1>6. CASE N = 0
  <2>1. st - p = 0
    BY <1>2, <1>6
  <2>2. Image(p, 0) = s
    BY <1>5, <1>6 DEF Image
  <2>3. FlattenSeq(s) = s
    BY <1>5, <1>6 DEF FlattenSeq
  <2> QED BY <1>3, <1>4, <2>1, <2>2, <2>3 DEF Flattened
<1>7. CASE N # 0
  <2>1. PICK g : g = [k \in 1..N |-> Image(p, b[k + 1] - p)]
    OBVIOUS
  <2>2. ASSUME NEW k \in 1..N PROVE g[k] = IF k = 1 THEN s[k] ELSE g[k-1] \o s[k]
    <3>1. /\ b[k] \in Nat /\ b[k + 1] \in Nat /\ p <= b[k] /\ b[k] < b[k + 1] /\ b[k + 1] <= end
          /\ IsImage(Bytes(sl)[k], b[k], b[k + 1] - b[k])
      BY <1>1, SliceImage
    <3>2. s[k] = Image(b[k], b[k + 1] - b[k])
      BY <1>4, <3>1 DEF IsImage
    <3>3. g[k] = Image(p, b[k + 1] - p)
      BY <2>1
    <3>4. CASE k = 1
      BY <1>2, <3>2, <3>3, <3>4
    <3>5. CASE k # 1
      <4>1. k - 1 \in 1..N /\ (k - 1) + 1 = k
        BY <3>5
      <4>2. g[k-1] = Image(p, b[k] - p)
        BY <2>1, <4>1
      <4>3. PICK m, n, q : m \in Nat /\ n \in Nat /\ m = b[k] - p /\ n = b[k + 1] - b[k] /\ q = b[k]
        <5>1. b[k] - p \in Nat /\ b[k + 1] - b[k] \in Nat
          BY <3>1
        <5> QED BY <5>1
      <4>4. q = p + m /\ q + n <= end /\ m + n = b[k + 1] - p
        <5>1. PICK c, d : c = b[k] /\ d = b[k + 1]
          OBVIOUS
        <5>2. c \in Nat /\ d \in Nat /\ p <= c /\ c < d /\ d <= end /\ m = c - p /\ n = d - c /\ q = c
          BY <3>1, <4>3, <5>1
        <5>3. c = p + m /\ c + n = d /\ m + n = d - p
          BY <5>2
        <5> QED BY <5>1, <5>2, <5>3
      <4>5. IsImage(Image(p, m) \o Image(q, n), p, m + n)
        BY <4>3, <4>4, ImageJoin
      <4> QED BY <3>2, <3>3, <3>5, <4>2, <4>3, <4>4, <4>5 DEF IsImage
    <3> QED BY <3>4, <3>5
  <2>3. Joined(s, N, g)
    <3>1. g = [k \in 1..N |-> g[k]]
      BY <2>1
    <3> QED BY <2>2, <3>1 DEF Joined
  <2>4. Flattened(s, g[N])
    BY <1>5, <1>7, <2>3, FlattenIs
  <2>5. g[N] = Image(p, st - p)
    BY <1>2, <1>7, <2>1
  <2> QED BY <1>3, <1>4, <2>4, <2>5
<1> QED BY <1>6, <1>7

\* At every step of translated_byte_buffer the slices found so far are the
\* physical image of the user's buffer, byte for byte and in order, and never
\* a byte past its end, for a buffer on its pages below the top.
THEOREM BuffersAreExact == IOSpec => []BufferExact
<1>1. ASSUME Settled PROVE BufferExact
  <2>1. SUFFICES ASSUME op \in {"read", "write"} PROVE BufferExact
    BY DEF BufferExact
  <2>2. PICK b : Cut(b, slices, ptr, ptr + len, start)
    BY <1>1, <2>1 DEF Settled, Reading, Writing
  <2>3. slices \in Seq(Slices) /\ ptr \in Nat /\ ptr + len \in Ends /\ start \in Nat
    BY <1>1, <2>1 DEF Settled, Typed
  <2>4. start <= ptr + len /\ Flattened(Bytes(slices), Image(ptr, start - ptr))
    BY <2>2, <2>3, CutImage
  <2> QED BY <2>4 DEF BufferExact, Flattened, Bytes, Image
<1>2. Stray => BufferExact
  BY DEF Stray, BufferExact
<1> QED BY <1>1, <1>2, IOInvariance, PTL DEF IOInv
=============================================================================
