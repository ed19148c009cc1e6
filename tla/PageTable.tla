------------------------------ MODULE PageTable ------------------------------
(***************************************************************************)
(* The SV39 page tables (mm/page_table.rs) as words in frames: a root      *)
(* frame, second and third level frames created on the way down, and leaf  *)
(* entries.  Data pages come from the same allocator and hold what the     *)
(* user program writes, so a frame that becomes part of a table later may  *)
(* have been full of user words before: a frame that is given back holds   *)
(* Junk, a word that looks like a valid entry.                             *)
(*                                                                         *)
(* Entries are numbers: the frame number shifted left by ten, or'ed with   *)
(* the flags.  frame_alloc takes the lowest free frame (see FrameAllocator *)
(* for the real order); running out of frames is a panic treated there.    *)
(***************************************************************************)
EXTENDS Naturals, FiniteSets

CONSTANTS Frames,    \* frame numbers
          Tables,    \* address spaces that may exist at the same time
          Fan,       \* entries of a table frame: 512
          PpnSpan,   \* 2^44: frame numbers a token or an entry can name
          MapVpns,   \* pages the address spaces map
          MapFlags,  \* flag bytes of those mappings, without V
          Junk,      \* a word as user code may leave it behind
          None

ASSUME Widths == /\ Frames \subseteq 0 .. (PpnSpan - 1)
                 /\ IsFiniteSet(Frames)
                 /\ PpnSpan \in Nat
                 /\ Fan \in Nat \ {0}
                 /\ MapVpns \subseteq 0 .. (Fan * Fan * Fan - 1)
                 /\ MapFlags \subseteq {2 * k : k \in 0..127}
                 /\ Junk \in Nat
                 /\ None \notin Nat /\ None \notin [frame : Nat, slot : Nat]

VARIABLES root,    \* root_ppn of each table, None if there is no such table
          frames,  \* frames: trackers of the table's own frames
          data,    \* the pages mapped through areas, with their frames
          zombie,  \* tables whose areas are cleared: no trackers, old entries
          mem,     \* the words of every frame
          free

vars == <<root, frames, data, zombie, mem, free>>

Slots == 0 .. (Fan - 1)

TypeOK == /\ root \in [Tables -> Frames \cup {None}]
          /\ frames \in [Tables -> SUBSET Frames]
          /\ data \in [Tables -> UNION {[D -> Frames] : D \in SUBSET MapVpns}]
          /\ zombie \subseteq Tables
          /\ mem \in [Frames -> [Slots -> Nat]]
          /\ free \subseteq Frames

-----------------------------------------------------------------------------
(* PageTableEntry.                                                         *)

V == 1

PteNew(ppn, flags) == ppn * 1024 + flags
ppn(pte) == (pte \div 1024) % PpnSpan
flags(pte) == pte % 256
is_valid(pte) == flags(pte) % 2 = 1

\* satp: mode 8 in the topmost bits, the root below; from_token masks it back.
token(t) == 8 * PpnSpan * 65536 + root[t]
from_token(satp) == satp % PpnSpan

-----------------------------------------------------------------------------
(* VirtPageNum::indexes and the walk.                                      *)

\* Mutant: the second level is indexed with the bits of the first.
indexes_twice(vpn) == <<(vpn \div (Fan * Fan)) % Fan, (vpn \div (Fan * Fan)) % Fan, vpn % Fan>>

indexes(vpn) == <<(vpn \div (Fan * Fan)) % Fan, (vpn \div Fan) % Fan, vpn % Fan>>

\* find_pte: the place of the leaf entry, None when a level is missing.
find_pte(r, vpn) ==
    LET ix == indexes(vpn)
        e1 == mem[r][ix[1]]
        e2 == mem[ppn(e1)][ix[2]]
    IN  IF ~ is_valid(e1) THEN None
        ELSE IF ~ is_valid(e2) THEN None
        ELSE [frame |-> ppn(e2), slot |-> ix[3]]

\* translate and find_vpn, from a token as the kernel calls them.
translate(satp, vpn) ==
    LET p == find_pte(from_token(satp), vpn)
    IN  IF p = None THEN None ELSE mem[p.frame][p.slot]

find_vpn(satp, vpn) ==
    LET e == translate(satp, vpn) IN IF e = None THEN FALSE ELSE is_valid(e)

-----------------------------------------------------------------------------
(* frame_alloc, and frame_alloc for the levels find_pte_create adds.       *)

Zero == [s \in Slots |-> 0]
JunkPage == [s \in Slots |-> Junk]
Junked(m, fs) == [f \in Frames |-> IF f \in fs THEN JunkPage ELSE m[f]]

\* FrameTracker::new
Cleared(f) == Zero

\* The next three frames that frame_alloc returns.  Which free frame comes
\* next (FrameAllocator) does not matter to a table; here it is the lowest.
Lowest(S) == CHOOSE f \in S : \A g \in S : f <= g
Fresh1 == Lowest(free)
Fresh2 == Lowest(free \ {Fresh1})
Fresh3 == Lowest(free \ {Fresh1, Fresh2})

\* Number of missing levels above the leaf.
Missing(r, vpn) ==
    LET e1 == mem[r][indexes(vpn)[1]]
    IN  IF ~ is_valid(e1) THEN 2
        ELSE IF ~ is_valid(mem[ppn(e1)][indexes(vpn)[2]]) THEN 1 ELSE 0

\* find_pte_create: the frames of the two levels above the page, and those
\* of them it creates.  The data frame was taken first.
Levels(r, vpn) ==
    LET n == Missing(r, vpn)
        mid == ppn(mem[r][indexes(vpn)[1]])
    IN  IF n = 2 THEN [mid |-> Fresh2, leaf |-> Fresh3, created |-> {Fresh2, Fresh3}]
        ELSE IF n = 1 THEN [mid |-> mid, leaf |-> Fresh2, created |-> {Fresh2}]
        ELSE [mid |-> mid, leaf |-> ppn(mem[mid][indexes(vpn)[2]]), created |-> {}]

LevelPte(f) == PteNew(f, V)

-----------------------------------------------------------------------------
\* The frames whose trackers the areas of t hold.
DataFrames(t) == IF t \in zombie THEN {} ELSE {data[t][v] : v \in DOMAIN data[t]}

NoPages == [v \in {} |-> None]

Init == /\ root = [t \in Tables |-> None]
        /\ frames = [t \in Tables |-> {}]
        /\ data = [t \in Tables |-> NoPages]
        /\ zombie = {}
        /\ mem = [f \in Frames |-> JunkPage]
        /\ free = Frames

\* PageTable::new
new_table(t) ==
    /\ root[t] = None
    /\ free # {}
    /\ root' = [root EXCEPT ![t] = Fresh1]
    /\ frames' = [frames EXCEPT ![t] = {Fresh1}]
    /\ mem' = [mem EXCEPT ![Fresh1] = Cleared(Fresh1)]
    /\ free' = free \ {Fresh1}
    /\ UNCHANGED <<data, zombie>>

Store(m, f, s, word) == [m EXCEPT ![f][s] = word]

\* map_one: a data frame, then PageTable::map.
map(t, vpn, fl) ==
    LET ix == indexes(vpn)
        d == Fresh1
        n == Missing(root[t], vpn)
        lv == Levels(root[t], vpn)
        m0 == [f \in Frames |-> IF f \in {d} \cup lv.created THEN Cleared(f) ELSE mem[f]]
        m1 == IF n = 2 THEN Store(m0, root[t], ix[1], LevelPte(lv.mid)) ELSE m0
        m2 == IF n > 0 THEN Store(m1, lv.mid, ix[2], LevelPte(lv.leaf)) ELSE m1
    IN  /\ root[t] # None /\ t \notin zombie
        /\ ~ find_vpn(token(t), vpn)
        /\ Cardinality(free) > n
        /\ mem' = Store(m2, lv.leaf, ix[3], PteNew(d, fl + V))
        /\ frames' = [frames EXCEPT ![t] = @ \cup lv.created]
        /\ data' = [data EXCEPT ![t] = [v \in DOMAIN @ \cup {vpn} |->
                                          IF v = vpn THEN d ELSE @[v]]]
        /\ free' = free \ ({d} \cup lv.created)
        /\ UNCHANGED <<root, zombie>>

\* Mutant: the levels above the page are given back with it.
unmap_levels(t, vpn) ==
    /\ root[t] # None /\ t \notin zombie
    /\ find_vpn(token(t), vpn)
    /\ LET p == find_pte(root[t], vpn)
       IN  /\ mem' = Junked(Store(mem, p.frame, p.slot, 0), {data[t][vpn]})
           /\ frames' = [frames EXCEPT ![t] = @ \ {p.frame}]
           /\ free' = free \cup {data[t][vpn], p.frame}
    /\ data' = [data EXCEPT ![t] = [v \in DOMAIN @ \ {vpn} |-> @[v]]]
    /\ UNCHANGED <<root, zombie>>

\* unmap_one: the tracker goes, then PageTable::unmap clears the entry; the
\* levels above stay.
unmap(t, vpn) ==
    /\ root[t] # None /\ t \notin zombie
    /\ find_vpn(token(t), vpn)
    /\ LET p == find_pte(root[t], vpn)
       IN  mem' = Junked(Store(mem, p.frame, p.slot, 0), {data[t][vpn]})
    /\ data' = [data EXCEPT ![t] = [v \in DOMAIN @ \ {vpn} |-> @[v]]]
    /\ free' = free \cup {data[t][vpn]}
    /\ UNCHANGED <<root, frames, zombie>>

\* exit: the areas are cleared and their frames given back; the entries and
\* the frames of the table stay until the parent waits.
recycle_data_pages(t) ==
    /\ root[t] # None /\ t \notin zombie
    /\ zombie' = zombie \cup {t}
    /\ free' = free \cup DataFrames(t)
    /\ mem' = Junked(mem, DataFrames(t))
    /\ UNCHANGED <<root, frames, data>>

\* The MemorySet is dropped, by exec with its areas, by waitpid without.
drop(t) ==
    /\ root[t] # None
    /\ root' = [root EXCEPT ![t] = None]
    /\ free' = free \cup frames[t] \cup DataFrames(t)
    /\ frames' = [frames EXCEPT ![t] = {}]
    /\ data' = [data EXCEPT ![t] = NoPages]
    /\ zombie' = zombie \ {t}
    /\ mem' = Junked(mem, frames[t] \cup DataFrames(t))

\* User code fills a page of its own with words that look like entries.
scribble(t, vpn) ==
    /\ root[t] # None /\ t \notin zombie
    /\ find_vpn(token(t), vpn)
    /\ mem' = [mem EXCEPT ![ppn(translate(token(t), vpn))] = JunkPage]
    /\ UNCHANGED <<root, frames, data, zombie, free>>

Next == \E t \in Tables :
           \/ new_table(t)
           \/ recycle_data_pages(t)
           \/ drop(t)
           \/ \E vpn \in MapVpns :
                \/ \E fl \in MapFlags : map(t, vpn, fl)
                \/ unmap(t, vpn)
                \/ scribble(t, vpn)

Spec == Init /\ [][Next]_vars

-----------------------------------------------------------------------------
(* Properties.                                                             *)

\* The second and third levels that the entries of table t lead to.
Mid(t, i) == ppn(mem[root[t]][i])
Mids(t) == {i \in Slots : is_valid(mem[root[t]][i])}
Leaf(t, ij) == ppn(mem[Mid(t, ij[1])][ij[2]])
Leaves(t) == {ij \in Mids(t) \X Slots : is_valid(mem[Mid(t, ij[1])][ij[2]])}

\* Every valid entry of a table's upper levels leads to a frame the table
\* tracks, and to each such frame but the root along one way only; tables
\* share no frame with each other, with data pages or with the free ones, and
\* a zombie's table is as whole as any until it is waited for.
OwnTree ==
    /\ \A t \in Tables : root[t] # None =>
          /\ frames[t] = {root[t]} \cup {Mid(t, i) : i \in Mids(t)}
                                  \cup {Leaf(t, ij) : ij \in Leaves(t)}
          /\ Cardinality(frames[t]) = 1 + Cardinality(Mids(t)) + Cardinality(Leaves(t))
          /\ frames[t] \cap (free \cup DataFrames(t)) = {}
    /\ \A t, u \in Tables : t # u =>
          (frames[t] \cup DataFrames(t)) \cap (frames[u] \cup DataFrames(u)) = {}

\* Walking the tree from the token is a flat map: map and unmap change one
\* page of one table, new tables are empty, and no user store, no other
\* table and no reuse of a frame shows through.
Lookup(t) == [v \in MapVpns |->
                 IF root[t] = None THEN None
                 ELSE IF find_vpn(token(t), v) THEN translate(token(t), v) ELSE None]

Flat == INSTANCE FlatTable WITH
           Vpns <- MapVpns,
           Entries <- {PteNew(f, fl + V) : f \in Frames, fl \in MapFlags},
           alive <- {t \in Tables : root[t] # None},
           table <- [t \in Tables |-> Lookup(t)]

ImplementsFlat == Flat!Spec
=============================================================================
