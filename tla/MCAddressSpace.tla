--------------------------- MODULE MCAddressSpace ---------------------------
(***************************************************************************)
(* Small address spaces for TLC.  Pages are two bytes; the program has one *)
(* or two pages, so with a one-page stack the heap begins at page 3 or 4.  *)
(***************************************************************************)
EXTENDS AddressSpace

Call(start, len, port) == [start |-> start, len |-> len, port |-> port]
Block(start, len) == [start |-> start, len |-> len]

\* Two pages (the length is no multiple of a page), a request that reaches
\* past the end of the address space, and two that are refused.
MCMmapCalls == {Call(8, 3, 3), Call(10, 8, 3), Call(9, 1, 3), Call(8, 1, 8)}

\* A part of the mapped area or of the heap, the whole mapped area, and a
\* range past the end.
MCMunmapCalls == {Block(8, 2), Block(8, 4), Block(10, 8)}

\* Growth is no multiple of a page, so that the break is on either side of a
\* boundary and on it, and the heap has one page, two, or more.
MCSbrkSizes == {-2, 3}

MCNone == {}

-----------------------------------------------------------------------------
(* States up to the names of frames.  frame_alloc takes the lowest free    *)
(* frame, free frames all hold junk and no action looks at a number, so    *)
(* that states which differ by a renaming of frames have the same future.  *)
(* Nobody follows the entries of a zombie.                                 *)

\* Where a frame is tracked and mapped, and what it holds.
Tracked(p, f) ==
    {<<i, v>> \in UNION {{i} \X DOMAIN areas[p][i].frames : i \in DOMAIN areas[p]} :
        areas[p][i].frames[v] = f}
MappedAt(p, f) == {v \in DOMAIN ptes[p] : Live(p) /\ ptes[p][v].ppn = f}
Role(f) == <<[p \in Procs |-> <<Tracked(p, f), MappedAt(p, f)>>], data[f]>>

Ranges(p) == [i \in DOMAIN areas[p] |->
                 <<areas[p][i].start, areas[p][i].end, areas[p][i].perm>>]
Rights(p) == IF Live(p) THEN [v \in DOMAIN ptes[p] |-> ptes[p][v].perm] ELSE <<>>

UpToFrames == <<state, heap_bottom, program_brk, tame, fault,
                [p \in Procs |-> <<Ranges(p), Rights(p)>>],
                {Role(f) : f \in Frames \ free}, Cardinality(free)>>
=============================================================================
