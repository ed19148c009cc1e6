------------------------------- MODULE IdPool -------------------------------
(***************************************************************************)
(* What an identifier allocator of the kernel promises, whatever it keeps  *)
(* inside: an identifier handed out is one nobody holds, an identifier     *)
(* given back is one somebody holds, and the allocator says "none left"    *)
(* only when every identifier is held.  FrameAllocator (physical page      *)
(* frames) and PidAllocator (process identifiers) implement it.            *)
(***************************************************************************)
CONSTANT Ids          \* the identifiers the pool can ever hand out

VARIABLES used,       \* identifiers held by somebody
          refused     \* the last request was answered "none left"

vars == <<used, refused>>

TypeOK == /\ used \subseteq Ids
          /\ refused \in BOOLEAN

Init == /\ used = {}
        /\ refused = FALSE

\* Hand out a set of identifiers at once: one for a plain request, several
\* for a request for a contiguous run.
Acquire == \E S \in SUBSET (Ids \ used) :
              /\ S # {}
              /\ used' = used \cup S
              /\ refused' = FALSE

Refuse == /\ used = Ids
          /\ refused' = TRUE
          /\ UNCHANGED used

Release == \E id \in used :
              /\ used' = used \ {id}
              /\ UNCHANGED refused

Next == Acquire \/ Refuse \/ Release

Spec == Init /\ [][Next]_vars
=============================================================================
