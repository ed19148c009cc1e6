------------------------------ MODULE FlatTable ------------------------------
(***************************************************************************)
(* What a page table promises: a finite map from virtual page numbers to   *)
(* entries, one per address space, that starts out empty and changes at    *)
(* one page of one address space at a time.                                *)
(***************************************************************************)
CONSTANTS Tables, Vpns, Entries, None

VARIABLES alive, table

vars == <<alive, table>>

Empty == [v \in Vpns |-> None]

Init == alive = {} /\ table = [t \in Tables |-> Empty]

Create(t) == /\ t \notin alive
             /\ alive' = alive \cup {t}
             /\ UNCHANGED table

Map(t, v) == /\ t \in alive
             /\ table[t][v] = None
             /\ table'[t][v] \in Entries
             /\ table' = [table EXCEPT ![t][v] = table'[t][v]]
             /\ UNCHANGED alive

Unmap(t, v) == /\ t \in alive
               /\ table[t][v] # None
               /\ table' = [table EXCEPT ![t][v] = None]
               /\ UNCHANGED alive

Destroy(t) == /\ t \in alive
              /\ alive' = alive \ {t}
              /\ table' = [table EXCEPT ![t] = Empty]

Next == \E t \in Tables :
           \/ Create(t)
           \/ Destroy(t)
           \/ \E v \in Vpns : Map(t, v) \/ Unmap(t, v)

Spec == Init /\ [][Next]_vars
=============================================================================
