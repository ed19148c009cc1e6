------------------------------ MODULE FileTable ------------------------------
(***************************************************************************)
(* File descriptors: the fd_table of each process (task/task.rs), the open *)
(* files behind it (OSInode, fs/inode.rs) with their Arc counts, and the   *)
(* calls open, close, read and write (syscall/fs.rs) with fork, spawn,     *)
(* exit and wait.  Each call is one step: the kernel is not preempted.     *)
(*                                                                         *)
(* A file is its length; UserIO follows the bytes.  The directory and the  *)
(* inodes belong to easy-fs, which is not part of the repository: find,    *)
(* create and clear are modelled from how open_file uses them.             *)
(***************************************************************************)
EXTENDS Naturals, Sequences, FiniteSets

CONSTANTS Procs, InitProc,
          Handles,     \* OSInode objects that can exist
          Names,       \* files of the root directory
          FlagSets,    \* OpenFlags arguments of open
          Lengths,     \* lengths of reads and writes
          MaxFds,      \* bound: slots of a table
          MaxSize,     \* bound: length of a file
          None, Stdin, Stdout

ASSUME FileBounds == /\ InitProc \in Procs /\ IsFiniteSet(Procs)
                     /\ MaxFds \in Nat /\ MaxFds >= 3
                     /\ MaxSize \in Nat
                     /\ FlagSets \subseteq SUBSET {"WRONLY", "RDWR", "CREATE", "TRUNC"}
                     /\ Lengths \subseteq Nat

\* An open file; inner.inode is the file's name here.
OSInode == [name : Names, offset : Nat,
            mode : [readable : BOOLEAN, writable : BOOLEAN]]

\* An empty slot, the two console files and an OSInode are different things.
ASSUME Sentinels == /\ {None, Stdin, Stdout} \cap Handles = {}
                    /\ None # Stdin /\ None # Stdout /\ Stdin # Stdout
                    /\ None \notin Nat /\ None \notin OSInode

VARIABLES state,    \* "none", "live" or "zombie"
          fd_table, \* one sequence per process
          handle,   \* the fields of every OSInode
          strong,   \* Arc::strong_count of every OSInode
          size,     \* length of every file, None if there is no such file
          origin,   \* history: the open behind each descriptor
          moved,    \* history: bytes moved through each open
          fault

vars == <<state, fd_table, handle, strong, size, origin, moved, fault>>

Files == Handles \cup {None, Stdin, Stdout}
Fds == 1 .. MaxFds

\* OpenFlags::read_write
read_write(flags) == [readable |-> "WRONLY" \notin flags,
                      writable |-> flags # {}]

\* TaskControlBlock::new
StdFds == <<Stdin, Stdout, Stdout>>

Init == /\ state = [p \in Procs |-> IF p = InitProc THEN "live" ELSE "none"]
        /\ fd_table = [p \in Procs |-> IF p = InitProc THEN StdFds ELSE <<>>]
        /\ handle = [h \in Handles |-> None]
        /\ strong = [h \in Handles |-> 0]
        /\ size \in [Names -> {None, 1}]
        /\ origin = [p \in Procs |-> [fd \in Fds |-> None]]
        /\ moved = [h \in Handles |-> 0]
        /\ fault = "none"

CanRun(p) == fault = "none" /\ state[p] = "live"

-----------------------------------------------------------------------------
(* open and close.                                                         *)

\* The first free slot, or one more at the end.
alloc_fd(t) ==
    LET gaps == {fd \in DOMAIN t : t[fd] = None}
    IN  IF gaps = {} THEN Len(t) + 1 ELSE CHOOSE fd \in gaps : \A g \in gaps : fd <= g

SetFd(t, fd, f) == [i \in 1 .. (IF fd > Len(t) THEN fd ELSE Len(t)) |->
                      IF i = fd THEN f ELSE t[i]]

\* open_file: whether it succeeds, and the length of the file afterwards.
open_succeeds(name, flags) == "CREATE" \in flags \/ size[name] # None

OpenedSize(name, flags) ==
    IF {"CREATE", "TRUNC"} \cap flags # {} THEN 0 ELSE size[name]

FreshHandle == CHOOSE h \in Handles : strong[h] = 0

sys_open(p, name, flags) ==
    LET h == FreshHandle
        fd == alloc_fd(fd_table[p])
    IN  /\ CanRun(p)
        /\ open_succeeds(name, flags)
        /\ \E g \in Handles : strong[g] = 0
        /\ fd <= MaxFds
        /\ size' = [size EXCEPT ![name] = OpenedSize(name, flags)]
        /\ handle' = [handle EXCEPT ![h] = [name |-> name, offset |-> 0,
                                           mode |-> read_write(flags)]]
        /\ strong' = [strong EXCEPT ![h] = 1]
        /\ fd_table' = [fd_table EXCEPT ![p] = SetFd(@, fd, h)]
        /\ origin' = [origin EXCEPT ![p][fd] = h]
        /\ moved' = [moved EXCEPT ![h] = 0]
        /\ UNCHANGED <<state, fault>>

\* Dropping one reference; the OSInode goes with the last one.
Released(h, n) == IF strong[h] = n THEN None ELSE handle[h]

\* The history of an open ends with its last descriptor.
Forget == moved' = [h \in Handles |-> IF handle'[h] = None THEN 0 ELSE moved[h]]

\* Mutant: the slot is removed from the table and the later ones move up.
TakeFd_remove(t, fd) == [i \in 1 .. (Len(t) - 1) |-> IF i < fd THEN t[i] ELSE t[i + 1]]

\* Option::take
TakeFd(t, fd) == [t EXCEPT ![fd] = None]

sys_close(p, fd) ==
    LET h == fd_table[p][fd] IN
    /\ CanRun(p)
    /\ fd \in DOMAIN fd_table[p]
    /\ h # None
    /\ fd_table' = [fd_table EXCEPT ![p] = TakeFd(@, fd)]
    /\ origin' = [origin EXCEPT ![p][fd] = None]
    /\ IF h \in Handles
       THEN /\ strong' = [strong EXCEPT ![h] = @ - 1]
            /\ handle' = [handle EXCEPT ![h] = Released(h, 1)]
       ELSE UNCHANGED <<strong, handle>>
    /\ Forget
    /\ UNCHANGED <<state, size, fault>>

-----------------------------------------------------------------------------
(* read and write.  Neither looks at readable or writable.                 *)

Min2(a, b) == IF a <= b THEN a ELSE b
Max2(a, b) == IF a >= b THEN a ELSE b

Moved(p, fd, n) ==
    LET h == fd_table[p][fd]
    IN  /\ handle' = [handle EXCEPT ![h].offset = @ + n]
        /\ moved' = [moved EXCEPT ![origin[p][fd]] = @ + n]

\* OSInode::read; past the end, as after a truncation, it is 0 bytes.
\* Stdin waits for the console (module Process); Stdout panics.
sys_read(p, fd, n) ==
    LET f == fd_table[p][fd] IN
    /\ CanRun(p)
    /\ fd \in DOMAIN fd_table[p]
    /\ \/ /\ f \in Handles
          /\ LET s == size[handle[f].name]
                 o == handle[f].offset
             IN  Moved(p, fd, IF o >= s THEN 0 ELSE Min2(n, s - o))
          /\ UNCHANGED fault
       \/ /\ f = Stdout
          /\ fault' = "read from stdout"
          /\ UNCHANGED <<handle, moved>>
    /\ UNCHANGED <<state, fd_table, strong, size, origin>>

\* OSInode::write; the file grows up to the end of what is written.
\* Stdin panics, Stdout prints.
sys_write(p, fd, n) ==
    LET f == fd_table[p][fd] IN
    /\ CanRun(p)
    /\ fd \in DOMAIN fd_table[p]
    /\ \/ /\ f \in Handles
          /\ handle[f].offset + n <= MaxSize
          /\ size' = [size EXCEPT ![handle[f].name] = Max2(@, handle[f].offset + n)]
          /\ Moved(p, fd, n)
          /\ UNCHANGED fault
       \/ /\ f = Stdin
          /\ fault' = "write to stdin"
          /\ UNCHANGED <<handle, moved, size>>
    /\ UNCHANGED <<state, fd_table, strong, origin>>

-----------------------------------------------------------------------------
(* fork and spawn copy the table, exit keeps it, wait drops it.            *)

Uses(t, h) == Cardinality({fd \in DOMAIN t : t[fd] = h})

\* Mutant: the child gets descriptors of its own, each with a copy of the
\* open file.
copy_fd_table_deep(p, c) ==
    LET new == CHOOSE h \in Handles : strong[h] = 0
        open == {fd \in DOMAIN fd_table[p] : fd_table[p][fd] \in Handles}
    IN  /\ Cardinality(open) <= 1
        /\ open # {} => \E h \in Handles : strong[h] = 0
        /\ fd_table' = [fd_table EXCEPT ![c] =
                          [fd \in DOMAIN fd_table[p] |->
                             IF fd \in open THEN new ELSE fd_table[p][fd]]]
        /\ IF open = {} THEN UNCHANGED <<strong, handle>>
           ELSE /\ strong' = [strong EXCEPT ![new] = 1]
                /\ handle' = [handle EXCEPT ![new] =
                                handle[fd_table[p][CHOOSE fd \in open : TRUE]]]

\* file.clone() for every open slot.
copy_fd_table(p, c) ==
    /\ fd_table' = [fd_table EXCEPT ![c] = fd_table[p]]
    /\ strong' = [h \in Handles |-> strong[h] + Uses(fd_table[p], h)]
    /\ UNCHANGED handle

\* TaskControlBlock::fork and spwan
sys_fork(p, c) ==
    /\ CanRun(p)
    /\ state[c] = "none"
    /\ state' = [state EXCEPT ![c] = "live"]
    /\ copy_fd_table(p, c)
    /\ origin' = [origin EXCEPT ![c] = origin[p]]
    /\ UNCHANGED <<size, moved, fault>>

\* A zombie keeps its descriptors.
exit_current(p) ==
    /\ CanRun(p)
    /\ p # InitProc
    /\ state' = [state EXCEPT ![p] = "zombie"]
    /\ UNCHANGED <<fd_table, handle, strong, size, origin, moved, fault>>

reap(p) ==
    /\ fault = "none"
    /\ state[p] = "zombie"
    /\ state' = [state EXCEPT ![p] = "none"]
    /\ fd_table' = [fd_table EXCEPT ![p] = <<>>]
    /\ strong' = [h \in Handles |-> strong[h] - Uses(fd_table[p], h)]
    /\ handle' = [h \in Handles |-> Released(h, Uses(fd_table[p], h))]
    /\ origin' = [origin EXCEPT ![p] = [fd \in Fds |-> None]]
    /\ Forget
    /\ UNCHANGED <<size, fault>>

Halted == fault # "none" /\ UNCHANGED vars

Next == \/ \E p \in Procs :
             \/ \E name \in Names, flags \in FlagSets : sys_open(p, name, flags)
             \/ \E fd \in Fds : \/ sys_close(p, fd)
                                \/ \E n \in Lengths : sys_read(p, fd, n) \/ sys_write(p, fd, n)
             \/ \E c \in Procs : sys_fork(p, c)
             \/ exit_current(p)
             \/ reap(p)
        \/ Halted

Spec == Init /\ [][Next]_vars

-----------------------------------------------------------------------------
(* Properties.                                                             *)

\* All descriptors that descend from one open, in every process that
\* inherited it, share one offset: it is what was moved through all of them
\* together (fork and spwan clone the Arc, not the OSInode).
SharedOffset ==
    \A p \in Procs : \A fd \in DOMAIN fd_table[p] :
       fd_table[p][fd] \in Handles =>
          handle[fd_table[p][fd]].offset = moved[origin[p][fd]]

\* What a step leaves as it was.
Kept(p, fd) == fd \in DOMAIN fd_table'[p] /\ fd_table'[p][fd] = fd_table[p][fd]

OnlyOwnerCloses ==
    \A p \in Procs : \A fd \in DOMAIN fd_table[p] :
       \/ fd_table[p][fd] = None
       \/ Kept(p, fd)
       \/ sys_close(p, fd) /\ \A k \in DOMAIN fd_table[p] : k # fd => Kept(p, k)
       \/ reap(p)

\* A descriptor in use, a zombie's too, denotes the same file until its own
\* process closes this very descriptor, or its parent waits for it.  Closing
\* touches no other slot: open takes only free slots, close moves none, and
\* no step of one process changes the descriptors of another.
DescriptorsStable == [][OnlyOwnerCloses]_vars
=============================================================================
