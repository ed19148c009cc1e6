------------------------------- MODULE UserIO -------------------------------
(***************************************************************************)
(* Moving bytes between the kernel and user memory (mm/page_table.rs): the *)
(* page-by-page loops of translated_byte_buffer, translated_and_write_bytes*)
(* and translated_str, MapArea::copy_data, and the loops of OSInode::read  *)
(* and OSInode::write over the slices of a UserBuffer (fs/inode.rs).  One  *)
(* step is one iteration of a loop; a call runs with interrupts off.       *)
(*                                                                         *)
(* Physical memory is a function from addresses to bytes.  Arguments are   *)
(* whatever the program passes: addresses with no page behind them, or at  *)
(* and above the top of the 39-bit space, which VirtAddr::from masks while *)
(* the loops compare the addresses as they are.                            *)
(***************************************************************************)
EXTENDS Naturals, Sequences, FiniteSets, FiniteSetsExt, SequencesExt

CONSTANTS PageSize,
          VPages,     \* pages of the 39-bit address space
          PpnOf,      \* the user's page table: a sequence, page 0 first; the
                      \* pages after it have no leaf table
          UsizeSize,  \* 2^64
          MaxLen,     \* longest buffer
          HeapRoom,   \* slices or characters the kernel heap has room for
          DataRoom,   \* kernel bytes that can be read from data on
          FileSize    \* bytes of the open file

ASSUME Buffers == /\ PageSize \in Nat \ {0}
                  /\ PpnOf \in Seq(Nat)
                  /\ \A i, j \in DOMAIN PpnOf : PpnOf[i] = PpnOf[j] => i = j
                  /\ VPages \in Nat /\ Len(PpnOf) <= VPages
                  /\ UsizeSize \in Nat /\ VPages * PageSize <= UsizeSize
                  /\ MaxLen \in Nat /\ MaxLen < VPages * PageSize
                  /\ HeapRoom \in Nat /\ DataRoom \in Nat
                  /\ FileSize \in Nat

VARIABLES op,        \* the call in progress
          ptr, len,  \* its arguments
          start,     \* the loop variable
          slices,    \* the slices found so far, v in translated_byte_buffer
          count,     \* bytes or slices done
          bytes,     \* physical memory
          file, offset, offset0,  \* the open file, its offset now and at the call
          total,     \* total_read_size, total_write_size
          result,    \* the string so far
          done,      \* the call has returned
          panicked   \* the kernel has stopped in it

io_vars == <<op, ptr, len, start, slices, count, bytes, file, offset, offset0, total, result,
             done, panicked>>

Calls == {"read", "write", "bytes", "str", "elf"}
Top == VPages * PageSize

\* The addresses with a page behind them.
Vas == 0 .. (Len(PpnOf) * PageSize - 1)

\* VirtAddr::from(usize)
VirtAddr(a) == a % Top

floor(va) == va \div PageSize
page_offset(va) == va % PageSize
PageStart(vpn) == vpn * PageSize

\* translate(vpn).ppn(), and the physical address of a virtual one.
ppn_of(vpn) == PpnOf[vpn + 1]
translate_va(va) == ppn_of(floor(va)) * PageSize + page_offset(va)

Pas == {translate_va(va) : va \in Vas}

\* Bytes that differ everywhere: user memory, kernel data, file contents.
UserByte(va) == 100 + va
DataByte(i) == 200 + i
FileByte(i) == 50 + i

VaOf(pa) == CHOOSE va \in Vas : translate_va(va) = pa

\* A file is at offset 0 or further on when a call begins.
IOInit == /\ op = "start"
          /\ ptr = 0 /\ len = 0 /\ start = 0 /\ slices = <<>> /\ count = 0
          /\ bytes = [pa \in Pas |-> UserByte(VaOf(pa))]
          /\ file = [i \in 1..FileSize |-> FileByte(i - 1)]
          /\ offset \in 0..FileSize
          /\ offset0 = offset
          /\ total = 0
          /\ result = <<>>
          /\ done = FALSE
          /\ panicked = FALSE

\* Where a buffer can end: on the user's pages, and below the top.
Ends == {e \in 0 .. (Len(PpnOf) * PageSize) : e < Top}

\* A user program calls with any address and length.  For a path it has put
\* a NUL after len bytes, if there is memory; the path does not reach the
\* end of usize.  A segment is copied to an area that was just mapped.
Call(c, p, n) ==
    /\ op = "start"
    /\ c = "elf" => page_offset(p) = 0 /\ p + n \in Ends
    /\ c = "str" => p + n < UsizeSize
    /\ op' = c
    /\ ptr' = p
    /\ len' = n
    /\ start' = p
    /\ bytes' = IF c = "str" /\ VirtAddr(p + n) \in Vas
                THEN [bytes EXCEPT ![translate_va(VirtAddr(p + n))] = 0] ELSE bytes
    /\ UNCHANGED <<slices, count, file, offset, offset0, total, result, done, panicked>>

-----------------------------------------------------------------------------
(* translated_byte_buffer.                                                 *)

\* Mutant: the end of the buffer is not looked at on its last page.
EndVa_page(s, end) == PageStart(floor(s) + 1)

\* The end of this page or of the buffer, whichever comes first.
EndVa(s, end) == Min({PageStart(floor(s) + 1), VirtAddr(end)})

\* A whole rest of the page when end_va is on a boundary.
Slice(s, e) == [ppn |-> ppn_of(floor(s)), from |-> page_offset(s),
                to |-> IF page_offset(e) = 0 THEN PageSize ELSE page_offset(e)]

\* end = start + len, which wraps in a release build.
BufEnd == (ptr + len) % UsizeSize

\* Mutant: the loop goes round once more when it has reached the end.
BufferDone_past == start > BufEnd

BufferDone == start >= BufEnd

\* The slice of the page the loop is at, and where the loop goes on.
start_va == VirtAddr(start)
end_va == EndVa(start_va, BufEnd)
ThisSlice == Slice(start_va, end_va)

translated_byte_buffer ==
    /\ ~ panicked
    /\ op \in {"read", "write"}
    /\ ~ BufferDone
    /\ start_va \in Vas
    /\ ThisSlice.from <= ThisSlice.to
    /\ Len(slices) < HeapRoom
    /\ slices' = Append(slices, ThisSlice)
    /\ start' = end_va
    /\ UNCHANGED <<op, ptr, len, count, bytes, file, offset, offset0, total, result, done, panicked>>

-----------------------------------------------------------------------------
(* OSInode::read and write; Inode::read_at and write_at are easy-fs's.     *)

SliceLen(s) == s.to - s.from
SlicePa(s, i) == s.ppn * PageSize + s.from + i

\* read_at: as many bytes as the slice holds and the file has left.
read_at(off, s) == IF off >= Len(file) THEN 0
                   ELSE Min({SliceLen(s), Len(file) - off})

ReadOffset(n, s) == offset + n

read ==
    /\ ~ panicked
    /\ op = "read" /\ BufferDone
    /\ count < Len(slices)
    /\ LET s == slices[count + 1]
           n == read_at(offset, s)
       IN  /\ bytes' = [pa \in Pas |->
                          IF \E i \in 0..(n - 1) : pa = SlicePa(s, i)
                          THEN file[offset + 1 + pa - SlicePa(s, 0)] ELSE bytes[pa]]
           /\ offset' = ReadOffset(n, s)
           /\ total' = total + n
           /\ count' = IF n = 0 THEN Len(slices) ELSE count + 1
    /\ UNCHANGED <<op, ptr, len, start, slices, file, offset0, result, done, panicked>>

\* write_at grows the file as needed and takes the whole slice.
write ==
    /\ ~ panicked
    /\ op = "write" /\ BufferDone
    /\ count < Len(slices)
    /\ LET s == slices[count + 1]
           n == SliceLen(s)
       IN  /\ file' = [i \in 1..Max({Len(file), offset + n}) |->
                         IF i > offset /\ i <= offset + n
                         THEN bytes[SlicePa(s, i - offset - 1)] ELSE file[i]]
           /\ offset' = offset + n
           /\ total' = total + n
    /\ count' = count + 1
    /\ UNCHANGED <<op, ptr, len, start, slices, bytes, offset0, result, done, panicked>>

-----------------------------------------------------------------------------
(* translated_and_write_bytes, copy_data and translated_str.               *)

\* Mutant: every page is written from the beginning of the data.
DataIndex_again(i, s) == i

DataIndex(i, s) == count + i

\* for i in from..to, no iteration if from is past to.
Span(s) == IF s.from <= s.to THEN SliceLen(s) ELSE 0

translated_and_write_bytes ==
    /\ ~ panicked
    /\ op = "bytes"
    /\ ~ BufferDone
    /\ start_va \in Vas
    /\ LET s == ThisSlice
           n == Span(s)
       IN  /\ count + n <= DataRoom
           /\ bytes' = [pa \in Pas |->
                          IF \E i \in 0..(n - 1) : pa = SlicePa(s, i)
                          THEN DataByte(DataIndex(pa - SlicePa(s, 0), s)) ELSE bytes[pa]]
           /\ count' = count + n
           /\ start' = end_va
    /\ UNCHANGED <<op, ptr, len, slices, file, offset, offset0, total, result, done, panicked>>

\* MapArea::copy_data: a segment of a program into the pages of its area,
\* which begin on a page boundary.
copy_data ==
    /\ ~ panicked
    /\ op = "elf"
    /\ count < len
    /\ LET n == Min({PageSize, len - count})
           base == ppn_of(floor(start)) * PageSize
       IN  bytes' = [pa \in Pas |-> IF pa \in base .. (base + n - 1)
                                    THEN DataByte(count + pa - base) ELSE bytes[pa]]
    /\ count' = count + PageSize
    /\ start' = start + PageSize
    /\ UNCHANGED <<op, ptr, len, slices, file, offset, offset0, total, result, done, panicked>>

AtNul(va) == bytes[translate_va(va)] = 0

translated_str ==
    /\ ~ panicked
    /\ op = "str"
    /\ start_va \in Vas
    /\ ~ AtNul(start_va)
    /\ Len(result) < HeapRoom
    /\ result' = Append(result, bytes[translate_va(start_va)])
    /\ start' = start + 1
    /\ UNCHANGED <<op, ptr, len, slices, count, bytes, file, offset, offset0, total, done, panicked>>

\* Where a loop panics: translate(..).unwrap() without a page; a slice that
\* ends before it begins; no room on the heap for one more slice or
\* character; a load past the kernel stack that data is on.
Unmapped == start_va \notin Vas
BadSlice == op \in {"read", "write"} /\ ThisSlice.from > ThisSlice.to
HeapFull == \/ op \in {"read", "write"} /\ Len(slices) >= HeapRoom
            \/ op = "str" /\ Len(result) >= HeapRoom /\ ~ AtNul(start_va)
PastData == op = "bytes" /\ count + Span(ThisSlice) > DataRoom

Panic ==
    /\ ~ panicked
    /\ ~ done
    /\ \/ op \in {"read", "write", "bytes"} /\ ~ BufferDone
       \/ op = "str"
    /\ Unmapped \/ (start_va \in Vas /\ (BadSlice \/ HeapFull \/ PastData))
    /\ panicked' = TRUE
    /\ UNCHANGED <<op, ptr, len, start, slices, count, bytes, file, offset, offset0, total, result, done>>

\* The loops are over and the call returns.
Return ==
    /\ ~ done /\ ~ panicked
    /\ \/ op \in {"read", "write"} /\ BufferDone /\ count = Len(slices)
       \/ op = "bytes" /\ BufferDone
       \/ op = "elf" /\ count >= len
       \/ op = "str" /\ start_va \in Vas /\ AtNul(start_va)
    /\ done' = TRUE
    /\ UNCHANGED <<op, ptr, len, start, slices, count, bytes, file, offset, offset0, total, result, panicked>>

Step == \/ translated_byte_buffer
        \/ read
        \/ write
        \/ translated_and_write_bytes
        \/ copy_data
        \/ translated_str
        \/ Panic
        \/ Return

IONext == \/ \E c \in Calls, p \in 0..(UsizeSize - 1), n \in 0..MaxLen : Call(c, p, n)
          \/ Step

\* The kernel runs the call without being interrupted.
IOSpec == IOInit /\ [][IONext]_io_vars /\ WF_io_vars(Step)

-----------------------------------------------------------------------------
(* Properties.                                                             *)

\* The slices found so far are, byte for byte and in order, the physical
\* image of the user's buffer up to where the loop is, and never of a byte
\* past its end, whatever the alignment of its two ends, for a buffer on the
\* user's pages that ends below the top (translated_byte_buffer).
BufferExact ==
    op \in {"read", "write"} /\ ptr + len \in Ends =>
       /\ start <= ptr + len
       /\ FlattenSeq([k \in DOMAIN slices |->
                         [i \in 1..SliceLen(slices[k]) |-> SlicePa(slices[k], i - 1)]])
          = [i \in 1..(start - ptr) |-> translate_va(ptr + i - 1)]

Untouched(n) == \A va \in Vas : va \notin ptr .. (ptr + n - 1) =>
                   bytes[translate_va(va)] = UserByte(va)

\* When a call has returned, whatever buffer it was given, the bytes are
\* where they belong and nothing else has moved, unless the end of the buffer
\* wraps around usize: a buffer with a hole in it or at the top of the space
\* stops the kernel or keeps it, and is never half served.  read delivers the
\* file from the old offset on, as much as both sides have, and advances by
\* that; write stores the buffer there; a kernel structure arrives whole; a
\* path is the bytes up to its NUL.
CopiesExactly ==
    done /\ ptr + len < UsizeSize =>
       CASE op = "read" ->
              LET left == IF offset0 < FileSize THEN FileSize - offset0 ELSE 0
              IN  /\ total = Min({len, left})
                  /\ offset = offset0 + total
                  /\ \A k \in 0..(total - 1) :
                        bytes[translate_va(ptr + k)] = FileByte(offset0 + k)
                  /\ Untouched(total)
         [] op = "write" ->
              /\ total = len
              /\ offset = offset0 + len
              /\ Len(file) = Max({FileSize, offset})
              /\ \A i \in 0..(Len(file) - 1) :
                    file[i + 1] = IF i \in offset0 .. (offset - 1)
                                  THEN UserByte(ptr + i - offset0) ELSE FileByte(i)
              /\ Untouched(0)
         [] op \in {"bytes", "elf"} ->
              /\ \A k \in 0..(len - 1) : bytes[translate_va(ptr + k)] = DataByte(k)
              /\ Untouched(len)
         [] op = "str" -> result = [i \in 1..len |-> UserByte(VirtAddr(ptr + i - 1))]

\* What a program may pass: a buffer on its own pages that ends below the
\* top, a path with its NUL.
Proper == IF op = "str" THEN ptr + len \in Vas ELSE ptr + len \in Ends

\* A call with proper arguments returns, with no panic on the way, and no
\* arguments keep the kernel for ever, except a buffer that reaches the top
\* of the address space and is written by translated_and_write_bytes: its
\* start is masked in every iteration and never passes the end.
CallsReturn ==
    /\ (op # "start" /\ Proper) ~> done
    /\ (op # "start" /\ (op = "bytes" => ptr + len < Top)) ~> (done \/ panicked)
=============================================================================
