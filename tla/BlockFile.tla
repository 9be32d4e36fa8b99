----------------------------- MODULE BlockFile -----------------------------
(***************************************************************************)
(* examples/tmpfs/block_file.rs: a file as a vector of extents, with the   *)
(* part of fs.rs and main.rs that writes, reads and resizes it (Fs::write, *)
(* File::write, handle_setattr).                                           *)
(*                                                                         *)
(* A write holds the lock of the file until it returns.  write() calls     *)
(* itself; todo holds the calls still to be made, so that a recursion      *)
(* without end is a behaviour without end.  An arithmetic underflow, a     *)
(* slice out of range or a failed assertion is a panic, which ends the     *)
(* program (overflow checks as in the default build of an example).        *)
(***************************************************************************)
EXTENDS Integers, Sequences, SequencesExt

CONSTANTS
    Byte,           \* the bytes that are written
    Buffers,        \* the buffers of WRITE requests, sequences of bytes
    MaxOffset,      \* bound on the offset of a write
    MaxRead,        \* bound on the length of a read
    BlockSize,      \* BlockFile::new's block_size
    MaxExtentSize,  \* stands for 0x7FFF_FFFF & !block_mask
    MaxExtents,     \* a write that adds an extent finds fewer
    Sizes,          \* sizes that a Setattr request sets
    Cuts            \* sizes that truncate is called with

VARIABLES
    extents,   \* BlockFile::extents
    todo,      \* calls of write() still to be made, [buf, off]
    status,    \* "idle", "writing", "panic"
    st_size    \* the size in the inode's stat

vars == <<extents, todo, status, st_size>>

(* block_mask + 1: offsets and lengths are rounded to twice the block size *)
Unit == 2 * BlockSize

ASSUME ByteAssumption == Byte # {}
ASSUME BlockSizeAssumption == BlockSize \in Nat \ {0}
ASSUME MaxExtentSizeAssumption == MaxExtentSize \in Nat \ {0} /\ MaxExtentSize % Unit = 0
ASSUME BuffersAssumption == \A buf \in Buffers : buf \in Seq(Byte) /\ buf # <<>>
ASSUME InputsAssumption == {MaxOffset, MaxRead, MaxExtents} \cup Sizes \cup Cuts \subseteq Nat

RoundDown(n) == (n \div Unit) * Unit
RoundUp(n) == RoundDown(n + Unit - 1)

Zeros(n) == [i \in 1..n |-> 0]
Extent(off, data) == [offset |-> off, data |-> data]
End(e) == e.offset + Len(e.data)

size(ext) == IF ext = <<>> THEN 0 ELSE End(Last(ext))

(***************************************************************************)
(* search_extent with SearchBias::Low, the only one in use.  Indices are   *)
(* the code's, from 0; -1 is its Err(-1).                                  *)
(***************************************************************************)
search_extent(ext, off) ==
    LET n == Len(ext)
        bisect[p \in (-1..n) \X (0..n)] ==
            LET a == p[1]
                b == p[2]
                i == a + (b - a) \div 2
            IN  IF b - a <= 1 THEN a
                ELSE IF off < ext[i + 1].offset THEN bisect[<<a, i>>]
                ELSE IF off > ext[i + 1].offset THEN bisect[<<i, b>>] ELSE i
    IN  bisect[<<-1, n>>]

(***************************************************************************)
(* read: what the caller's buffer of n bytes holds afterwards, or a panic. *)
(* step is the body of its loop over the extents.                          *)
(***************************************************************************)
MinOf(x, y) == IF x < y THEN x ELSE y

Panic == [panic |-> TRUE, out |-> <<>>]

(* Mutant of step: the bytes of a hole are left out of the buffer.         *)
StepSkipsHoles(acc, e) ==
    LET inside == IF acc.off > e.offset THEN acc.off - e.offset ELSE 0
        data == SubSeq(e.data, inside + 1, Len(e.data))
        got == MinOf(Len(data), acc.left)
    IN  [acc EXCEPT !.out = @ \o SubSeq(data, 1, got), !.off = @ + got, !.left = @ - got]

step(acc, e) ==
    LET gap == e.offset - acc.off
        zeros == IF gap > 0 THEN gap ELSE 0
        data == IF gap > 0 THEN e.data ELSE SubSeq(e.data, 1 - gap, Len(e.data))
        got == MinOf(Len(data), acc.left - zeros)
    IN  IF acc.stop \/ acc.panic THEN acc
        ELSE CASE gap <= 0 /\ -gap > Len(e.data) -> [acc EXCEPT !.panic = TRUE]
               [] gap > acc.left -> [acc EXCEPT !.stop = TRUE]
               [] OTHER -> [acc EXCEPT !.out = @ \o Zeros(zeros) \o SubSeq(data, 1, got),
                                       !.off = @ + zeros + got,
                                       !.left = @ - zeros - got]

read(ext, n, off) ==
    LET want == MinOf(n, size(ext) - off)
        beg == search_extent(ext, off)
        first == IF beg < 0 THEN 0 ELSE beg
        after[k \in first..Len(ext)] ==
            IF k = first
              THEN [out |-> <<>>, off |-> off, left |-> want, stop |-> FALSE, panic |-> FALSE]
              ELSE step(after[k - 1], ext[k])
        r == after[Len(ext)]
        asserted == first <= size(ext) \/ ext[first + 1].offset = off
    IN  IF want < 0 \/ ~asserted \/ r.panic THEN Panic
        ELSE [panic |-> FALSE, out |-> r.out \o Zeros(r.left)]

(***************************************************************************)
(* write: one action for each way through a call.                          *)
(***************************************************************************)
Init ==
    /\ extents = <<>>
    /\ todo = <<>>
    /\ status = "idle"
    /\ st_size = 0

(* Fs::write and File::write take the lock and call write.                 *)
Write(buf, off) ==
    /\ status = "idle"
    /\ Len(extents) < MaxExtents \/ search_extent(extents, off) # -1
    /\ status' = "writing"
    /\ todo' = <<[buf |-> buf, off |-> off]>>
    /\ UNCHANGED <<extents, st_size>>

Buf == Head(todo).buf
Off == Head(todo).off
Rest == Tail(todo)

(* The call returns; after the last one Fs::write updates the stat.        *)
Return(ext) ==
    /\ extents' = ext
    /\ todo' = Rest
    /\ status' = IF Rest = <<>> THEN "idle" ELSE "writing"
    /\ st_size' = IF Rest = <<>> THEN size(ext) ELSE st_size

Recurse(calls) ==
    /\ todo' = calls \o Rest
    /\ UNCHANGED <<extents, status, st_size>>

Fail ==
    /\ status' = "panic"
    /\ UNCHANGED <<extents, todo, st_size>>

Oversized == RoundUp(Len(Buf)) > MaxExtentSize

WriteChunks ==
    /\ status = "writing" /\ Oversized
    /\ LET chunks == (Len(Buf) + MaxExtentSize - 1) \div MaxExtentSize
       IN  Recurse([k \in 1..chunks |->
               [buf |-> SubSeq(Buf, (k - 1) * MaxExtentSize + 1,
                               MinOf(k * MaxExtentSize, Len(Buf))),
                off |-> Off + (k - 1) * MaxExtentSize]])

At == search_extent(extents, Off)

(* Mutant of WriteNewExtent: the extent starts at the write, not at its    *)
(* block.                                                                  *)
WriteNewExtentUnaligned ==
    /\ status = "writing" /\ ~Oversized /\ At = -1
    /\ Return(Append(extents, Extent(Off, Buf)))

(* "This is the very first extent to be written."                          *)
WriteNewExtent ==
    /\ status = "writing" /\ ~Oversized /\ At = -1
    /\ LET base == RoundDown(Off)
       IN  Return(Append(extents, Extent(base, Zeros(Off - base) \o Buf)))

(* The extent that takes the write, and where in it the write ends.        *)
Into == extents[At + 1]
InOfs == Off - Into.offset
InEnd == InOfs + Len(Buf)

Inside == status = "writing" /\ ~Oversized /\ At # -1
TooLong == RoundUp(InEnd) > MaxExtentSize
Fits == Inside /\ ~TooLong

WriteSplit ==
    /\ Inside /\ TooLong
    /\ IF InOfs > MaxExtentSize THEN Fail
       ELSE LET possible == MaxExtentSize - InOfs
            IN  Recurse(<<[buf |-> SubSeq(Buf, 1, possible), off |-> Off],
                          [buf |-> SubSeq(Buf, possible + 1, Len(Buf)), off |-> Off + possible]>>)

(* The data of the extent after a resize to n bytes and the copy.          *)
Copied(n) ==
    [i \in 1..n |-> IF i > InOfs /\ i <= InEnd THEN Buf[i - InOfs]
                    ELSE IF i <= Len(Into.data) THEN Into.data[i] ELSE 0]

WriteOverwrite ==
    /\ Fits /\ Len(Into.data) >= InEnd
    /\ Return([extents EXCEPT ![At + 1].data = Copied(Len(Into.data))])

IsLast == At + 1 = Len(extents)

WriteGrow ==
    /\ Fits /\ Len(Into.data) < InEnd /\ IsLast
    /\ Return([extents EXCEPT ![At + 1].data = Copied(InEnd)])

(* Mutant of CutFront: the extent begins later but keeps its bytes.        *)
CutFrontKeepsData(e, n) == Extent(e.offset + n, e.data)

CutFront(e, n) == Extent(e.offset + n, SubSeq(e.data, n + 1, Len(e.data)))

(* The extent grows over the next one in the vector and takes the rest of  *)
(* the block from it.  (The early return at `cur_end <= extent.offset' is  *)
(* never taken, as the extent is not empty here.)                          *)
WriteMerge ==
    /\ Fits /\ Len(Into.data) < InEnd /\ ~IsLast
    /\ LET next == extents[At + 2]
           over == Into.offset + InEnd - next.offset
           moved == RoundUp(over) - over
           grown == Copied(RoundUp(InEnd))
           kept == Len(grown) - moved
       IN  IF over < 0 \/ moved > Len(next.data) \/ RoundUp(over) > Len(next.data) \/ kept < 0
           THEN Fail
           ELSE Return([extents EXCEPT
                    ![At + 1].data = SubSeq(grown, 1, kept) \o SubSeq(next.data, 1, moved),
                    ![At + 2] = CutFront(next, RoundUp(over))])

WriteStep ==
    \/ WriteChunks
    \/ WriteNewExtent
    \/ WriteSplit
    \/ WriteOverwrite
    \/ WriteGrow
    \/ WriteMerge

(* A READ of n bytes; the kernel asks for nothing past the end it knows.   *)
Read(n, off) ==
    /\ status = "idle"
    /\ off <= st_size
    /\ status' = IF read(extents, n, off).panic THEN "panic" ELSE "idle"
    /\ UNCHANGED <<extents, todo, st_size>>

(* handle_setattr: a new size goes to the stat only.                       *)
SetattrSize(n) ==
    /\ status = "idle"
    /\ st_size' = n
    /\ UNCHANGED <<extents, todo, status>>

truncate(n) ==
    LET at == search_extent(extents, n)
    IN  IF at = -1 THEN <<>>
        ELSE IF extents[at + 1].offset = n THEN SubSeq(extents, 1, at)
        ELSE [SubSeq(extents, 1, at + 1) EXCEPT
                ![at + 1].data = SubSeq(@, 1, MinOf(n - extents[at + 1].offset, Len(@)))]

(* truncate() has no caller in the example; its owner would keep the stat  *)
(* at the file's size, as after a write.                                   *)
Truncate(n) ==
    /\ status = "idle"
    /\ extents' = truncate(n)
    /\ st_size' = size(extents')
    /\ UNCHANGED <<todo, status>>

Next ==
    \/ \E buf \in Buffers, off \in 0..MaxOffset : Write(buf, off)
    \/ WriteStep
    \/ \E n \in 1..MaxRead, off \in 0..st_size : Read(n, off)
    \/ \E n \in Sizes : SetattrSize(n)
    \/ \E n \in Cuts : Truncate(n)

Spec == Init /\ [][Next]_vars

(***************************************************************************)
(* Whatever the order of writes, and also once the extents are out of      *)
(* order: each extent starts at a block and write does not make it longer  *)
(* than an extent may be, but for the leading zeros of a new one.          *)
(***************************************************************************)
ExtentsWithinLimits ==
    \A k \in DOMAIN extents : /\ extents[k].offset % Unit = 0
                              /\ Len(extents[k].data) < MaxExtentSize + Unit

(* The binary search needs a vector whose extents are in order.            *)
InOrder(ext) == \A k \in 2..Len(ext) : End(ext[k - 1]) <= ext[k].offset

Holds(e, p) == e.offset <= p /\ p < End(e)

(* The byte at offset p of a file whose extents are in order.              *)
ByteAt(ext, p) ==
    IF \E k \in DOMAIN ext : Holds(ext[k], p)
      THEN LET k == CHOOSE j \in DOMAIN ext : Holds(ext[j], p)
           IN  ext[k].data[p - ext[k].offset + 1]
      ELSE 0

(***************************************************************************)
(* While the extents are in order, a read at an offset of the file returns *)
(* that part of the file, as many bytes as there are, and does not panic,  *)
(* wherever it starts and ends relative to extents, their borders and the  *)
(* hole before the first one.  (The assertion in get_read_extents compares *)
(* an index with a size; it cannot fail while there are fewer extents than *)
(* bytes.)                                                                 *)
(***************************************************************************)
ReadsAreSlices ==
    InOrder(extents) /\ Len(extents) <= size(extents) + 1 =>
        \A off \in 0..size(extents), n \in 0..MaxRead :
            read(extents, n, off) =
              [panic |-> FALSE,
               out |-> [i \in 1..MinOf(n, size(extents) - off) |->
                           ByteAt(extents, off + i - 1)]]

(* Bytes of its last block that a write takes from the wrong place: those  *)
(* behind the write in an extent behind the one that takes the write.      *)
Spoilt(p) ==
    /\ Off + Len(Buf) <= p /\ p < RoundUp(Off + Len(Buf))
    /\ \E k \in DOMAIN extents : Holds(extents[k], p) /\ At + 1 < k

(***************************************************************************)
(* A call of write() that returns, at or behind the first extent of a file *)
(* whose extents are in order, leaves them in order, makes the file as     *)
(* long as it has to be, and puts its bytes where they belong; every other *)
(* byte stays what it was, in all extents, but for the end of the block    *)
(* when the write runs into another extent.                                *)
(***************************************************************************)
LandsInPlace ==
    (/\ status = "writing" /\ todo' = Rest
     /\ InOrder(extents)
     /\ extents # <<>> => extents[1].offset <= Off)
    => /\ InOrder(extents')
       /\ size(extents') = IF size(extents) < Off + Len(Buf) THEN Off + Len(Buf) ELSE size(extents)
       /\ \A p \in 0..(size(extents') - 1) :
            \/ Spoilt(p)
            \/ ByteAt(extents', p) = IF Off <= p /\ p < Off + Len(Buf) THEN Buf[p - Off + 1]
                                     ELSE ByteAt(extents, p)
WritesLandInPlace == [][LandsInPlace]_vars

(* The file as its reader sees it.                                         *)
Contents == read(extents, size(extents), 0).out

(* The bytes that the calls still to be made will write.                   *)
Pending == UNION {{<<c.off + i - 1, c.buf[i]>> : i \in DOMAIN c.buf} : c \in ToSet(todo)}

Sparse == INSTANCE SparseFile WITH bytes <- Contents, pend <- Pending

(***************************************************************************)
(* "Implements "block" based sparse vector": what write and truncate do to *)
(* the extents is, for the reader of the whole file, a write or a cut of a *)
(* sparse vector of bytes.  The code does not keep this: a write below the *)
(* first extent puts its extent at the end of the vector.                  *)
(***************************************************************************)
ImplementsSparseFile == Sparse!Spec
=============================================================================
