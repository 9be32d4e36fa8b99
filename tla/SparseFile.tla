----------------------------- MODULE SparseFile -----------------------------
(***************************************************************************)
(* What block_file.rs promises: a vector of bytes that can be written at   *)
(* any offset, where what was never written reads as zero.  A write is     *)
(* accepted and then put into the file, at once or in several parts.       *)
(***************************************************************************)
EXTENDS Integers, Sequences

CONSTANTS
    Buffers,      \* the buffers that are written
    MaxOffset     \* bound on the offset of a write

VARIABLES
    bytes,   \* the file
    pend     \* accepted bytes that are not in the file yet, <<offset, byte>>

Pieces(buf, off) == {<<off + i - 1, buf[i]>> : i \in 1..Len(buf)}

MaxOf(S, n) == CHOOSE m \in S \cup {n} : \A k \in S \cup {n} : k <= m

Overlay(s, S) ==
    [i \in 1..MaxOf({p[1] + 1 : p \in S}, Len(s)) |->
        IF \E p \in S : p[1] + 1 = i THEN (CHOOSE p \in S : p[1] + 1 = i)[2]
        ELSE IF i <= Len(s) THEN s[i] ELSE 0]

Init == bytes = <<>> /\ pend = {}

Accept ==
    /\ pend = {}
    /\ \E buf \in Buffers, off \in 0..MaxOffset : pend' = Pieces(buf, off)
    /\ bytes' = bytes

Put ==
    \E S \in (SUBSET pend) \ {{}} :
        /\ pend' = pend \ S
        /\ bytes' = Overlay(bytes, S)

(* The end of the file is cut off.                                         *)
Cut ==
    /\ pend = {}
    /\ \E n \in 0..Len(bytes) : bytes' = SubSeq(bytes, 1, n)
    /\ pend' = pend

Next == Accept \/ Put \/ Cut

Spec == Init /\ [][Next]_<<bytes, pend>>
=============================================================================
