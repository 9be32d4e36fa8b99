------------------------------ MODULE ReplyBuf ------------------------------
(***************************************************************************)
(* The buffer of a READDIR or READDIRPLUS reply: sys.rs packs directory    *)
(* entries into it in the layout of the kernel protocol (protocol.rs), and *)
(* the kernel takes them out again.                                        *)
(*                                                                         *)
(* A buffer is [size, filled, data].  data maps the byte offset at which a *)
(* structure was written to that structure: a dirent together with the    *)
(* name that follows it, or the fuse_entry_out in front of a dirent of     *)
(* READDIRPLUS.  Offsets and sizes are the real ones.  Slots that nothing  *)
(* was written to hold the zeroes the buffer was created with.             *)
(***************************************************************************)
EXTENDS Integers, Sequences

FUSE_DIRENT_HEADER_SIZE == 24
FUSE_ENTRY_OUT_SIZE     == 128

(* Mutant of fuse_dirent_align: the padding is forgotten. *)
AlignNothing(x) == x

(* (x + 7) & !7 *)
fuse_dirent_align(x) == 8 * ((x + 7) \div 8)

fuse_dirent_size(namelen) == fuse_dirent_align(FUSE_DIRENT_HEADER_SIZE + namelen)

fuse_direntplus_size(namelen) ==
  fuse_dirent_align(FUSE_ENTRY_OUT_SIZE + FUSE_DIRENT_HEADER_SIZE + namelen)

(* (mode >> 12) & 0xf *)
mode_to_dirent_type(mode) == (mode \div 4096) % 16

Dirent(name, namelen, stat, next) ==
  [ino |-> stat.ino, off |-> next, namelen |-> namelen,
   typ |-> mode_to_dirent_type(stat.mode), name |-> name]

new(size) == [size |-> size, filled |-> 0, data |-> << >>]

(* Whether add_readdir (plus = FALSE) or add_readdir_plus (plus = TRUE)    *)
(* answers Full for a name of this length.                                 *)
Full(b, plus, namelen) ==
  b.filled + (IF plus THEN fuse_direntplus_size(namelen) ELSE fuse_dirent_size(namelen))
    > b.size

(* A structure is copied into the buffer at offset `at`, as write_dirent   *)
(* does with a dirent and the name behind it.                              *)
Write(data, at, struct) ==
  [p \in DOMAIN data \cup {at} |-> IF p = at THEN struct ELSE data[p]]

add_readdir(b, d) ==
  [b EXCEPT !.data   = Write(@, b.filled, d),
            !.filled = @ + fuse_dirent_size(d.namelen)]

add_readdir_plus(b, d) ==
  [b EXCEPT !.data   = Write(Write(@, b.filled, [nodeid |-> d.ino]),
                             b.filled + FUSE_ENTRY_OUT_SIZE, d),
            !.filled = @ + FUSE_ENTRY_OUT_SIZE + fuse_dirent_size(d.namelen)]

-----------------------------------------------------------------------------
(* What the kernel finds in the filled part: it takes the dirent at its    *)
(* position (behind the entry_out for READDIRPLUS), and steps over it by   *)
(* the size it computes from namelen.  It stops at a position that holds   *)
(* no dirent, and at one that runs over the end.                           *)
IsDirent(b, at) == at \in DOMAIN b.data /\ "name" \in DOMAIN b.data[at]

KernelParse(b, plus) ==
  LET hdr  == IF plus THEN FUSE_ENTRY_OUT_SIZE ELSE 0
      from[p \in 0 .. b.filled] ==
        IF ~IsDirent(b, p + hdr)
          THEN << >>
          ELSE LET d   == b.data[p + hdr]
                   len == (((hdr + FUSE_DIRENT_HEADER_SIZE + d.namelen) + 7) \div 8) * 8
               IN  IF p + len > b.filled
                     THEN << >>
                     ELSE <<d>> \o (IF p + len = b.filled THEN << >> ELSE from[p + len])
  IN  from[0]
=============================================================================
