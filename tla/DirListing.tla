----------------------------- MODULE DirListing -----------------------------
(***************************************************************************)
(* Listing a directory of the tmpfs example: the kernel sends READDIR after *)
(* READDIR, each from the offset of the last entry it took, until an answer *)
(* comes back empty; handle_readdir (main.rs) fills a ReplyBuf for each.   *)
(* An offset is a position in the listing, so a name created or removed    *)
(* between two requests moves everything behind it.                        *)
(*                                                                         *)
(* The loop of handle_readdir is taken one entry at a time.  The program   *)
(* serves one request after the other, so the directory changes only       *)
(* between two READDIRs.                                                   *)
(***************************************************************************)
EXTENDS ReplyBuf, FiniteSets

CONSTANTS
  MaxName,           \* names are 1 .. MaxName, in the order of the BTreeMap
  NameLen,           \* the length in bytes of each name, of ".." and of "."
  Dirs,              \* the names that are directories
  ReaddirSizes,      \* the sizes READDIR asks for
  ReaddirPlusSizes,  \* the sizes READDIRPLUS asks for
  MaxChanges         \* bound on the changes during one listing

Name   == 1 .. MaxName
DotDot == MaxName + 1
Dot    == MaxName + 2
Entry  == 1 .. Dot

ASSUME NameAssumption ==
  /\ MaxName \in Nat
  /\ NameLen \in [Entry -> 1 .. 255]
  /\ Dirs \subseteq Name
  /\ MaxChanges \in Nat

(* The kernel asks for at least a page, which holds any one entry.         *)
ASSUME SizesAssumption ==
  /\ ReaddirSizes \subseteq Nat /\ ReaddirPlusSizes \subseteq Nat
  /\ \A s \in ReaddirSizes, n \in Entry : fuse_dirent_size(NameLen[n]) <= s
  /\ \A s \in ReaddirPlusSizes, n \in Entry : fuse_direntplus_size(NameLen[n]) <= s

VARIABLES
  files,    \* the names in the directory: DirInfo::files
  pc,       \* where handle_readdir is
  next,     \* its `next`
  plus,     \* the request is a READDIRPLUS
  buf,      \* its ReplyBuf
  pos,      \* kernel: the offset to go on from
  got,      \* kernel: the entries it took, in order
  ended,    \* kernel: an empty answer came
  stable,   \* the names that have been there since the listing began
  created,  \* how many were created since then
  removed   \* how many were removed since then

daemonVars == <<pc, next, plus, buf>>
kernelVars == <<pos, got, ended>>
ghostVars  == <<stable, created, removed>>
vars       == <<files, daemonVars, kernelVars, ghostVars>>

(* The stat of an entry.  The directory is the root, its own parent.       *)
IsDir(n) == n \in Dirs \cup {DotDot, Dot}

Stat(n) ==
  [ino  |-> IF n \in Name THEN n + 1 ELSE 1,
   mode |-> IF IsDir(n) THEN 16384 + 493 ELSE 32768 + 420]

file_count == Cardinality(files)

(* The file that `skip` files come before. *)
Nth(skip) == CHOOSE n \in files : Cardinality({m \in files : m < n}) = skip

Init ==
  /\ files \in SUBSET Name
  /\ pc = "idle" /\ next = 0 /\ plus = FALSE /\ buf = new(0)
  /\ pos = 0 /\ got = << >> /\ ended = FALSE
  /\ stable = files /\ created = 0 /\ removed = 0

-----------------------------------------------------------------------------
(* The kernel's READDIR or READDIRPLUS: process_request builds the request *)
(* with a fresh ReplyBuf, and handle_readdir starts at its offset.         *)
Readdir ==
  /\ pc = "idle" /\ ~ended
  /\ \E p \in BOOLEAN, size \in ReaddirSizes \cup ReaddirPlusSizes :
       /\ size \in IF p THEN ReaddirPlusSizes ELSE ReaddirSizes
       /\ plus' = p
       /\ buf' = new(size)
  /\ next' = pos
  /\ pc' = "files"
  /\ UNCHANGED <<files, kernelVars, ghostVars>>

(* Mutant of add_entry: an entry that did not fit is tried again.          *)
AddEntryRetries(n, then) ==
  /\ IF Full(buf, plus, NameLen[n])
       THEN UNCHANGED daemonVars
       ELSE LET d == Dirent(n, NameLen[n], Stat(n), next + 1)
            IN  /\ buf' = IF plus THEN add_readdir_plus(buf, d) ELSE add_readdir(buf, d)
                /\ next' = next + 1 /\ pc' = then
  /\ UNCHANGED <<files, plus, kernelVars, ghostVars>>

(* Mutant of add_entry: the loop goes on to the next entry after a Full.   *)
AddEntryGoesOn(n, then) ==
  /\ next' = next + 1
  /\ LET d == Dirent(n, NameLen[n], Stat(n), next + 1)
     IN  buf' = IF Full(buf, plus, NameLen[n]) THEN buf
                ELSE IF plus THEN add_readdir_plus(buf, d) ELSE add_readdir(buf, d)
  /\ pc' = then
  /\ UNCHANGED <<files, plus, kernelVars, ghostVars>>

(* request.add_entry(name, stat, next), and the match on its result.       *)
add_entry(n, then) ==
  /\ next' = next + 1
  /\ IF Full(buf, plus, NameLen[n])
       THEN buf' = buf /\ pc' = "reply"
       ELSE LET d == Dirent(n, NameLen[n], Stat(n), next + 1)
            IN  /\ buf' = IF plus THEN add_readdir_plus(buf, d) ELSE add_readdir(buf, d)
                /\ pc' = then
  /\ UNCHANGED <<files, plus, kernelVars, ghostVars>>

Goto(there) == pc' = there /\ UNCHANGED <<files, next, plus, buf, kernelVars, ghostVars>>

(* for (name, inode) in files.iter().skip(offset) *)
AddFile == pc = "files" /\ next < file_count /\ add_entry(Nth(next), "files")
EndFiles == pc = "files" /\ next >= file_count /\ Goto("dotdot")

(* if next == file_count *)
AddDotDot == pc = "dotdot" /\ next = file_count /\ add_entry(DotDot, "dot")
SkipDotDot == pc = "dotdot" /\ next # file_count /\ Goto("dot")

(* if next == file_count + 1 *)
AddDot == pc = "dot" /\ next = file_count + 1 /\ add_entry(Dot, "reply")
SkipDot == pc = "dot" /\ next # file_count + 1 /\ Goto("reply")

(* reply(): the kernel receives filled_data().  It takes at least one of   *)
(* the entries, as many as the caller of getdents has room for, and goes   *)
(* on behind the last one it took.  No entry at all is the end.            *)
Reply ==
  /\ pc = "reply"
  /\ pc' = "idle"
  /\ LET entries == KernelParse(buf, plus)
     IN  \/ /\ entries = << >>
            /\ ended' = TRUE
            /\ UNCHANGED <<pos, got>>
         \/ \E k \in 1 .. Len(entries) :
              /\ got' = got \o [i \in 1 .. k |-> entries[i].name]
              /\ pos' = entries[k].off
              /\ UNCHANGED ended
  /\ buf' = new(0) /\ next' = 0 /\ plus' = FALSE
  /\ UNCHANGED <<files, ghostVars>>

-----------------------------------------------------------------------------
(* Between two READDIRs: Fs::do_create and Fs::unlink change the files of  *)
(* the directory.  Then the caller may start over.                         *)
MayChange == pc = "idle" /\ ~ended /\ created + removed < MaxChanges

Create(n) ==
  /\ MayChange
  /\ n \notin files
  /\ files' = files \cup {n}
  /\ created' = created + 1
  /\ UNCHANGED <<daemonVars, kernelVars, stable, removed>>

Unlink(n) ==
  /\ MayChange
  /\ n \in files
  /\ files' = files \ {n}
  /\ stable' = stable \ {n}
  /\ removed' = removed + 1
  /\ UNCHANGED <<daemonVars, kernelVars, created>>

Rewind ==
  /\ ended
  /\ pos' = 0 /\ got' = << >> /\ ended' = FALSE
  /\ stable' = files /\ created' = 0 /\ removed' = 0
  /\ UNCHANGED <<files, daemonVars>>

Daemon == AddFile \/ EndFiles \/ AddDotDot \/ SkipDotDot \/ AddDot \/ SkipDot \/ Reply

Next ==
  \/ Readdir \/ Daemon \/ Rewind
  \/ \E n \in Name : Create(n) \/ Unlink(n)

Spec == Init /\ [][Next]_vars

(* The program answers what it is asked, and the caller goes on asking     *)
(* until the end.  Nobody has to change the directory or to start over.    *)
FairSpec == Spec /\ WF_vars(Daemon) /\ WF_vars(Readdir)

-----------------------------------------------------------------------------
(* What the directory holds at each position, and the part of it that      *)
(* begins at an offset.                                                    *)
Listing == [i \in 1 .. file_count + 2 |->
              IF i <= file_count THEN Nth(i - 1)
              ELSE IF i = file_count + 1 THEN DotDot ELSE Dot]

Room(k, p) == \* the bytes that k entries behind position p need
  LET sum[i \in 0 .. k] ==
        IF i = 0 THEN 0
        ELSE sum[i - 1] + (IF plus THEN fuse_direntplus_size(NameLen[Listing[p + i]])
                                   ELSE fuse_dirent_size(NameLen[Listing[p + i]]))
  IN  sum[k]

(* What the kernel reads out of a finished reply is what the directory     *)
(* holds behind the offset it asked for: the right names, inodes, types    *)
(* and offsets in the right order, without a gap, and as many as fit; and  *)
(* nothing is ever filled in past the end of the buffer, where the slice   *)
(* operations of write_dirent would panic.                                 *)
(* (add_readdir, add_readdir_plus, handle_readdir)                         *)
ReplyIsSegment ==
  /\ buf.filled <= buf.size
  /\ pc = "reply" =>
       LET entries == KernelParse(buf, plus)
           k       == Len(entries)
       IN  /\ pos + k <= Len(Listing) \/ k = 0
           /\ \A i \in 1 .. k :
                /\ entries[i].name = Listing[pos + i]
                /\ entries[i].off  = pos + i
                /\ entries[i].ino  = Stat(Listing[pos + i]).ino
                /\ entries[i].typ  = IF IsDir(Listing[pos + i]) THEN 4 ELSE 8
           /\ pos + k < Len(Listing) => Room(k + 1, pos) > buf.size

(* A directory that does not change while it is listed is listed exactly   *)
(* once, in order, with ".." and "." at the end, however the buffer sizes  *)
(* cut the listing into requests.                                          *)
UnchangedListedOnce ==
  ended /\ created = 0 /\ removed = 0 => got = Listing

(* An entry that was there all along can be missed when others are removed *)
(* meanwhile, because offsets are positions; but no more of them than      *)
(* names were removed, and none at all when names were only created.       *)
MissedOnlyByRemoval ==
  ended =>
    Cardinality((stable \cup {DotDot, Dot}) \ {got[i] : i \in DOMAIN got}) <= removed

(* And an entry is seen twice only when names were created meanwhile, no   *)
(* more often than that.                                                   *)
RepeatedOnlyByCreation ==
  Len(got) - Cardinality({got[i] : i \in DOMAIN got}) <= created

(* What a finished or unfinished listing may have missed or repeated.      *)
ListedOnce == UnchangedListedOnce /\ MissedOnlyByRemoval /\ RepeatedOnlyByCreation

(* Every listing comes to its end, whatever happens to the directory       *)
(* meanwhile: the offsets that handle_readdir gives out go up.             *)
ListingEnds == [](~ended => <>ended)
=============================================================================
