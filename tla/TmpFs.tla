------------------------------- MODULE TmpFs -------------------------------
(***************************************************************************)
(* The example file system, examples/tmpfs/fs.rs, with the request loop of *)
(* main.rs: inode slots and their free list, directories, link counts and  *)
(* lookup counts, against the kernel's own count of what it has looked up. *)
(*                                                                         *)
(* handle_fuse works on one request at a time, so an action is a whole     *)
(* handler together with its reply.  The kernel keeps the inodes that a    *)
(* request names pinned while the request is on its way, so the request,   *)
(* its handling and its reply can be one step; FORGETs have no answer and  *)
(* are queued.  File contents are in BlockFile, listings in DirListing.    *)
(***************************************************************************)
EXTENDS Integers, Sequences, FiniteSets, SequencesExt

CONSTANTS
    Name,         \* file names
    MaxInodes,    \* bound on the number of inode slots ever used
    MaxCount,     \* bound on lookup counts
    MaxWrap,      \* bound on how far a lookup count goes below zero
    MaxHandles,   \* bound on the open handles of an inode
    MaxForgets,   \* bound on the FORGETs under way
    MaxBatch,     \* largest count of one FORGET
    Kinds,        \* the requests that come in
    Gone          \* the requests whose reply may find them gone

Root == 1
Inode == Root..MaxInodes

RequestKind ==
    {"Getattr", "Setattr", "Lookup", "Forget", "Readdir", "Mkdir", "Create",
     "Mknod", "Open", "Release", "Unlink", "Rmdir", "Write", "Read"}

ASSUME MaxInodesAssumption == MaxInodes \in Nat \ {0}
ASSUME BoundsAssumption == {MaxCount, MaxWrap, MaxHandles, MaxForgets, MaxBatch} \subseteq Nat
ASSUME KindsAssumption == Kinds \subseteq RequestKind /\ Gone \subseteq Kinds

VARIABLES
    fs,        \* the Fs of fs.rs
    alive,     \* the request loop runs
    nlookup,   \* external: lookups of an inode the kernel has not given back
    handles,   \* external: open file handles of an inode
    forgets,   \* external: FORGETs <<inode, count>> not read yet
    drift      \* history: what handlers have counted that the kernel has not

kernel == <<nlookup, handles, forgets>>
counts == <<kernel, drift>>
vars == <<fs, alive, counts>>

(***************************************************************************)
(* An FsEntry; kind "free" is a slot that is None (or not pushed yet).     *)
(* lookups is an AtomicUsize that may wrap below zero: a negative number   *)
(* stands for the wrapped one, which is larger than every real count.      *)
(* files[n] = 0 means that a directory has no file n.                      *)
(***************************************************************************)
NoFiles == [n \in Name |-> 0]

Entry == [kind : {"free", "file", "dir"}, parent : Inode \cup {0}, lookups : Int,
          links : Int, files : [Name -> Inode \cup {0}]]

Vacant == [kind |-> "free", parent |-> 0, lookups |-> 0, links |-> 0, files |-> NoFiles]

(* free_inodes is a stack, used is the number of slots in the vector.      *)
Fs == [entries : [Inode -> Entry], free : Seq(Inode), used : Inode]

NewEntry(kind, parent, lookups) ==
    [kind |-> kind, parent |-> parent, lookups |-> lookups, links |-> 1, files |-> NoFiles]

new ==
    [entries |-> [i \in Inode |-> IF i = Root THEN NewEntry("dir", Root, 1) ELSE Vacant],
     free |-> <<>>, used |-> 1]

Live(f, i) == f.entries[i].kind # "free"

(***************************************************************************)
(* InodeLookup::new and increment_lookup count a lookup; forget_entry      *)
(* gives some back and deletes the entry if it was the last one and no     *)
(* name is left.  It compares the count before the subtraction with 1.     *)
(* Dir::on_drop has nothing to do: RemovedDirsAreEmpty.                    *)
(***************************************************************************)
Acquire(f, i) == [f EXCEPT !.entries[i].lookups = @ + 1]

Delete(f, i) ==
    [f EXCEPT !.entries[i] = Vacant, !.free = Append(@, i)]

(* Mutant of forget_entry: the comparison is off by one, an entry with one *)
(* lookup left is deleted.                                                 *)
ForgetEntryTooEarly(f, i, n) ==
    LET g == [f EXCEPT !.entries[i].lookups = @ - n]
    IN  IF f.entries[i].lookups \notin {0, 1, 2} \/ g.entries[i].links # 0
        THEN g ELSE Delete(g, i)

(* Mutant of forget_entry: it only deletes what had no lookup at all.      *)
ForgetEntryTooLate(f, i, n) ==
    LET g == [f EXCEPT !.entries[i].lookups = @ - n]
    IN  IF f.entries[i].lookups # 0 \/ g.entries[i].links # 0 THEN g ELSE Delete(g, i)

forget_entry(f, i, n) ==
    LET g == [f EXCEPT !.entries[i].lookups = @ - n]
    IN  IF f.entries[i].lookups \notin {0, 1} \/ g.entries[i].links # 0
        THEN g ELSE Delete(g, i)

(* An InodeLookup that is taken and dropped again within a handler.        *)
Touch(f, i) == IF Live(f, i) THEN forget_entry(Acquire(f, i), i, 1) ELSE f

(* The same for some inodes, one after the other: those that had nothing   *)
(* but this lookup are deleted.                                            *)
TouchEach(f, inodes) ==
    LET gone == {j \in inodes : Live(f, j) /\ ~Live(Touch(f, j), j)}
    IN  [f EXCEPT !.entries = [j \in Inode |-> IF j \in gone THEN Vacant ELSE @[j]],
                  !.free = @ \o SetToSeq(gone)]

(* What a name refers to, 0 if lookup_at fails.                            *)
Child(f, p, n) == IF f.entries[p].kind = "dir" THEN f.entries[p].files[n] ELSE 0

(***************************************************************************)
(* do_create: the slot it takes, whether it succeeds, and what it leaves,  *)
(* including the lookup of the InodeLookup it returns.                     *)
(***************************************************************************)
NextSlot(f) == IF f.free # <<>> THEN Last(f.free) ELSE f.used + 1

Creatable(f, p, n) == f.entries[p].kind = "dir" /\ f.entries[p].files[n] = 0

(* Mutant of do_create: a slot taken from the free list stays on it.       *)
DoCreateKeepsFree(f, p, n, kind) ==
    LET i == NextSlot(f)
    IN  Touch([f EXCEPT !.used = IF f.free # <<>> THEN @ ELSE i,
                        !.entries = [@ EXCEPT ![i] = NewEntry(kind, p, 1),
                                              ![p].files[n] = i]], p)

do_create(f, p, n, kind) ==
    LET i == NextSlot(f)
    IN  Touch([f EXCEPT !.free = IF @ # <<>> THEN Front(@) ELSE @,
                        !.used = IF f.free # <<>> THEN @ ELSE i,
                        !.entries = [@ EXCEPT ![i] = NewEntry(kind, p, 1),
                                              ![p].files[n] = i]], p)

(***************************************************************************)
(* unlink, also for rmdir: which names can be removed, and what is left.   *)
(***************************************************************************)
Empty(f, i) == f.entries[i].files = NoFiles

Removable(f, p, n, is_rmdir) ==
    LET i == Child(f, p, n)
    IN  i # 0 /\ IF is_rmdir THEN f.entries[i].kind = "dir" /\ Empty(f, i)
                 ELSE f.entries[i].kind = "file"

(* Mutant of unlink: the name is put back, as in the error paths.          *)
UnlinkPutsBack(f, p, n) ==
    LET i == Child(f, p, n)
    IN  Touch(forget_entry([f EXCEPT !.entries[i].links = @ - 1,
                                     !.entries[i].lookups = @ + 1], i, 1), p)

unlink(f, p, n) ==
    LET i == Child(f, p, n)
        emptied == [f.entries[p] EXCEPT !.files[n] = 0]
        removed == [f.entries[i] EXCEPT !.links = f.entries[i].links - 1,
                                        !.lookups = f.entries[i].lookups + 1]
        g == [f EXCEPT !.entries = [@ EXCEPT ![p] = emptied, ![i] = removed]]
    IN  Touch(forget_entry(g, i, 1), p)

(***************************************************************************)
(* The kernel (external).  It names inodes it has looked up, it does not   *)
(* work in a directory that it removed itself, and it does not release the *)
(* inode of an open file.  A reply finds the request waiting, or gone.     *)
(***************************************************************************)
Init ==
    /\ fs = new
    /\ alive = TRUE
    /\ nlookup = [i \in Inode |-> 0]
    /\ handles = [i \in Inode |-> 0]
    /\ forgets = <<>>
    /\ drift = [i \in Inode |-> 0]

Known(i) == i = Root \/ nlookup[i] > 0

Dead(i) == fs.entries[i].kind = "dir" /\ fs.entries[i].links = 0

Outcome(kind) == {"ok"} \cup IF kind \in Gone THEN {"gone"} ELSE {}

Incoming(kind, i, o) ==
    /\ alive
    /\ kind \in Kinds
    /\ o \in Outcome(kind)
    /\ Known(i)

(* The bounds on the counters, in the guards of what moves them.           *)
CanCount(i) == fs.entries[i].lookups < MaxCount /\ nlookup[i] < MaxCount

CanForget(i, n) == fs.entries[i].lookups - n >= -MaxWrap

(* request.reply()? and request.io_fail()? end the loop if they fail.      *)
ReplyOrEnd(o) == alive' = (o = "ok")

(* handle_reply_err: Cancelled is not an error.                            *)
ReplyOrGoOn == alive' = TRUE

KernelLearns(i, o) ==
    nlookup' = IF o = "ok" THEN [nlookup EXCEPT ![i] = @ + 1] ELSE nlookup

KernelOpens(i, o) ==
    handles' = IF o = "ok" THEN [handles EXCEPT ![i] = @ + 1] ELSE handles

(* The lookups of an inode that the FORGETs under way give back.           *)
PendingForgets(i) ==
    Cardinality({kx \in (1..Len(forgets)) \X (1..MaxBatch) :
                    forgets[kx[1]][1] = i /\ kx[2] <= forgets[kx[1]][2]})

KernelCount(i) == nlookup[i] + PendingForgets(i) + IF i = Root THEN 1 ELSE 0

(* A handler counts a lookup more, or less, than the kernel does.          *)
Miscount(i, n) == drift' = IF Live(fs, i) THEN [drift EXCEPT ![i] = @ + n] ELSE drift

(* A slot that is taken starts without a lookup; the kernel may still have *)
(* some of an inode that had the slot before.                              *)
CountAnew(i) == drift' = [drift EXCEPT ![i] = -KernelCount(i)]

(***************************************************************************)
(* The handlers of handle_fuse.                                            *)
(***************************************************************************)
(* node.leak() counts a lookup of which the kernel does not hear, so only  *)
(* the daemon's count is bounded here.                                     *)
Getattr(i, o) ==
    /\ Incoming("Getattr", i, o)
    /\ fs.entries[i].lookups < MaxCount
    /\ fs' = IF Live(fs, i) THEN Acquire(fs, i) ELSE fs
    /\ Miscount(i, 1)
    /\ ReplyOrEnd(o)
    /\ UNCHANGED kernel

(* Handlers that look an inode up, work on it and let go of it.            *)
Passing(kind, i, o) ==
    /\ Incoming(kind, i, o)
    /\ fs' = Touch(fs, i)
    /\ ReplyOrEnd(o)
    /\ UNCHANGED counts

Setattr(i, o) == Passing("Setattr", i, o)

Read(i, o) == handles[i] > 0 /\ Passing("Read", i, o)

Write(i, o) == handles[i] > 0 /\ Passing("Write", i, o)

(* handle_readdir also looks up the children and the parent of a directory, *)
(* from the offset on and until the buffer is full.  Root is its own parent. *)
Listed(i) ==
    IF fs.entries[i].kind = "dir"
    THEN ({fs.entries[i].files[n] : n \in Name} \cup {fs.entries[i].parent}) \ {0, i}
    ELSE {}

Readdir(i, o) ==
    /\ ~Dead(i)
    /\ Incoming("Readdir", i, o)
    /\ \E seen \in SUBSET Listed(i) : fs' = Touch(TouchEach(fs, seen), i)
    /\ ReplyOrEnd(o)
    /\ UNCHANGED counts

(* The lookup is leaked before the reply, which may find no one waiting.   *)
LookupFound(p, n, o) ==
    /\ Incoming("Lookup", p, o)
    /\ LET i == Child(fs, p, n)
       IN  /\ i # 0 /\ Live(fs, i)
           /\ CanCount(i)
           /\ fs' = Touch(Acquire(fs, i), p)
           /\ KernelLearns(i, o)
           /\ Miscount(i, IF o = "ok" THEN 0 ELSE 1)
    /\ ReplyOrGoOn
    /\ UNCHANGED <<handles, forgets>>

LookupFails(p, n, o) ==
    /\ Incoming("Lookup", p, o)
    /\ LET i == Child(fs, p, n) IN i # 0 => ~Live(fs, i)
    /\ fs' = Touch(fs, p)
    /\ ReplyOrEnd(o)
    /\ UNCHANGED counts

Creates(kind, p, n, o) ==
    /\ Incoming(kind, p, o)
    /\ ~Dead(p)
    /\ Creatable(fs, p, n)
    /\ NextSlot(fs) \in Inode
    /\ nlookup[NextSlot(fs)] < MaxCount
    /\ handles[NextSlot(fs)] < MaxHandles
    /\ CountAnew(NextSlot(fs))

(* Mkdir and Mknod leak the InodeLookup for the kernel, then reply.        *)
Mkdir(p, n, o) ==
    /\ Creates("Mkdir", p, n, o)
    /\ fs' = do_create(fs, p, n, "dir")
    /\ KernelLearns(NextSlot(fs), o)
    /\ ReplyOrEnd(o)
    /\ UNCHANGED <<handles, forgets>>

Mknod(p, n, o) ==
    /\ Creates("Mknod", p, n, o)
    /\ fs' = do_create(fs, p, n, "file")
    /\ KernelLearns(NextSlot(fs), o)
    /\ ReplyOrEnd(o)
    /\ UNCHANGED <<handles, forgets>>

(* Mutant of Create: the count is taken before the reply and stays.        *)
CreateLeaks(p, n, o) ==
    /\ Creates("Create", p, n, o)
    /\ fs' = do_create(fs, p, n, "file")
    /\ KernelLearns(NextSlot(fs), o)
    /\ KernelOpens(NextSlot(fs), o)
    /\ ReplyOrGoOn
    /\ UNCHANGED forgets

(* Create counts the kernel's lookup only after a reply that arrived.      *)
Create(p, n, o) ==
    /\ Creates("Create", p, n, o)
    /\ LET i == NextSlot(fs)
           f == do_create(fs, p, n, "file")
       IN  /\ fs' = forget_entry(IF o = "ok" THEN Acquire(f, i) ELSE f, i, 1)
           /\ KernelLearns(i, o)
           /\ KernelOpens(i, o)
    /\ ReplyOrGoOn
    /\ UNCHANGED forgets

(* EEXIST, ENOTDIR or ENOENT from do_create.                               *)
CreateFails(kind, p, n, o) ==
    /\ Incoming(kind, p, o)
    /\ ~Dead(p)
    /\ ~Creatable(fs, p, n)
    /\ fs' = Touch(fs, p)
    /\ ReplyOrEnd(o)
    /\ UNCHANGED counts

Open(i, o) ==
    /\ Incoming("Open", i, o)
    /\ fs.entries[i].kind = "file"
    /\ handles[i] < MaxHandles
    /\ fs' = Touch(fs, i)
    /\ KernelOpens(i, o)
    /\ ReplyOrGoOn
    /\ UNCHANGED <<nlookup, forgets, drift>>

OpenFails(i, o) ==
    /\ Incoming("Open", i, o)
    /\ ~Live(fs, i)
    /\ ReplyOrEnd(o)
    /\ UNCHANGED <<fs, counts>>

(* Release gives back a lookup that Open did not take.                     *)
Release(i, o) ==
    /\ Incoming("Release", i, o)
    /\ handles[i] > 0
    /\ CanForget(i, 1)
    /\ fs' = IF Live(fs, i) THEN forget_entry(fs, i, 1) ELSE fs
    /\ Miscount(i, -1)
    /\ handles' = [handles EXCEPT ![i] = @ - 1]
    /\ ReplyOrEnd(o)
    /\ UNCHANGED <<nlookup, forgets>>

Unlinks(kind, p, n, o) ==
    /\ Incoming(kind, p, o)
    /\ fs' = IF Removable(fs, p, n, kind = "Rmdir") THEN unlink(fs, p, n)
             ELSE LET i == Child(fs, p, n)
                  IN  Touch(IF i = 0 THEN fs ELSE Touch(fs, i), p)
    /\ ReplyOrEnd(o)
    /\ UNCHANGED counts

Unlink(p, n, o) == Unlinks("Unlink", p, n, o)

Rmdir(p, n, o) == Unlinks("Rmdir", p, n, o)

(* forget; an inode that is not there is only reported.                    *)
Forget ==
    /\ alive
    /\ forgets # <<>>
    /\ LET i == Head(forgets)[1]
           n == Head(forgets)[2]
       IN  /\ CanForget(i, n)
           /\ fs' = IF Live(fs, i) THEN forget_entry(fs, i, n) ELSE fs
    /\ forgets' = Tail(forgets)
    /\ UNCHANGED <<alive, nlookup, handles, drift>>

(* The kernel gives back n lookups of an inode.                            *)
KernelForget(i, n) ==
    /\ alive
    /\ "Forget" \in Kinds
    /\ i # Root
    /\ n <= nlookup[i]
    /\ n = nlookup[i] => handles[i] = 0
    /\ Len(forgets) < MaxForgets
    /\ nlookup' = [nlookup EXCEPT ![i] = @ - n]
    /\ forgets' = Append(forgets, <<i, n>>)
    /\ UNCHANGED <<fs, alive, handles, drift>>

OnInode ==
    \E i \in Inode, o \in {"ok", "gone"} :
        \/ Getattr(i, o)
        \/ Setattr(i, o)
        \/ Read(i, o)
        \/ Write(i, o)
        \/ Readdir(i, o)
        \/ Open(i, o)
        \/ OpenFails(i, o)
        \/ Release(i, o)

OnName ==
    \E p \in Inode, n \in Name, o \in {"ok", "gone"} :
        \/ LookupFound(p, n, o)
        \/ LookupFails(p, n, o)
        \/ Mkdir(p, n, o)
        \/ Mknod(p, n, o)
        \/ Create(p, n, o)
        \/ \E kind \in {"Mkdir", "Mknod", "Create"} : CreateFails(kind, p, n, o)
        \/ Unlink(p, n, o)
        \/ Rmdir(p, n, o)

Next ==
    \/ OnInode
    \/ OnName
    \/ Forget
    \/ \E i \in Inode, n \in 1..MaxBatch : KernelForget(i, n)

Spec == Init /\ [][Next]_vars

(***************************************************************************)
(* Properties.                                                             *)
(***************************************************************************)
(* The state has its type: slots of entries, counts, a stack of free ones. *)
TypeOK ==
    /\ fs \in Fs
    /\ alive \in BOOLEAN
    /\ nlookup \in [Inode -> Nat]
    /\ handles \in [Inode -> Nat]
    /\ forgets \in Seq(Inode \X Nat)
    /\ drift \in [Inode -> Int]

Names(i) == {pn \in Inode \X Name : fs.entries[pn[1]].files[pn[2]] = i}

(***************************************************************************)
(* do_create and unlink change a directory, the slots, the free list and   *)
(* the link counts in separate steps, forget_entry runs inside them and    *)
(* slots are used again.  For all traffic, also with wrong lookup counts:  *)
(* an inode has exactly as many names as its link count says, each of them *)
(* in the directory it calls its parent, and a name refers to an inode     *)
(* that is there.                                                          *)
(***************************************************************************)
NamesMatchLinks ==
    \A i \in Inode :
        /\ i # Root => Cardinality(Names(i)) = fs.entries[i].links
        /\ \A pn \in Names(i) : Live(fs, i) /\ fs.entries[i].parent = pn[1]

(***************************************************************************)
(* free_inodes: each slot is used by an entry or free, never both, no slot *)
(* is on the list twice, and no slot is lost, whatever forget_entry,       *)
(* Release and do_create do to the lookup counts.                          *)
(***************************************************************************)
SlotsAccounted ==
    /\ \A a, b \in DOMAIN fs.free : a # b => fs.free[a] # fs.free[b]
    /\ \A i \in Inode :
          Live(fs, i) <=> i <= fs.used /\ \A a \in DOMAIN fs.free : fs.free[a] # i

(***************************************************************************)
(* unlink removes only empty directories and the kernel does not create in *)
(* a removed one, so Dir::on_drop finds nothing when the inode goes away   *)
(* later, and no inode loses its last name without being noticed.          *)
(***************************************************************************)
RemovedDirsAreEmpty == \A i \in Inode : Dead(i) => Empty(fs, i)

(* What holds of the names in the file system at any time.                 *)
FsConsistent == TypeOK /\ NamesMatchLinks /\ RemovedDirsAreEmpty

(***************************************************************************)
(* Lookup counts.  "The inode is already known, so no changes to the       *)
(* lookup count occur" (Getattr, requests.rs): a count that the kernel     *)
(* does not have does not come back with a FORGET.  The program does not   *)
(* keep to it; a run shows the counterexample.                             *)
(***************************************************************************)
LookupsAgree ==
    alive => \A i \in Inode : Live(fs, i) => fs.entries[i].lookups = KernelCount(i)

(***************************************************************************)
(* What the program does keep to, for all requests: the kernel's count and *)
(* the program's differ exactly by the GETATTRs answered, the LOOKUPs that *)
(* found their caller gone and the RELEASEs since the slot was taken.      *)
(* Whatever else happens, over files created for nobody, removed while the *)
(* kernel holds them, listed, forgotten in batches and numbers used again, *)
(* no lookup is counted that the kernel did not get and none is lost.      *)
(***************************************************************************)
CountsExplained ==
    alive => \A i \in Inode :
        Live(fs, i) => fs.entries[i].lookups = KernelCount(i) + drift[i]

(***************************************************************************)
(* An inode number is given up, and can be used for another file, while    *)
(* the kernel holds a lookup or an open handle of it, only after more      *)
(* RELEASEs than lookups that were counted in excess.                      *)
(***************************************************************************)
NoEarlyFree ==
    [][\A i \in Inode : Live(fs, i) /\ ~Live(fs', i) =>
            drift'[i] < 0 \/ (nlookup[i] = 0 /\ handles[i] = 0)]_vars

(* An inode without a name of which the kernel holds no lookup any more.   *)
Abandoned(i) == Live(fs, i) /\ fs.entries[i].links = 0 /\ KernelCount(i) = 0

(* The step is a FORGET of several lookups of i.                           *)
ForgetsMany(i) ==
    /\ forgets # <<>> /\ forgets' = Tail(forgets)
    /\ Head(forgets)[1] = i /\ Head(forgets)[2] > 1

(***************************************************************************)
(* An inode that lost its last name and its last lookup, in either order,  *)
(* is deleted in the same step, unless the last lookups came back in one   *)
(* FORGET of several (forget_entry looks at the count before it subtracts) *)
(* or the count was off.                                                   *)
(***************************************************************************)
UnlinkedIsFreed ==
    [][\A i \in Inode : alive' /\ ~Abandoned(i) /\ Abandoned(i)' =>
            drift'[i] # 0 \/ ForgetsMany(i)]_vars
=============================================================================
