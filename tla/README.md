# A verification project for proxmox-fuse-rs

`proxmox-fuse` is a Rust library for FUSE daemons on tokio. A program builds a
session, mounts it, and gets a `Stream` of requests; each request owns the duty
to answer the kernel exactly once. This directory holds TLA+ models of that
library, the TLC configurations that check them on small instances, and proofs
that TLAPS checks for every instance.

Paths below are relative to the repository (`src/session.rs` etc.); in
`PROJECT.json` they carry a further leading `src/`.

## Inventory of the system

| Component | State it keeps | Operations | Modelled in |
|---|---|---|---|
| Requests (`src/requests.rs`) | per request: a `RequestGuard` = (`unique`, `Arc<OwnedFd>`); `unique = 0` means disarmed; the payload of a listing | 22 request types: `reply*`, `fail`, `Drop`; `send_reply`, `send_reply_vectored`, `cancellable`; the builders of listings, the `Setattr` accessors | `FuseRequests`; `DirListing`, `XattrList`, `Attributes` |
| Session (`src/session.rs`) | `EnabledOps`, `init_done`, `finished`, `pending`, the read buffer `Arc<Vec<u8>>`, `AsyncFd`, the watcher's `JoinHandle` | `enable_*`, `mount`, `mount_async`, `poll_next`, `process_request`, `handle_init`, `negotiate_init`, `read_body`, `is_terminated`, `Drop` | `FuseSession`; `Negotiation`, `WireFormat`, `FuseMount` |
| Wire protocol (`src/protocol.rs`) | none: structs and pure functions | `Opcode::from_u32`, names, dirent sizes, `split_timeout`, stat conversions | `FuseSession`, `WireFormat`, `ReplyBuf`, `Attributes` |
| Reply buffer (`src/sys.rs`) | a fixed buffer and the number of bytes filled | `add_readdir`, `add_readdir_plus` | `ReplyBuf`, used by `DirListing` |
| Mounting (`src/mount.rs`) | the kernel's mount table, a descriptor in transit | `fuse_mount` (direct, or `fusermount3` with `SCM_RIGHTS`), `umount2_detach`, helper unmount | `FuseMount` |
| tmpfs example (`examples/tmpfs/fs.rs`, `main.rs`) | inodes, lookup counts, directories, link counts, the free list | lookup, forget, create, unlink, read, write, readdir, setattr, the request loop | `TmpFs`; `DirListing`, `Attributes`, `BlockFile` |
| BlockFile (`examples/tmpfs/block_file.rs`) | extents | `read`, `write`, `truncate`, `size` | `BlockFile`, against `SparseFile` |
| File info flags, helpers, crate root, mount test | none | | not modelled, see below |

How they interact. `Fuse::poll_next` (polled by the consumer's task) reads one
message from `/dev/fuse` and `process_request` turns it into `Request`s in
`pending`, each with a guard that shares the session's descriptor. The consumer
takes requests from the stream and may answer them from any task or thread, also
after the stream is gone. A separate tokio task (the *watcher*) waits for
`POLLERR` on the same `AsyncFd`, because a connection that goes down makes the
descriptor raise an error event and not a read event; `poll_next` polls its
`JoinHandle`. `Write` requests refer to the session's read buffer.

What is hard here, and what has to be true:

* **Requests.** Replies of different requests, the end of the stream, the
  kernel's cancellations and the reuse of the descriptor number interleave.
  Correct means: at most one message per request once it is answered, none for
  a FORGET, none forgotten while somebody waits, a returned `Ok`/`Cancelled`/
  error that agrees with what the requester saw, a descriptor that is open as
  long as it is needed.
* **Session.** The stream sleeps on two wakers; readiness is edge-triggered and
  cleared on `EAGAIN`; one message may become several requests over several
  polls; errors return early with a guard in scope. Correct means: each message
  becomes exactly its requests, no wake-up is lost, the stream ends when the
  connection does and then stays ended, and data lent to a `Write` is not
  overwritten.
* **Wire.** The kernel's largest message follows from the answer to INIT; bodies
  may be cut anywhere. Correct means: every message fits, a whole one is
  understood as meant, a cut one yields nothing that was not in it.
* **Replies with content.** A listing is cut into requests by buffer sizes while
  the directory changes; an xattr list is asked for with a size that may be out
  of date; attributes change width and sign four times. Correct means: nothing is
  skipped, repeated or invented beyond what the changes account for.
* **Mounting.** Any of several steps may fail after the kernel mount exists, the
  caller may give up, others may mount on the same path. Correct means: nobody
  hangs on a mount without a daemon, and a dropped session is unmounted.
* **tmpfs.** Lookup counts follow the kernel's over many requests, inode numbers
  are reused. Correct means: names, links, slots and the free list agree, and an
  inode is freed when, and only when, nobody refers to it.
* **BlockFile.** Extents have to read back like a sparse file.

The hazards, each at its line and with the properties aimed at it, are listed
in `PROJECT.json`.

## Modules

### FuseRequests: what becomes of a request

One request `u` moves through `pc[u]`:

```
idle -> held -> replying -> spent -> done      reply_ok: write, disarm, drop
                    \-> dropping -> spent      write failed: Drop sends ENOSYS
        held -> dropping -> spent -> done      dropped, or argument refused
        held -> bare -> done                   reply_err, Create::reply,
                                               Read::reply_vectored: disarm, write
        held -> spent -> done                  Forget
```

There is one action per `reply` method, in the order of the source, and `Fail`,
`DropRequest`, `ForgetDrop`, `ReaddirDrop`; several are alike because the code
is. The `writev` is a step of its own (`SendGuarded`, `SendEnosys`, `SendBare`),
and so is the end of the guard, where `Arc<OwnedFd>` is dropped
(`ReleaseGuard`; inside `DisarmThenSend` for the disarm-first replies). Messages
are abstracted to what tells them apart: `data`, `vectored`, `errno` are the
consumer's, `ERANGE`, `EIO`, `ENOSYS` the library's. Whether an argument is
refused (`Reject`, `ERANGE`) is a free choice, as the consumer chooses it.

External, modelled from how the code uses it: the kernel answers a `writev` by
taking the message, with `ENOENT` if the request is gone or the connection down
(`requests.rs:152`), or, if `WriteErrors`, with another error that leaves the
request waiting or ends it with `EIO`. On a number that is no longer the device
the write fails, or ends in whatever file has that number now. Closing the last
reference aborts the connection.

### ReplyContract, FuseRequestsRefine: what requests.rs promises

`ReplyContract` has two functions only, what the requester got and what the
consumer was told, and lets them change together. `FuseRequestsRefine` maps
`FuseRequests` to it; `ImplementsContract` says the mapped behaviour is one of the
contract's. A reply that misses the device (`stray`) is mapped to an error, and
`StrayOnlyAtTeardown` says when that can be.

### FuseSession: builder and stream

`poll_next` is cut at every point where another actor can act: after the head of
the loop (`PopPending`, `ReturnFinished`, `PollWatcher`), after
`poll_read_ready` (`PollReadReady`), after `read(2)` (`ReadMessage`,
`ReadWouldBlock`, `ReadGone`, `ReadError`), and after `process_request`. The
last is one action per kind of arm: the table of `Opcode::X if self.ops.y` arms
is data (`LookupArms` ... `XattrArms`, `VariantOf`) and `ProcessEnabled` is what
these arms share; `Destroy`, `Forget`, `BatchForget`, `INIT` and the fall-through
have actions of their own. A message is its opcode, a shape (whole, header too
short, length mismatch, body cut, ...) and, for BATCH_FORGET, a number of entries.

The buffers are numbered. `buf` is the one the `Fuse` refers to, `home[u]` the one
in which the data of a live `Write` lies, `arcs` the `Write`s that hold a clone of
its `Arc`. `TakeBuffer` is `Arc::get_mut`: the buffer is replaced if somebody else
holds a clone, and used again if not. A read overwrites whatever data lies in the
buffer taken for it (`clobbered`), whether or not there is an `Arc` that says so;
that is what `KeepBuffer` (`Write::new` with `Arc::clone`) has to prevent.

tokio and the kernel are external: `edge` is a pending epoll event, `React` the
reactor that turns it into `readiness` and wakes the read waker on `EPOLLIN`
only, `fresh` the tick that keeps `clear_ready` from clearing a newer event,
`joiner` the waker of the `JoinHandle`. The kernel is over-approximated: any
message at any time, also before INIT; queued requests may be withdrawn.

Left out, because no behaviour within the model depends on it: tokio's
cooperative budget (it only adds spurious wake-ups), errors of
`poll_read_ready` at reactor shutdown, and the `else` arms of `self.ops.forget`
(`builder()` sets it and nothing clears it). A failing `mount()` is in
`FuseMount`, the bodies of the messages are in `WireFormat`.

### Negotiation and WireFormat: INIT and the messages after it

`Negotiation` has the kernel's offer (version, capabilities), the page size and
the enabled operations, and `negotiate_init` as one action. What the kernel then
sends is external: a `WRITE` is bounded by `max_write`, `max_pages` and
`BIG_WRITES`, a `READDIRPLUS` by what was agreed. `WireFormat` extends it with
the bodies: cells, one per byte, with the real sizes of the structures, so that
offsets, bounds and terminating zeros are what they are in the code. The kernel
composes a body, `Cut` may take any part of its end, and each `Process*` action
is an arm of `process_request` with `read_body`, `name_after`,
`two_names_after`, `name_from_bytes`. Contents other than names, ids and data do
not occur: `FuseSession` decides what a message becomes, this module what is read
out of it.

### ReplyBuf and DirListing: directory listings

`ReplyBuf` has the entry sizes with their alignment, `Full`, `add_readdir` and
`add_readdir_plus` as operators on a buffer of placed entries, and the kernel's
parser (external). `DirListing` runs `handle_readdir` entry by entry: files, then
`..`, then `.`, from the offset of the request. Between two requests files are
created and unlinked. The tmpfs loop serves `Readdir` only; a `ReaddirPlus` is
served by the same loop with `ReaddirPlus::add_entry`, as a program written after
it would. `SizesAssumption` says that a request has room for any one entry; the
kernel asks for a page at least.

### XattrList: listing extended attributes

`ListXAttrSize`, then `ListXAttr` with that size, then again after `ERANGE`, while
the attributes change. `add`, `add_c_string`, `set_raw_reply`, `reply`,
`reply_raw` and `fail_full` are actions on the bytes of the reply. The file
system that calls them is not in the repository; it follows the documentation of
`add`. `GetXAttr` has no builder; its replies are in `FuseRequests`.

### Attributes: SETATTR and the reply to it

A message of any flags and values goes through `to_stat`, the accessors of
`Setattr` with `duration_from_c`, `handle_setattr` and `from_stat`, and the
timeout through `split_timeout`. Widths are constants: `I64Half` stands for
2^63 and `U32Max` for 2^32 - 1, with the same wrap-around and saturation whatever
their values; the run uses small ones, with a nanosecond field that can hold
more than a second.

### FuseMount: mounting and unmounting

`mount()` is cut at each system call; each may fail (`Faults`), and an early
return drops the descriptors it owns. The mounts on the path are a stack. `priv`
decides between the direct mount and `fusermount3`, which is external: it mounts,
sends the descriptor through the socket, exits, or fails at any point.
`mount_async` is `mount()` plus a caller that may go away (`CancelCaller`).
`Fuse::drop` detaches what the path names or, on `EPERM`, starts a thread that
runs `fusermount3 -u`. Other processes mount and unmount there, and the process
may exit. `busy` is an environment in which unmounting may fail.

The device stays open as long as anything refers to it: `fd` (mount() and then the
`Fuse`), the watcher's task with its clone of the `Arc<AsyncFd>` (`watcher`), the
`RequestGuard`s of requests that are out (`guards`), the helper, a message in the
socket. `Fuse::drop` gives up the first and aborts the second; the runtime drops an
aborted task later (`WatcherEnds`), and the requests go when the consumer is done
with them (`SettleRequest`).

### TmpFs: the example file system

`fs` is the `Fs` of `fs.rs`: entries with kind, parent, lookup count, link count
and names, the free list, the number of slots. Each arm of `handle_fuse` is one
action together with its reply; the reply finds the request waiting or gone, and
ends the loop where the code uses `?`. The kernel's count of lookups, its open
files and the FORGETs under way are external state, so that both sides' counts
can be compared. `drift` is a history variable: what each inode's count was changed
by in the three handlers that count without the kernel (`Miscount` in a GETATTR, in
a LOOKUP whose caller is gone, in a RELEASE) since its slot was taken (`CountAnew`).
A lookup count that wraps below zero is a negative number.
`InodeLookup` values that live only inside a handler are `Touch`: they count up
and down again, which may free the entry; a READDIR does so with its parent and
with each entry that it lists (`Listed`, `TouchEach`). `Dir::on_drop` has nothing to do, by
`RemovedDirsAreEmpty`.

### BlockFile and SparseFile: file contents

`extents` is the vector; `write` has one action for each way through a call, and
`todo` holds the calls still to come, because it calls itself. Offsets are
rounded to `block_mask + 1`, which is twice the block size. The bisection of
`search_extent` and the loop of `read` over the extents are recursive functions.
Panics (an underflow, a slice out of range) are a state. `SparseFile` is the abstract specification: a
vector of bytes, a write that is accepted and then put into it in parts, a cut.
A program may write anything anywhere, so the vector may be out of order, have
several extents and be too short for the size in the stat. Where the code does not
keep to `SparseFile` (see Findings), the properties say what it does keep to:
`InOrder` vectors are read and written correctly, `Spoilt` names the one exception.
A file comes to several extents in order by a write below the first extent and one
that then grows over it (`WriteMerge`). Of the code, the early
return at line 214 cannot be reached, and `truncate` has no caller.

### MC modules

Instances for TLC: the sets of variants, messages, programs, names and faults
that the configurations name, the constraints and the symmetry sets. `MCListings`
and `MCConversions` put two components that share no state into one run: each is
explored while the other is at rest, with its own fairness.

### Proof modules

`FuseRequestsProofs` (with the refinement of `FuseRequestsRefine`),
`FuseSessionProofs`, `FuseMountProofs`, `TmpFsProofs`, `WireFormatProofs` (with
`Negotiation`), `AttributesProofs`, `ListingProofs` (`DirListing` and `XattrList`),
`BlockFileProofs`: the theorems and their proofs, see "What is proved".

## Runs

| Run | Instance | Shows |
|---|---|---|
| `requests` | 2 requests, all 22 types, write errors, fair | `TypeOK`, `FdLifetime`, `ResultTruthful`, `NoSilentDrop`, `SingleReply`, `StrayOnlyAtTeardown`, `LetGoIsSettled`, the refinement `ImplementsContract` |
| `requests_stray_reply` | 1 request | violation: `RepliesReachDevice` |
| `session_safety` | 3 messages of 6 kinds, 1 I/O error | `TypeOK`, `DeliveredExactlyOnce`, `TerminatedIsTrue`, `OnlyForgetsLeftBehind`, `WriteDataIntact`, `JoinHandleNotRepolled`, `NoLostWakeup` |
| `session_wire` | 2 messages, every opcode, malformed ones too, 2 programs, 1 I/O error, fair | `NothingUnaccounted`, `UnmountEndsStream`, `QueuedIsRead` |
| `session_forget_reply` | 2 messages | violation: `NoReplyToForget` |
| `conversions` | 384 negotiations, names of 1 to 3 bytes, 0 to 3 entries or bytes, every cut; 4-bit words, 2 SETATTRs of up to 3 flags | `AgreementIsKept` (messages fit, writes are full, READDIRPLUS is served), `BodiesUnderstood` (a whole body is, a cut one yields nothing new), `CompleteForgetsCount`; `ReplyIsRight` (what was set, one moment for both times, the validity asked for), `OthersUntouched` |
| `listings` | 4 names, 2 + 2 buffer sizes, 3 changes; 3 attributes, 3 changes, fair | `ReplyIsSegment`, `ListedOnce` (what is missed or repeated is due to a change), `ListingEnds`; `AnswerIsComplete` (and fits), `CallerGetsList` |
| `mount` | 3 mounts on the path, 2 requests out, every fault, exit, fair | `MountSafety` (types, `NobodyWaits`, `MountedOnce`), `MountReturns`, `DropReleases`, `DropUnmounts` |
| `tmpfs` | 3 inodes, 2 names, all requests, counts up to 2, FORGETs of 1 and 2, cancelled replies | `FsConsistent` (types, `NamesMatchLinks`, `RemovedDirsAreEmpty`), `SlotsAccounted`, `CountsExplained`, `NoEarlyFree`, `UnlinkedIsFreed` |
| `tmpfs_lookup_counts` | 2 inodes | violation: `LookupsAgree` |
| `blockfile` | extents of 6 bytes, writes of 1 to 3 and of 7 bytes at offsets to 4, cuts, a size change | `ReadsAreSlices`, `ExtentsWithinLimits`, `WritesLandInPlace` |
| `blockfile_sparse` | the same | violation: the refinement `ImplementsSparseFile` |

A property that says several things is a conjunction of named parts. Every property
also has a mutant in `PROJECT.json`: a plausible slip in the code (a waker not registered, a guard not
disarmed, a flag not set) that makes TLC find it violated.

**Bounds.** *Requests* only interact through the descriptor's reference count, the
connection and the number's reuse, so two requests show every interaction (one
that is last, one that is not). The first may be of any type; the second is of
one of 6 types, one for each way of ending a request (`SecondIsRepresentative`;
the two may arrive in either order). In the *session* three messages are needed:
INIT, one that leaves something behind (a `Write` or a batch of two Forgets), and
one read over it; `session_wire` needs any message before or after an INIT or a
`Write` (`SecondIsCommon`). `MaxFaults` bounds I/O errors on a live device; one
is enough to return early at any point. *Wire*: three entries or bytes have a
first, an inner and a last one, and every cut position in front of, inside and
behind each is tried; the flags left out of `MCOffers` decide nothing about
messages. *Listing*: the entry sizes differ so that a shorter entry fits where a
longer one did not, which is how a gap could arise; three changes are enough to
remove and create on both sides of the position. *Attributes*: the values lie on
either side of each edge of each width; two SETATTRs let the second meet a stat
that the first has changed. *Mount*: one mount below and one above ours; with two
requests out (`MaxGuards`) one goes before and one after whatever else happens.
*TmpFs*: with three inodes there is a directory with a file, and a slot to reuse;
a FORGET of two lookups is the one that the code does not see to be the last, and
one FORGET under way is late for anything that happens meanwhile;
`MaxWrap` bounds how far a count goes below zero. A GETATTR leaks whenever the
daemon's count is below `MaxCount`, whatever the kernel's is. *BlockFile*: a block is
rounded to 2 bytes and an extent has 6, so that writes (`Buffers`) end inside, at and
behind a block and an extent, 7 bytes are more than an extent holds, and two extents
have three relative positions; a write that would add a third extent is left out
(`MaxExtents`).

**Symmetry** in `Unique` is used in `session_safety` and in `Name` in
`tmpfs`, whose properties treat all identities alike; never with liveness.

**Deadlock** is checked where the system can always go on: `listings`,
`conversions`. In the others a finite number of requests
is done in the end, the process has exited, a daemon sleeps because no message
comes, or a bound on counts or extents stops the next step. That a sleep is never
one too many is `NoLostWakeup` and the liveness properties.

**Fairness.** `FuseRequests!FairSpec`: a reply call that has begun goes on; it
only calls non-blocking `writev`s. `FuseSession!FairSpec`: the consumer polls
again after an item that is not the end (the loop of every user of the stream),
the executor polls a woken task (tokio's contract), `poll_next` does not block,
and the reactor and the watcher task get to run. `DirListing!FairSpec`: the loop
of `handle_readdir` goes on, and the reader asks until an empty answer comes.
`XattrList!XattrFairSpec`: the file system answers, and the caller of `listxattr`
goes on.
`FuseMount!FairSpec`: `mount()` and a spawned thread run as long as the process
does, `fusermount3` does not hang, and the runtime drops a task that was aborted
and a `Fuse` whose future was dropped; that a consumer lets go of its requests is
not assumed. Nothing is
assumed of the kernel: that it sends messages, cancels, forgets or unmounts is
never taken for granted.

## Findings

**A disarm-first reply may close the device before it writes**
(`requests.rs:183`, also `547` and `649`). `disarm()` consumes the guard and its
`Arc<OwnedFd>`; if the stream and the watcher are gone and this is the last
guard, the descriptor is closed, and the reply goes to a closed or reused number
(`requests_stray_reply`). `StrayOnlyAtTeardown` confines it.

**A truncated FORGET is answered** (`session.rs:386`): `?` returns while the guard
is armed, against the comment one line above ("FUSE_FORGET must never receive a
reply"), see `session_forget_reply`. The BATCH_FORGET arm disarms first and is
right. `NothingUnaccounted` says that nothing else slips through: a message is
handed out, answered or reported, and never both of the first two.

**The tmpfs lookup counts are not the kernel's** (`tmpfs_lookup_counts`). A GETATTR
raises the count (`examples/tmpfs/main.rs:92`): `node.leak()` keeps a lookup that
the kernel is not told of, against `requests.rs:354` ("no changes to the lookup count
occur"), and the inode is never freed. A LOOKUP that is cancelled leaks its count
(`main.rs:102`), as it is leaked before the reply and `Cancelled` is ignored; the
Create arm does it right. RELEASE gives back a lookup that OPEN did not take
(`main.rs:172`), so that an inode may be freed while the kernel refers to it.
`CountsExplained` says that the counts differ by exactly these three, in every order
of all requests; `NoEarlyFree` that only surplus RELEASEs free an inode early.

**BlockFile is not a sparse vector** (`blockfile_sparse`). A write below the first
extent is taken for the very first one (`block_file.rs:152`) and its extent is
appended behind, so that the extents are out of order, the length of the file is
that of the new extent, and a reader does not find what was written before.
`WritesLandInPlace` and `ReadsAreSlices` say that at or behind the first extent, and
as long as the extents are in order, the file is what was written.

### Deviations met while modelling

The models reproduce the code, so what follows is in them too; where a property has
an exception because of it, the exception is named in the property.

* *Plain renames are refused* (`session.rs:487`): only `FUSE_RENAME2` is known;
  `FUSE_RENAME`, sent for a rename without flags, gets ENOSYS although
  `enable_rename()` was called (the opcode `Rename` in `FuseSession`).
* *A FORGET of several lookups is not seen to be the last* (`fs.rs:110`): the
  count before the subtraction is compared with 1, and an unlinked inode stays
  (`ForgetsMany` in `UnlinkedIsFreed`).
* *A write that crosses the maximal extent size calls itself for ever*
  (`block_file.rs:183`): the rest starts at the end of the same extent, which is
  found again (`WriteSplit`); with the real limit of 2 GiB it is hard to meet.
* *A write that runs into the next extent copies the wrong bytes behind it*
  (`block_file.rs:223`): the end of its last block is taken from the beginning of
  the next extent, not from the place behind the write (`Spoilt` in
  `WritesLandInPlace`).
* *SETATTR changes the reported size and not the contents* (`main.rs:279`), and a
  read behind the contents then underflows (`block_file.rs:92`; the state `panic`).
  *An assertion in `read` compares an index with a size* (`block_file.rs:83`); it can
  only fail with more extents than bytes, hence the second condition of
  `ReadsAreSlices`.
* *Fuse::drop unmounts by path* (`session.rs:302`): if its own mount is gone or
  covered it detaches what else is there. *An unprivileged drop at the end of
  `main` may lose its helper* (`session.rs:310`): the detached thread ends with
  the process. Both are what `Undisturbed` excludes.

## What is proved

TLAPS checks every theorem for all values of the constants that satisfy the named
assumptions of the module; TLC evaluates those on each run. Each invariant named
here as inductive was checked by TLC on the run's instance before it was proved.

| Component | Theorems (property) | Assumed |
|---|---|---|
| `FuseRequests` | `TypeCorrect`, `FdLifetimeHolds`, `ResultsAreTrue`, `RepliesAreSingle`, `NoRequestDroppedSilently`, `StrayAtTeardownOnly`, `ContractHolds` (the refinement `ImplementsContract`) | any set `Unique`; `TrafficAssumption`, `WriteErrorsAssumption` |
| `FuseSession` | `SessionTypes`, `TerminationIsTold`, `NoRequestLeftBehind`, `WritesKeepTheirData`, `JoinHandlePolledOnce`, `WakeupsAreKept`, `EveryMessageDelivered`, `EveryMessageAccounted` | any set `Unique`; programs are sets of `enable_*` calls, messages have an opcode, a shape and a count |
| `FuseMount` | `MountIsSafe` (`MountSafety`) | no mount of ours on the path at the start, other processes do not make one |
| `Negotiation`, `WireFormat` | `AgreementHolds`, `EveryBodyUnderstood`, `EveryForgetCounts` | offers are records of a version and flags; `PagesAssumption`: page sizes of supported machines; names without a zero byte |
| `Attributes` | `RepliesAreRight`, `NothingElseIsTouched` (`OthersUntouched`, an action property) | `WidthAssumption`: any widths of which the nanosecond field holds a second; `InputsAssumption`: values within their widths |
| `DirListing`, `ReplyBuf` | `ListingInvariant`, `RepliesAreSegments` (`ReplyIsSegment`), `EntriesListedOnce` (`ListedOnce`) | `NameAssumption`: any number of names of 1 to 255 bytes; `SizesAssumption`: a request has room for any one entry |
| `XattrList` | `AnswersAreComplete` (`AnswerIsComplete`) | `AttrLenAssumption`: any number of names, of any length but zero |
| `TmpFs` | `NamesHoldTogether`, `SlotsNeverLost`, `CountsAreExplained`, `FreedOnlyUnheld` (`NoEarlyFree`) and `UnlinkedGoes` (`UnlinkedIsFreed`), the last two action properties | any `MaxInodes`, names, bounds; all requests |
| `BlockFile` | `ExtentsStayWithinLimits`, `EveryReadIsASlice`, `WritesGoInPlace` (`WritesLandInPlace`, an action property) | `MaxExtentSize` is a multiple of the rounding unit; some byte exists; buffers are not empty |

The arguments:

* **FuseRequests.** `ConsumerBegins` reduces the two dozen methods to five ways of
  giving up a held request, so later proofs have one case for each of those.
  None of the properties is inductive by itself: what a write may do depends on
  what was written, returned and answered before. `History(u)` says so for each
  value of `pc[u]` (for instance: before the first write nothing has been returned
  or answered; while dropping, only `data` can have been tried, and it failed),
  and `Outcome(u)` relates the result, the messages written and the answer of a
  request that is past its write. With `TypeOK`, `FdLifetime` and `StrayLate` they
  form `IndInv`. In the refinement each step of the reply protocol is a contract
  step or a stutter, `SendGuarded` and `SendBare` being `Settle` or `Miss`, and
  everything the library or the kernel does by itself `Substitute`.
* **FuseSession.** Four invariants, most on top of each other. `StreamInv`: at most one
  message is in the buffer, and only while it is processed; by phase of `poll_next`
  what `pending` may hold; what `finished` and `joined` say about each other.
  `BufferInv`: a live `Write` holds the `Arc` of the buffer its data lies in, and
  that buffer is not one still to be allocated.
  `WakeInv`: the `JoinHandle`'s waker is registered before the readiness is looked
  at, and every event that is due is still with the reactor or in the readiness.
  `AccountInv`: the books on each message, counted over the positions of `pending`.
* **FuseMount.** `MountOrder` and `DeviceOwner` say by `pc` and helper state whether
  our mount can exist and who holds a reference to the device, `CloneOwner` when the
  watcher and the requests can.
* **Negotiation, WireFormat.** The agreement is a case analysis over the flags with
  the arithmetic of the sizes. `BodyInv` keeps, between the kernel and
  `process_request`, the body as it was meant: what arrived is a prefix of it.
  The zero that ends a name is then where the kernel put it, or nowhere.
* **Attributes.** `AttrInv` says by phase what the message, the stat and the reply
  hold; the conversions have their own lemmas (`AsI64` and `AsU64` invert each
  other, saturation keeps the order).
* **DirListing.** The `Rank` of an entry is the number of entries before it; the
  listing has each entry at its rank, so an offset is a rank and the lemmas about
  ranks (`RankMore`: a new name raises those behind it by one) say what a change of
  the directory does to it. `FillInv`: while `handle_readdir` runs, its buffer holds
  (`Holds`) entries that follow each other in the listing from the offset asked for,
  each ending where the next begins, and `AtPhase` relates their number to `next` and
  the place in the loop. That `KernelParse` finds exactly those is an induction from
  the end of the buffer to its beginning, after its recursive function is shown to
  have a fixpoint; it uses that a `fuse_entry_out` is a multiple of eight bytes, so
  that both sides compute the same sizes. `CountInv` is about the time between the
  requests: `Missed`, the lasting entries in front of the offset that were not seen,
  grows by one at most with a removal, and `Twice`, the entries that were seen and
  are listed behind the offset, by one at most with a creation; what the kernel takes
  leaves both sides of the account even (`TakenCount`). `ListedOnce` alone is not
  inductive, because it looks at the end of a listing only.
* **XattrList.** `Coded(b, s)`: `b` ends at a zero and the names between its zeroes
  are those of `s`; a name with its zero behind it keeps that (`CodedMore`), by
  comparing the gaps between zeroes. `XattrInv` adds that, while a reply is filled,
  the bytes in it and those of the names still to come make up the whole list, so
  that it fits; the length of an encoded list is an induction over the attributes.
* **TmpFs.** `FsOk` is about one file system value: names and links match, live
  entries have live parents, slots are live or free. Every operation of `fs.rs`
  is shown to be one of: nothing, delete one entry, add one, take the name of one;
  `FsOk` is kept by each of those four. For the counts, `CountInv` says that a live
  entry has the kernel's count plus its drift, and that what is open is looked up; a
  slot that was given up may still be known to the kernel, and its drift starts anew
  when it is taken. No request is left out.
* **BlockFile.** `LimitsInv` is about every vector of extents, also one out of
  order. It needs that `search_extent` returns an index of the vector whatever the
  vector (`SearchFinds`), which is an induction over the width of the interval: the
  least-number principle (`LeastNat`, `Inductive`) is derived from the library's
  theorem on well-founded minima, and the recursive function is shown to have a
  fixpoint. `LinkedInv`: an extent behind the first one either begins before the
  first one, as it did when it was added, or where its neighbour ends, as it does
  once the two were merged. So a vector in order has no gaps between its extents
  (`InOrderIsGapless`), the bisection finds the extent that holds an offset, and the
  loop of `read` goes from one extent to the next without a hole; what it returns is
  an induction over the extents. `WritesGoInPlace` has a case for each way of a call
  to return, `ByteAt` before and after it being compared extent by extent.

Model-checked only: the liveness properties (`LetGoIsSettled`,
`UnmountEndsStream`, `QueuedIsRead`, `ListingEnds`, `CallerGetsList`,
`MountReturns`, `DropReleases`, `DropUnmounts`), which TLAPS 1.4 cannot do. Every
invariant, action property and refinement that a passing run checks is also a
theorem.

## Not modelled

* `FuseFileInfo` (`sys.rs`): setters and getters of five independent booleans.
* Structures that are copied field by field into a request or a reply (statfs,
  open, release, read), and the derived `Debug` code (`util.rs`).
* `macros.rs`, `lib.rs` and `tests/mount.rs`; what the test states is
  `UnmountEndsStream`.
* Mount options, which are passed through. With `auto_unmount`, which the builder
  does not set, `fusermount3` stays alive and `mount()` would wait for it.
* Descriptors inherited by unrelated children between `socketpair` and
  `FD_CLOEXEC` (`mount.rs:203`).
* Readers and writers of the tmpfs example's locks: the request loop is one task.

## Plan

The models are complete as far as the code goes, and every safety property is
proved. Left for a prover that does liveness under fairness are the eight properties
named above. When the code changes, the module of the component is changed first,
its run repeated, then its inductive invariant checked by TLC before the proof is
mended.
