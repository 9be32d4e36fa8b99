----------------------------- MODULE FuseMount -----------------------------
(***************************************************************************)
(* Mounting and unmounting: src/mount.rs, and FuseSession::mount,          *)
(* mount_async and Fuse::drop of src/session.rs.                           *)
(*                                                                         *)
(* The kernel's mounts on the path are a stack; the last one is what the   *)
(* path names.  "ours" is this session's mount, "peer" another FUSE mount  *)
(* of the same user, "foreign" anything else.  The kernel, fusermount3 and *)
(* other processes are external.  A connection is served as long as        *)
(* somebody refers to the device: the program, the helper, or a message    *)
(* in the socket.                                                          *)
(***************************************************************************)
EXTENDS Integers, Sequences, SequencesExt

CONSTANTS
    Below,        \* what may be mounted on the path before: a set of stacks
    Others,       \* kinds of mounts other processes put on the path
    MaxMounts,    \* bound on the mounts on the path
    MaxGuards,    \* bound on the requests in the consumer's hands
    Faults,       \* the steps that may fail
    Exits         \* the program may exit

Kind == {"ours", "peer", "foreign"}

Step == {"canonicalize", "direct", "socketpair", "spawn", "wait", "helper", "recv",
         "fcntl", "unmount"}

ASSUME KindsAssumption ==
    Below \subseteq Seq(Kind \ {"ours"}) /\ Others \subseteq Kind \ {"ours"}
ASSUME BoundAssumption == MaxMounts \in Nat /\ MaxGuards \in Nat
ASSUME FaultsAssumption == Faults \subseteq Step /\ Exits \in BOOLEAN

VARIABLES
    pc,         \* of mount(), and then of the Fuse
    caller,     \* "waiting", or "gone": the future of mount_async was dropped
    priv,       \* the program has CAP_SYS_ADMIN
    busy,       \* external: unmounting may fail for a reason of its own
    table,      \* external: the stack of mounts on the path
    fd,         \* mount(), and then the Fuse, holds the device
    watcher,    \* the POLLERR task, which has a clone of the Arc<AsyncFd>
    guards,     \* requests whose RequestGuard has a clone of the Arc<OwnedFd>
    sock,       \* the socket pair: "none", "empty", "fd" under way, "closed"
    helper,     \* fusermount3
    unmounter,  \* the thread of Fuse::drop and its fusermount3 -u
    running     \* the process exists

clones == <<watcher, guards>>
vars == <<pc, caller, priv, busy, table, fd, clones, sock, helper, unmounter, running>>

Phase == {"start", "direct", "pair", "spawn", "wait", "recv", "mounted", "live",
          "failed", "dropped"}

Init ==
    /\ pc = "start"
    /\ caller = "waiting"
    /\ priv \in BOOLEAN
    /\ busy \in {b \in BOOLEAN : b => "unmount" \in Faults}
    /\ table \in Below
    /\ fd = FALSE
    /\ watcher = "none"
    /\ guards = 0
    /\ sock = "none"
    /\ helper = "none"
    /\ unmounter = "none"
    /\ running = TRUE

OursMounted == "ours" \in ToSet(table)

(* Who refers to the device.                                               *)
Referenced ==
    \/ fd \/ guards > 0 \/ watcher \in {"running", "aborted"}
    \/ helper \in {"mounted", "sent"} \/ sock = "fd"

At(phase) == running /\ pc = phase

Goto(phase) == pc' = phase

(* An early return from mount(): the sockets and the device are OwnedFds.  *)
ReturnErr ==
    /\ Goto("failed")
    /\ fd' = FALSE
    /\ sock' = IF sock = "none" THEN sock ELSE "closed"

(***************************************************************************)
(* FuseSession::mount and fuse_mount.                                      *)
(***************************************************************************)
Canonicalize ==
    /\ At("start")
    /\ \/ Goto("direct") /\ UNCHANGED <<fd, sock>>
       \/ "canonicalize" \in Faults /\ ReturnErr
    /\ UNCHANGED <<caller, priv, busy, table, helper, unmounter, running, clones>>

(* fuse_mount_direct.                                                      *)
DirectMount ==
    /\ At("direct")
    /\ priv
    /\ Len(table) < MaxMounts
    /\ table' = Append(table, "ours")
    /\ fd' = TRUE
    /\ Goto("mounted")
    /\ UNCHANGED <<caller, priv, busy, sock, helper, unmounter, running, clones>>

(* EPERM, from mount(2) or from one of the calls before it: the device is  *)
(* closed again and the helper is tried.                                   *)
DirectRefused ==
    /\ At("direct")
    /\ ~priv
    /\ Goto("pair")
    /\ UNCHANGED <<caller, priv, busy, table, fd, sock, helper, unmounter, running, clones>>

(* Any other error is returned.                                            *)
DirectFails ==
    /\ At("direct")
    /\ "direct" \in Faults
    /\ ReturnErr
    /\ UNCHANGED <<caller, priv, busy, table, helper, unmounter, running, clones>>

(* unix_socketpair.                                                        *)
SocketPair ==
    /\ At("pair")
    /\ \/ Goto("spawn") /\ sock' = "empty" /\ UNCHANGED fd
       \/ "socketpair" \in Faults /\ ReturnErr
    /\ UNCHANGED <<caller, priv, busy, table, helper, unmounter, running, clones>>

(* fuse_mount_via_helper: spawn.                                           *)
Spawn ==
    /\ At("spawn")
    /\ \/ Goto("wait") /\ helper' = "running" /\ UNCHANGED <<fd, sock>>
       \/ "spawn" \in Faults /\ ReturnErr /\ UNCHANGED helper
    /\ UNCHANGED <<caller, priv, busy, table, unmounter, running, clones>>

(* Mutant of Wait: it waits for a helper that succeeds.                    *)
WaitForSuccess ==
    /\ At("wait")
    /\ helper = "good"
    /\ Goto("recv")
    /\ UNCHANGED <<caller, priv, busy, table, fd, sock, helper, unmounter, running, clones>>

(* fuse_mount_via_helper: wait, and the exit status.                       *)
Wait ==
    /\ At("wait")
    /\ \/ helper = "good" /\ Goto("recv") /\ UNCHANGED <<fd, sock>>
       \/ helper = "bad" /\ ReturnErr
       \/ "wait" \in Faults /\ ReturnErr
    /\ UNCHANGED <<caller, priv, busy, table, helper, unmounter, running, clones>>

(* Mutant of RecvFd: the descriptor is taken out of the socket and lost.   *)
RecvFdKeepsSocket ==
    /\ At("recv")
    /\ \/ sock = "fd" /\ fd' = TRUE /\ sock' = "closed" /\ Goto("mounted")
       \/ (sock = "empty" \/ "recv" \in Faults) /\ Goto("failed") /\ UNCHANGED <<fd, sock>>
    /\ UNCHANGED <<caller, priv, busy, table, helper, unmounter, running, clones>>

(* recv_fd: without a message, or with one that carries no descriptor, it  *)
(* is an error.                                                            *)
RecvFd ==
    /\ At("recv")
    /\ \/ sock = "fd" /\ fd' = TRUE /\ sock' = "closed" /\ Goto("mounted")
       \/ (sock = "empty" \/ "recv" \in Faults) /\ ReturnErr
    /\ UNCHANGED <<caller, priv, busy, table, helper, unmounter, running, clones>>

(* fcntl and AsyncFd::with_interest may fail; then the watcher is spawned  *)
(* and the Fuse is returned.                                               *)
Configure ==
    /\ At("mounted")
    /\ \/ Goto("live") /\ watcher' = "running" /\ UNCHANGED <<fd, sock>>
       \/ "fcntl" \in Faults /\ ReturnErr /\ UNCHANGED watcher
    /\ UNCHANGED <<caller, priv, busy, table, helper, unmounter, running, guards>>

(* mount_async: its future is dropped, mount() goes on in its thread.      *)
CancelCaller ==
    /\ running
    /\ pc \notin {"live", "failed", "dropped"}
    /\ caller' = "gone"
    /\ UNCHANGED <<pc, priv, busy, table, fd, sock, helper, unmounter, running, clones>>

(***************************************************************************)
(* The Fuse hands out requests, and the consumer is done with them before  *)
(* or after the Fuse is dropped.                                           *)
(***************************************************************************)
TakeRequest ==
    /\ At("live")
    /\ guards < MaxGuards
    /\ guards' = guards + 1
    /\ UNCHANGED <<pc, caller, priv, busy, table, fd, sock, helper, unmounter, running>>
    /\ UNCHANGED watcher

SettleRequest ==
    /\ running
    /\ guards > 0
    /\ guards' = guards - 1
    /\ UNCHANGED <<pc, caller, priv, busy, table, fd, sock, helper, unmounter, running>>
    /\ UNCHANGED watcher

(* The watcher's task ends: the runtime has dropped it after abort(), or   *)
(* the connection went down with the mount.                                *)
WatcherEnds ==
    /\ running
    /\ watcher = "aborted" \/ (watcher = "running" /\ ~OursMounted)
    /\ watcher' = "gone"
    /\ UNCHANGED <<pc, caller, priv, busy, table, fd, sock, helper, unmounter, running>>
    /\ UNCHANGED guards

(***************************************************************************)
(* Fuse::drop: the watcher is told to abort, and umount2_detach detaches   *)
(* what the path names; EINVAL if that is no mount.  On EPERM a thread is  *)
(* to run fusermount3 -u.  The Fuse's own reference to the device goes,    *)
(* those of the watcher and of the requests stay.                          *)
(***************************************************************************)
Detach(stack) == IF stack = <<>> THEN stack ELSE Front(stack)

(* Mutant of Abort: the JoinHandle is just dropped, the task goes on.      *)
AbortDetaches == UNCHANGED watcher

(* err_watcher.abort() has no effect on a task that has ended.             *)
Abort == watcher' = IF watcher = "running" THEN "aborted" ELSE watcher

(* Mutant of DropFuse: EPERM is treated like the other errors.             *)
DropFuseNoFallback ==
    /\ At("live")
    /\ table' = IF priv THEN Detach(table) ELSE table
    /\ UNCHANGED unmounter
    /\ Abort
    /\ fd' = FALSE
    /\ Goto("dropped")
    /\ UNCHANGED <<caller, priv, busy, sock, helper, running, guards>>

DropFuse ==
    /\ At("live")
    /\ \/ table' = IF priv THEN Detach(table) ELSE table
       \/ busy /\ UNCHANGED table
    /\ unmounter' = IF priv THEN "none" ELSE "thread"
    /\ Abort
    /\ fd' = FALSE
    /\ Goto("dropped")
    /\ UNCHANGED <<caller, priv, busy, sock, helper, running, guards>>

(* fuse_unmount_via_helper, in the thread.                                 *)
RunUnmounter ==
    /\ running
    /\ unmounter = "thread"
    /\ unmounter' = "spawned"
    /\ UNCHANGED <<pc, caller, priv, busy, table, fd, sock, helper, running, clones>>

(* fusermount3 -u -z (external): it detaches a FUSE mount of the user.     *)
Detachable == table # <<>> /\ Last(table) # "foreign"

UnmounterEnds ==
    /\ unmounter = "spawned"
    /\ unmounter' = "done"
    /\ \/ Detachable /\ table' = Front(table)
       \/ (~Detachable \/ busy) /\ UNCHANGED table
    /\ UNCHANGED <<pc, caller, priv, busy, fd, sock, helper, running, clones>>

(***************************************************************************)
(* External: fusermount3, which sends the device through the socket and    *)
(* takes its mount back if that fails; other processes; the exit.          *)
(***************************************************************************)
HelperMounts ==
    /\ helper = "running"
    /\ Len(table) < MaxMounts
    /\ table' = Append(table, "ours")
    /\ helper' = "mounted"
    /\ UNCHANGED <<pc, caller, priv, busy, fd, sock, unmounter, running, clones>>

HelperSends ==
    /\ helper = "mounted"
    /\ IF sock = "empty"
       THEN sock' = "fd" /\ helper' = "sent" /\ UNCHANGED table
       ELSE helper' = "bad" /\ table' = Detach(table) /\ UNCHANGED sock
    /\ UNCHANGED <<pc, caller, priv, busy, fd, unmounter, running, clones>>

HelperExits ==
    /\ \/ helper = "sent" /\ helper' = "good"
       \/ helper = "running" /\ helper' = "bad"
       \/ /\ "helper" \in Faults
          /\ helper \in {"running", "mounted", "sent"}
          /\ helper' \in {"good", "bad"}
    /\ UNCHANGED <<pc, caller, priv, busy, table, fd, sock, unmounter, running, clones>>

OtherMount ==
    /\ Len(table) < MaxMounts
    /\ \E k \in Others : table' = Append(table, k)
    /\ UNCHANGED <<pc, caller, priv, busy, fd, sock, helper, unmounter, running, clones>>

OtherUnmount ==
    /\ table # <<>>
    /\ table' = Front(table)
    /\ UNCHANGED <<pc, caller, priv, busy, fd, sock, helper, unmounter, running, clones>>

Exit ==
    /\ Exits /\ running
    /\ running' = FALSE
    /\ fd' = FALSE
    /\ sock' = IF sock = "none" THEN sock ELSE "closed"
    /\ watcher' = IF watcher = "none" THEN watcher ELSE "gone"
    /\ guards' = 0
    /\ UNCHANGED <<pc, caller, priv, busy, table, helper, unmounter>>

MountStep ==
    \/ Canonicalize
    \/ DirectMount
    \/ DirectRefused
    \/ DirectFails
    \/ SocketPair
    \/ Spawn
    \/ Wait
    \/ RecvFd
    \/ Configure

HelperStep ==
    \/ HelperMounts
    \/ HelperSends
    \/ HelperExits

Next ==
    \/ MountStep
    \/ CancelCaller
    \/ TakeRequest
    \/ SettleRequest
    \/ WatcherEnds
    \/ DropFuse
    \/ RunUnmounter
    \/ UnmounterEnds
    \/ HelperStep
    \/ OtherMount
    \/ OtherUnmount
    \/ Exit

Spec == Init /\ [][Next]_vars

(* The program runs, fusermount3 ends by itself, a spawned thread gets to  *)
(* run, the runtime drops a task that was aborted and a Fuse that nobody   *)
(* waits for.                                                              *)
FairSpec ==
    /\ Spec
    /\ WF_vars(MountStep)
    /\ WF_vars(HelperStep)
    /\ WF_vars(caller = "gone" /\ DropFuse)
    /\ WF_vars(watcher = "aborted" /\ WatcherEnds)
    /\ WF_vars(RunUnmounter)
    /\ WF_vars(UnmounterEnds)

(***************************************************************************)
(* Properties.                                                             *)
(***************************************************************************)
(* The state has its type; no socket is left without an owner.             *)
TypeOK ==
    /\ pc \in Phase
    /\ caller \in {"waiting", "gone"}
    /\ priv \in BOOLEAN /\ busy \in BOOLEAN
    /\ table \in Seq(Kind)
    /\ fd \in BOOLEAN
    /\ watcher \in {"none", "running", "aborted", "gone"}
    /\ guards \in 0..MaxGuards
    /\ sock \in {"none", "empty", "fd", "closed"}
    /\ helper \in {"none", "running", "mounted", "sent", "good", "bad"}
    /\ unmounter \in {"none", "thread", "spawned", "done"}
    /\ running \in BOOLEAN

(***************************************************************************)
(* mount() may bail out after the kernel mount, at every later step, and   *)
(* the program may end at any time.  What is left then is a mount without  *)
(* a daemon; nobody who opens a file on it waits for an answer, because no *)
(* reference to the device remains in the program, in the socket or with a *)
(* helper that is still at work.  After Fuse::drop only requests in the    *)
(* consumer's hands, and a watcher that was told to go, keep the device.   *)
(***************************************************************************)
NobodyWaits ==
    helper \in {"none", "good", "bad"} /\ Referenced =>
        /\ running /\ pc # "failed"
        /\ pc = "dropped" => guards > 0 \/ watcher = "aborted"

(***************************************************************************)
(* The fallback to the helper does not mount a second time: this session   *)
(* has at most one mount on the path, whichever of the two ways made it.   *)
(***************************************************************************)
MountedOnce ==
    \A i, j \in DOMAIN table : table[i] = "ours" /\ table[j] = "ours" => i = j

(* What holds of mounting at any time, for any stack of mounts.            *)
MountSafety == TypeOK /\ NobodyWaits /\ MountedOnce

(* mount() returns, as long as the program goes on and fusermount3 does    *)
(* not hang, whatever fails and whatever other processes mount there.      *)
MountReturns == []running => <>(pc \in {"live", "failed", "dropped"})

(***************************************************************************)
(* A dropped Fuse, and a mount() that failed, give the device up: once the *)
(* consumer has no request left, nobody refers to it any more, whether or  *)
(* not the unmount succeeded (Fuse::drop aborts the watcher "so it         *)
(* releases its clone of the `Arc<AsyncFd>` promptly").  After the         *)
(* drop the number of requests only falls, so a state without any is the   *)
(* start of the rest.                                                      *)
(***************************************************************************)
DropReleases == pc \in {"failed", "dropped"} ~> (guards > 0 \/ ~Referenced)

(* Nobody mounts over this session, nothing keeps it from being unmounted, *)
(* and the process lives to see it done.                                   *)
Undisturbed == [](running /\ ~busy /\ (OursMounted => Last(table) = "ours"))

(***************************************************************************)
(* A Fuse that was dropped is unmounted in the end, with CAP_SYS_ADMIN or  *)
(* through the helper.  The same goes for a mount_async() that was given   *)
(* up, whose mount() goes on without a caller, unless mount() itself fails *)
(* after the kernel has mounted.                                           *)
(***************************************************************************)
DropUnmounts ==
    Undisturbed =>
        ((pc = "dropped" \/ caller = "gone") ~> (pc = "failed" \/ ~OursMounted))
=============================================================================
