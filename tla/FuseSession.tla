----------------------------- MODULE FuseSession -----------------------------
(***************************************************************************)
(* The session of session.rs: the builder that enables operations, and the *)
(* stream whose poll_next reads one message after another from the FUSE    *)
(* device, decides what each one becomes, and hands requests to the        *)
(* consumer.  The stream sleeps between messages on two wakers: the read   *)
(* waker of the AsyncFd, and the waker of a task that waits for POLLERR,   *)
(* because a connection that goes down raises no read event.               *)
(*                                                                         *)
(* The kernel, tokio's reactor and the watcher task run concurrently with  *)
(* poll_next, and so does the consumer, who may still hold Write requests  *)
(* whose data lives in the session's read buffer.                          *)
(***************************************************************************)
EXTENDS Naturals, Sequences, FiniteSets

CONSTANTS
    Unique,     \* identities of the messages the kernel may send
    Programs,   \* the sets of enable_* methods that programs may call
    Wire,       \* the messages the kernel may send
    MaxFaults   \* bound on I/O errors of read and write on a live device

-----------------------------------------------------------------------------
(* EnabledOps after Fuse::builder(), and what each enable_* method sets. *)
DefaultOps == {"lookup", "forget", "getattr"}

Enables ==
    [enable_readdir |-> {"readdir"}, enable_readdirplus |-> {"readdirplus"},
     enable_mkdir |-> {"mkdir"}, enable_create |-> {"create", "open", "release"},
     enable_mknod |-> {"mknod"}, enable_open |-> {"open", "release"},
     enable_setattr |-> {"setattr"}, enable_statfs |-> {"statfs"},
     enable_unlink |-> {"unlink"}, enable_rmdir |-> {"rmdir"},
     enable_rename |-> {"rename"}, enable_read |-> {"read"},
     enable_write |-> {"write"}, enable_readlink |-> {"readlink"},
     enable_read_xattr |-> {"listxattr", "getxattr"}]

(* The set of operations a builder has enabled after some of these calls.  *)
EnabledOps(calls) == DefaultOps \cup UNION {Enables[c] : c \in calls}

(***************************************************************************)
(* A message: its opcode ("Other" stands for any number Opcode::from_u32   *)
(* does not know, "Rename" for the one of those that is FUSE_RENAME), its  *)
(* shape, and the number of entries if it is a BATCH_FORGET:               *)
(*   "ok"     as the protocol has it                                       *)
(*   "short"  fewer bytes than a header                                    *)
(*   "badlen" header.len is not the number of bytes read                   *)
(*   "cut"    the body is too short for its struct, its names or its data  *)
(*   "major"  an INIT of another major version                             *)
(*   "size0"  an xattr query that only asks for the size                   *)
(***************************************************************************)
Opcode ==
    {"Lookup", "Forget", "Getattr", "Setattr", "Readlink", "Mknod", "Mkdir",
     "Unlink", "Rmdir", "Open", "Read", "Write", "Statfs", "Release",
     "Getxattr", "Listxattr", "Init", "Readdir", "Create", "Interrupt",
     "Destroy", "BatchForget", "Readdirplus", "Rename2"}

Shape == {"ok", "short", "badlen", "cut", "major", "size0"}

NoMessage == [op |-> "none", shape |-> "ok", n |-> 0]

ASSUME ProgramsAssumption == Programs \subseteq SUBSET DOMAIN Enables
ASSUME WireAssumption ==
    Wire \subseteq [op : Opcode \cup {"Rename", "Other"}, shape : Shape, n : Nat]
ASSUME MaxFaultsAssumption == MaxFaults \in Nat

(* The Request enum: what the stream hands to the consumer. *)
Variant ==
    {"Lookup", "Forget", "Getattr", "Setattr", "Statfs", "Readdir",
     "ReaddirPlus", "Mkdir", "Create", "Mknod", "Open", "Release", "Read",
     "Unlink", "Rmdir", "Write", "Readlink", "Rename", "ListXAttrSize",
     "ListXAttr", "GetXAttrSize", "GetXAttr"}

(***************************************************************************)
(* process_request, the arms of the form `Opcode::X if self.ops.y': the    *)
(* operation that must be enabled, the Request the message becomes, and    *)
(* whether reading the body can fail.                                      *)
(***************************************************************************)
Arm(g, v, b) == [gate |-> g, variant |-> v, body |-> b]

LookupArms == [Lookup |-> Arm("lookup", "Lookup", FALSE)]

NodeArms ==
    [Getattr |-> Arm("getattr", "Getattr", FALSE),
     Setattr |-> Arm("setattr", "Setattr", TRUE),
     Statfs |-> Arm("statfs", "Statfs", FALSE),
     Readlink |-> Arm("readlink", "Readlink", FALSE)]

NameArms ==
    [Mknod |-> Arm("mknod", "Mknod", TRUE),
     Mkdir |-> Arm("mkdir", "Mkdir", TRUE),
     Unlink |-> Arm("unlink", "Unlink", FALSE),
     Rmdir |-> Arm("rmdir", "Rmdir", FALSE),
     Rename2 |-> Arm("rename", "Rename", TRUE)]

FileArms ==
    [Open |-> Arm("open", "Open", TRUE),
     Release |-> Arm("release", "Release", TRUE),
     Read |-> Arm("read", "Read", TRUE),
     Write |-> Arm("write", "Write", TRUE),
     Create |-> Arm("create", "Create", TRUE)]

DirArms ==
    [Readdir |-> Arm("readdir", "Readdir", TRUE),
     Readdirplus |-> Arm("readdirplus", "ReaddirPlus", TRUE)]

XattrArms ==
    [Listxattr |-> Arm("listxattr", "ListXAttr", TRUE),
     Getxattr |-> Arm("getxattr", "GetXAttr", TRUE)]

Arms(op) ==
    CASE op \in DOMAIN LookupArms -> {LookupArms[op]}
      [] op \in DOMAIN NodeArms -> {NodeArms[op]}
      [] op \in DOMAIN NameArms -> {NameArms[op]}
      [] op \in DOMAIN FileArms -> {FileArms[op]}
      [] op \in DOMAIN DirArms -> {DirArms[op]}
      [] op \in DOMAIN XattrArms -> {XattrArms[op]}
      [] OTHER -> {}

(* The Request variant: an xattr query of size 0 asks for the size. *)
VariantOf(arm, m) ==
    CASE arm.variant = "ListXAttr" /\ m.shape = "size0" -> "ListXAttrSize"
      [] arm.variant = "GetXAttr" /\ m.shape = "size0" -> "GetXAttrSize"
      [] OTHER -> arm.variant

-----------------------------------------------------------------------------
VARIABLES
    \* the fields of FuseSessionBuilder and Fuse
    ops, init_done, finished, pending,
    \* where poll_next is, and what its last call returned
    pc, last,
    \* the read buffer: the number of the Vec that `buf' refers to, the one
    \* the data of each live Write lies in (0: no such Write), the Writes
    \* that hold a clone of its Arc, those whose data was overwritten
    buf, home, arcs, clobbered,
    \* the messages: content, progress, requests made of each, those
    \* answered by the session itself, those reported as a stream error
    msg, state, delivered, answered, reported,
    \* kernel: connection up, I/O errors still to come
    up, faults,
    \* tokio: an epoll event is due, the readiness of the AsyncFd, whether
    \* it changed since the stream last looked, the two registered wakers,
    \* the wake-up of the task that polls the stream, the watcher task, and
    \* whether its JoinHandle has been polled to completion
    edge, readiness, fresh, reader, joiner, woken, watcher, joined

fuseVars == <<ops, init_done, finished, pending>>
bufVars == <<buf, home, arcs, clobbered>>
msgVars == <<msg, state, delivered, answered, reported>>
kernelVars == <<up, faults>>
tokioVars == <<edge, readiness, fresh, reader, joiner, woken, watcher, joined>>
vars == <<fuseVars, pc, last, bufVars, msgVars, kernelVars, tokioVars>>

Init ==
    /\ ops = DefaultOps /\ init_done = FALSE /\ finished = FALSE
    /\ pending = <<>>
    /\ pc = "building" /\ last = "none"
    /\ buf = 1 /\ home = [u \in Unique |-> 0] /\ arcs = {} /\ clobbered = {}
    /\ msg = [u \in Unique |-> NoMessage]
    /\ state = [u \in Unique |-> "unsent"]
    /\ delivered = [u \in Unique |-> 0]
    /\ answered = {} /\ reported = {}
    /\ up = TRUE /\ faults = MaxFaults
    /\ edge = FALSE /\ readiness = {} /\ fresh = FALSE
    /\ reader = FALSE /\ joiner = FALSE /\ woken = FALSE
    /\ watcher = "waiting" /\ joined = FALSE

(* A program calls builder(), some enable_* methods and mount(). *)
Mount(calls) ==
    /\ pc = "building"
    /\ ops' = EnabledOps(calls)
    /\ pc' = "idle"
    /\ UNCHANGED <<init_done, finished, pending, last, bufVars, msgVars,
                   kernelVars, tokioVars>>

-----------------------------------------------------------------------------
(* poll_next.  "top" is the head of its loop; the call ends in "idle" with *)
(* a value, or in "parked" with Poll::Pending.                             *)

Polled == {"idle", "parked"}

StartPoll ==
    /\ pc \in Polled
    /\ pc' = "top"
    /\ woken' = FALSE
    /\ UNCHANGED <<fuseVars, last, bufVars, msgVars, kernelVars, edge,
                   readiness, fresh, reader, joiner, watcher, joined>>

Return(value) == pc' = "idle" /\ last' = value

(* Mutant of PopPending: the request handed out stays in the queue. *)
PopPendingPeek ==
    /\ pc = "top" /\ pending # <<>>
    /\ delivered' = [delivered EXCEPT ![Head(pending).from] = @ + 1]
    /\ Return("request")
    /\ UNCHANGED <<fuseVars, bufVars, msg, state, answered, reported,
                   kernelVars, tokioVars>>

PopPending ==
    /\ pc = "top" /\ pending # <<>>
    /\ pending' = Tail(pending)
    /\ delivered' = [delivered EXCEPT ![Head(pending).from] = @ + 1]
    /\ Return("request")
    /\ UNCHANGED <<ops, init_done, finished, bufVars, msg, state, answered,
                   reported, kernelVars, tokioVars>>

ReturnFinished ==
    /\ pc = "top" /\ pending = <<>> /\ finished
    /\ Return("end")
    /\ UNCHANGED <<fuseVars, bufVars, msgVars, kernelVars, tokioVars>>

(* Mutants of PollWatcher: is_finished() instead of a poll, which leaves   *)
(* no waker behind; and an end that is not remembered.                     *)
PollWatcherNoWaker ==
    /\ pc = "top" /\ pending = <<>> /\ ~finished
    /\ \/ /\ watcher = "done"
          /\ finished' = TRUE
          /\ Return("end")
       \/ /\ watcher # "done"
          /\ pc' = "ready"
          /\ UNCHANGED <<finished, last>>
    /\ UNCHANGED <<ops, init_done, pending, bufVars, msgVars, kernelVars,
                   tokioVars>>

PollWatcherForgets ==
    /\ pc = "top" /\ pending = <<>> /\ ~finished
    /\ \/ watcher = "done" /\ joined' = TRUE /\ Return("end") /\ UNCHANGED joiner
       \/ /\ watcher # "done"
          /\ joiner' = TRUE
          /\ pc' = "ready"
          /\ UNCHANGED <<joined, last>>
    /\ UNCHANGED <<fuseVars, bufVars, msgVars, kernelVars, edge, readiness,
                   fresh, reader, woken, watcher>>

(* Poll the watcher's JoinHandle: ready ends the stream, else its waker is *)
(* registered and the loop goes on to the read side.                       *)
PollWatcher ==
    /\ pc = "top" /\ pending = <<>> /\ ~finished
    /\ \/ /\ watcher = "done"
          /\ joined' = TRUE
          /\ finished' = TRUE
          /\ Return("end")
          /\ UNCHANGED joiner
       \/ /\ watcher # "done"
          /\ joiner' = TRUE
          /\ pc' = "ready"
          /\ UNCHANGED <<finished, joined, last>>
    /\ UNCHANGED <<ops, init_done, pending, bufVars, msgVars, kernelVars, edge,
                   readiness, fresh, reader, woken, watcher>>

(* AsyncFd::poll_read_ready. *)
PollReadReady ==
    /\ pc = "ready"
    /\ \/ /\ "IN" \in readiness
          /\ pc' = "read"
          /\ fresh' = FALSE
          /\ UNCHANGED <<reader, last>>
       \/ /\ "IN" \notin readiness
          /\ pc' = "parked" /\ last' = "pending"
          /\ reader' = TRUE
          /\ UNCHANGED fresh
    /\ UNCHANGED <<fuseVars, bufVars, msgVars, kernelVars, edge, readiness,
                   joiner, woken, watcher, joined>>

(* Arc::get_mut fails while somebody holds another clone of the Arc; then  *)
(* a new buffer takes the place of the old one, which lives on with the    *)
(* Writes that refer to it.  poll_next's own clone, buf_ref, ends with the *)
(* iteration of its loop, before the next get_mut.                         *)
TakeBuffer ==
    /\ buf' = IF \E u \in arcs : home[u] = buf THEN buf + 1 ELSE buf
    /\ UNCHANGED <<home, arcs>>

Unread == {u \in Unique : state[u] = "queued"}

(* One read(2) of the device through try_io.  The message overwrites all   *)
(* the data that lies in the buffer taken for it.                          *)
ReadMessage ==
    /\ pc = "read" /\ up
    /\ TakeBuffer
    /\ clobbered' = clobbered \cup {u \in Unique : home[u] = buf'}
    /\ \E u \in Unread : state' = [state EXCEPT ![u] = "buffer"]
    /\ pc' = "process"
    /\ UNCHANGED <<fuseVars, last, msg, delivered, answered, reported,
                   kernelVars, tokioVars>>

(* Mutant of ReadWouldBlock: return Pending at once, without going through *)
(* poll_read_ready again.                                                  *)
ReadWouldBlockParks ==
    /\ pc = "read" /\ up /\ Unread = {}
    /\ TakeBuffer
    /\ readiness' = IF fresh THEN readiness ELSE readiness \ {"IN"}
    /\ pc' = "parked" /\ last' = "pending"
    /\ UNCHANGED <<fuseVars, clobbered, msgVars, kernelVars, edge, fresh,
                   reader, joiner, woken, watcher, joined>>

(* EAGAIN: clear_ready() forgets the readiness the guard was made from,    *)
(* but not an event that came in since.                                    *)
ReadWouldBlock ==
    /\ pc = "read" /\ up /\ Unread = {}
    /\ TakeBuffer
    /\ readiness' = IF fresh THEN readiness ELSE readiness \ {"IN"}
    /\ pc' = "top"
    /\ UNCHANGED <<fuseVars, last, clobbered, msgVars, kernelVars, edge,
                   fresh, reader, joiner, woken, watcher, joined>>

(* Mutant of ReadGone: the end is not remembered. *)
ReadGoneForgets ==
    /\ pc = "read" /\ ~up
    /\ TakeBuffer
    /\ Return("end")
    /\ UNCHANGED <<fuseVars, clobbered, msgVars, kernelVars, tokioVars>>

(* ENODEV or ECONNABORTED, or no bytes at all: the connection is gone. *)
ReadGone ==
    /\ pc = "read" /\ ~up
    /\ TakeBuffer
    /\ finished' = TRUE
    /\ Return("end")
    /\ UNCHANGED <<ops, init_done, pending, clobbered, msgVars, kernelVars,
                   tokioVars>>

(* Any other error is handed to the consumer and the stream goes on. *)
ReadError ==
    /\ pc = "read" /\ up /\ faults > 0
    /\ TakeBuffer
    /\ faults' = faults - 1
    /\ Return("error")
    /\ UNCHANGED <<fuseVars, clobbered, msgVars, up, tokioVars>>

-----------------------------------------------------------------------------
(* process_request on the message just read. *)

InBuffer(u) == pc = "process" /\ state[u] = "buffer"
Finish(u) == state' = [state EXCEPT ![u] = "handled"]

(* Mutant of Proceed: return instead of looping. *)
ProceedReturns == Return("pending") /\ UNCHANGED reported

(* process_request returned Ok, and poll_next loops. *)
Proceed == pc' = "top" /\ UNCHANGED <<last, reported>>

(* It returned Err, and poll_next hands the error to the consumer. *)
Report(u) == Return("error") /\ reported' = reported \cup {u}

(* The armed guard is dropped, which answers ENOSYS. *)
AnswerEnosys(u) == answered' = answered \cup {u}

Push(u, v, k) == pending' = pending \o [i \in 1..k |-> [from |-> u, variant |-> v]]

HeaderOk(u) == msg[u].shape \notin {"short", "badlen"}

(* No header, or one that contradicts the read: there is no guard yet. *)
ProcessBadHeader(u) ==
    /\ InBuffer(u) /\ ~HeaderOk(u)
    /\ Finish(u) /\ Report(u)
    /\ UNCHANGED <<fuseVars, bufVars, msg, delivered, answered, kernelVars,
                   tokioVars>>

(* handle_init: anything but a good INIT is an error without an answer,    *)
(* and so is an INIT whose reply cannot be written.                        *)
HandleInit(u) ==
    /\ InBuffer(u) /\ HeaderOk(u) /\ ~init_done
    /\ Finish(u)
    /\ \/ /\ msg[u].op # "Init" \/ msg[u].shape \in {"cut", "major"}
          /\ Report(u)
          /\ UNCHANGED <<init_done, answered, faults>>
       \/ /\ msg[u].op = "Init" /\ msg[u].shape \notin {"cut", "major"}
          /\ \/ /\ up
                /\ init_done' = TRUE
                /\ answered' = answered \cup {u}
                /\ Proceed
                /\ UNCHANGED faults
             \/ /\ ~up \/ faults > 0
                /\ faults' = IF up THEN faults - 1 ELSE faults
                /\ Report(u)
                /\ UNCHANGED <<init_done, answered>>
    /\ UNCHANGED <<ops, finished, pending, bufVars, msg, delivered, up,
                   tokioVars>>

Dispatched(u, codes) ==
    InBuffer(u) /\ HeaderOk(u) /\ init_done /\ msg[u].op \in codes

ProcessDestroy(u) ==
    /\ Dispatched(u, {"Destroy"})
    /\ finished' = TRUE
    /\ Finish(u) /\ Proceed
    /\ UNCHANGED <<ops, init_done, pending, bufVars, msg, delivered, answered,
                   kernelVars, tokioVars>>

(* FORGET.  The body is read while the guard is armed.  builder() enables  *)
(* forget and nothing disables it.                                         *)
ProcessForget(u) ==
    /\ Dispatched(u, {"Forget"})
    /\ Finish(u)
    /\ \/ /\ msg[u].shape = "cut"
          /\ AnswerEnosys(u) /\ Report(u)
          /\ UNCHANGED pending
       \/ /\ msg[u].shape # "cut"
          /\ Push(u, "Forget", 1) /\ Proceed
          /\ UNCHANGED answered
    /\ UNCHANGED <<ops, init_done, finished, bufVars, msg, delivered,
                   kernelVars, tokioVars>>

(* BATCH_FORGET.  The guard is disarmed first; one Forget for every entry  *)
(* that is really there.                                                   *)
ProcessBatchForget(u) ==
    /\ Dispatched(u, {"BatchForget"})
    /\ Finish(u)
    /\ \/ /\ msg[u].shape = "cut"
          /\ Report(u)
          /\ UNCHANGED pending
       \/ /\ msg[u].shape # "cut"
          /\ Push(u, "Forget", msg[u].n) /\ Proceed
    /\ UNCHANGED <<ops, init_done, finished, bufVars, msg, delivered, answered,
                   kernelVars, tokioVars>>

EnabledArms(u) == {arm \in Arms(msg[u].op) : arm.gate \in ops}

(* Mutant of KeepBuffer: the Write borrows its data without the Arc. *)
KeepBufferBorrowed(u) ==
    home' = [home EXCEPT ![u] = buf] /\ UNCHANGED <<buf, arcs>>

(* Write::new: the data stays where it was read to, and the request gets a *)
(* clone of the buffer's Arc.                                              *)
KeepBuffer(u) ==
    /\ home' = [home EXCEPT ![u] = buf]
    /\ arcs' = arcs \cup {u}
    /\ UNCHANGED buf

(* An enabled operation: a body that cannot be read drops the armed guard  *)
(* and reports an error; a Write keeps the buffer.                         *)
ProcessEnabled(u) ==
    /\ Dispatched(u, Opcode)
    /\ \E arm \in EnabledArms(u) :
        \/ /\ arm.body /\ msg[u].shape = "cut"
           /\ AnswerEnosys(u) /\ Report(u)
           /\ UNCHANGED <<pending, bufVars>>
        \/ /\ ~arm.body \/ msg[u].shape # "cut"
           /\ Push(u, VariantOf(arm, msg[u]), 1)
           /\ IF arm.variant = "Write" THEN KeepBuffer(u)
              ELSE UNCHANGED <<buf, home, arcs>>
           /\ Proceed
           /\ UNCHANGED <<answered, clobbered>>
    /\ Finish(u)
    /\ UNCHANGED <<ops, init_done, finished, msg, delivered, kernelVars,
                   tokioVars>>

(* Mutant of ProcessOther: the guard is disarmed. *)
ProcessOtherDisarmed(u) ==
    /\ Dispatched(u, (Opcode \ {"Destroy", "Forget", "BatchForget"})
                       \cup {"Rename", "Other"})
    /\ EnabledArms(u) = {}
    /\ Finish(u) /\ Proceed
    /\ UNCHANGED <<fuseVars, bufVars, msg, delivered, answered, kernelVars,
                   tokioVars>>

(* An unknown opcode, INTERRUPT, a second INIT, or a disabled operation:   *)
(* the guard is dropped armed.                                             *)
ProcessOther(u) ==
    /\ Dispatched(u, (Opcode \ {"Destroy", "Forget", "BatchForget"})
                       \cup {"Rename", "Other"})
    /\ EnabledArms(u) = {}
    /\ AnswerEnosys(u)
    /\ Finish(u) /\ Proceed
    /\ UNCHANGED <<fuseVars, bufVars, msg, delivered, kernelVars, tokioVars>>

-----------------------------------------------------------------------------
(* Mutant of FinishWrite: the buffer reference is not given back. *)
FinishWriteKeepsBuffer(u) ==
    /\ home[u] # 0 /\ delivered[u] > 0
    /\ home' = [home EXCEPT ![u] = 0]
    /\ UNCHANGED <<fuseVars, pc, last, buf, arcs, clobbered, msgVars,
                   kernelVars, tokioVars>>

(* The consumer is done with a Write request. *)
FinishWrite(u) ==
    /\ home[u] # 0 /\ delivered[u] > 0
    /\ home' = [home EXCEPT ![u] = 0]
    /\ arcs' = arcs \ {u}
    /\ UNCHANGED <<fuseVars, pc, last, buf, clobbered, msgVars, kernelVars,
                   tokioVars>>

(* Fuse::drop, between two polls.  What is still pending goes with it and  *)
(* so does the JoinHandle, the watcher is told to abort (WatcherExit), and *)
(* the unmount takes the connection down when the kernel gets to it        *)
(* (KernelDown).                                                           *)
DropFuse ==
    /\ pc \in Polled
    /\ pc' = "dropped"
    /\ pending' = <<>>
    /\ joiner' = FALSE
    /\ UNCHANGED <<ops, init_done, finished, last, bufVars, msgVars, kernelVars,
                   edge, readiness, fresh, reader, woken, watcher, joined>>

(* The kernel queues a message, takes one back, or ends the connection.    *)
KernelSend(u) ==
    /\ up /\ pc # "building" /\ state[u] = "unsent"
    /\ \E m \in Wire : msg' = [msg EXCEPT ![u] = m]
    /\ state' = [state EXCEPT ![u] = "queued"]
    /\ edge' = TRUE
    /\ UNCHANGED <<fuseVars, pc, last, bufVars, delivered, answered, reported,
                   kernelVars, readiness, fresh, reader, joiner, woken,
                   watcher, joined>>

KernelWithdraw(u) ==
    /\ state[u] = "queued"
    /\ state' = [state EXCEPT ![u] = "withdrawn"]
    /\ UNCHANGED <<fuseVars, pc, last, bufVars, msg, delivered, answered,
                   reported, kernelVars, tokioVars>>

KernelDown ==
    /\ up /\ pc # "building"
    /\ up' = FALSE
    /\ edge' = TRUE
    /\ UNCHANGED <<fuseVars, pc, last, bufVars, msgVars, faults, readiness,
                   fresh, reader, joiner, woken, watcher, joined>>

(* tokio's reactor takes the edge-triggered event: EPOLLIN for a message,  *)
(* EPOLLERR alone for a dead connection.  Only EPOLLIN wakes the reader.   *)
Events ==
    IF ~up THEN {"ERR"} ELSE IF Unread # {} THEN {"IN"} ELSE {}

React ==
    /\ edge
    /\ edge' = FALSE
    /\ readiness' = readiness \cup Events
    /\ fresh' = (fresh \/ Events # {})
    /\ woken' = (woken \/ (reader /\ "IN" \in Events))
    /\ reader' = (reader /\ "IN" \notin Events)
    /\ UNCHANGED <<fuseVars, pc, last, bufVars, msgVars, kernelVars, joiner,
                   watcher, joined>>

(* The watcher's ready(Interest::ERROR) completes, or is aborted, and with *)
(* it the task.                                                            *)
WatcherExit ==
    /\ watcher = "waiting" /\ ("ERR" \in readiness \/ pc = "dropped")
    /\ watcher' = "done"
    /\ woken' = (woken \/ joiner)
    /\ joiner' = FALSE
    /\ UNCHANGED <<fuseVars, pc, last, bufVars, msgVars, kernelVars, edge,
                   readiness, fresh, reader, joined>>

-----------------------------------------------------------------------------
ReadStep == ReadMessage \/ ReadWouldBlock \/ ReadGone \/ ReadError

ProcessStep(u) ==
    \/ ProcessBadHeader(u) \/ HandleInit(u) \/ ProcessDestroy(u)
    \/ ProcessForget(u) \/ ProcessBatchForget(u) \/ ProcessEnabled(u)
    \/ ProcessOther(u)

PollStep ==
    \/ PopPending \/ ReturnFinished \/ PollWatcher \/ PollReadReady
    \/ ReadStep \/ \E u \in Unique : ProcessStep(u)

KernelStep(u) == KernelSend(u) \/ KernelWithdraw(u)

Next ==
    \/ \E calls \in Programs : Mount(calls)
    \/ StartPoll \/ PollStep \/ DropFuse
    \/ \E u \in Unique : KernelStep(u) \/ FinishWrite(u)
    \/ KernelDown \/ React \/ WatcherExit

Spec == Init /\ [][Next]_vars

(* The consumer polls again after a value other than the end, and its      *)
(* executor polls it again after a wake-up; poll_next never blocks; the    *)
(* reactor and the watcher task are scheduled.                             *)
Repoll ==
    /\ (pc = "idle" /\ last # "end") \/ (pc = "parked" /\ woken)
    /\ StartPoll

FairSpec ==
    /\ Spec
    /\ WF_vars(Repoll) /\ WF_vars(PollStep)
    /\ WF_vars(React) /\ WF_vars(WatcherExit)

-----------------------------------------------------------------------------
(* Every variable stays within the values the code can give it. *)
TypeOK ==
    /\ ops \subseteq EnabledOps(DOMAIN Enables)
    /\ init_done \in BOOLEAN /\ finished \in BOOLEAN
    /\ pending \in Seq([from : Unique, variant : Variant])
    /\ pc \in {"building", "idle", "parked", "top", "ready", "read", "process",
               "dropped"}
    /\ last \in {"none", "request", "error", "pending", "end"}
    /\ buf \in Nat \ {0} /\ home \in [Unique -> Nat]
    /\ arcs \subseteq {u \in Unique : home[u] # 0}
    /\ clobbered \subseteq Unique
    /\ msg \in [Unique -> Wire \cup {NoMessage}]
    /\ state \in [Unique ->
                   {"unsent", "queued", "withdrawn", "buffer", "handled"}]
    /\ delivered \in [Unique -> Nat]
    /\ answered \subseteq Unique /\ reported \subseteq Unique
    /\ up \in BOOLEAN /\ faults \in 0..MaxFaults
    /\ edge \in BOOLEAN /\ readiness \subseteq {"IN", "ERR"}
    /\ fresh \in BOOLEAN /\ reader \in BOOLEAN /\ joiner \in BOOLEAN
    /\ woken \in BOOLEAN /\ watcher \in {"waiting", "done"}
    /\ joined \in BOOLEAN

(* How many requests a message should become. *)
Expected(u) ==
    CASE u \in reported -> 0
      [] u \notin reported /\ msg[u].op = "BatchForget" -> msg[u].n
      [] u \notin reported /\ msg[u].op = "Forget" -> 1
      [] OTHER -> IF EnabledArms(u) = {} THEN 0 ELSE 1

Queued(u) == Cardinality({i \in 1..Len(pending) : pending[i].from = u})

(* Every message read becomes exactly the requests it stands for, none     *)
(* twice and none lost between the queue and the consumer, whatever the    *)
(* order of polls, errors and wake-ups (process_request, poll_next).       *)
DeliveredExactlyOnce ==
    pc # "dropped" =>
        \A u \in Unique :
            delivered[u] + Queued(u) =
                IF state[u] = "handled" THEN Expected(u) ELSE 0

(* A message is never dropped silently, and never answered behind the      *)
(* consumer's back: once it is processed, its request has been handed out  *)
(* or is queued to be, or the session has answered it, or the consumer was *)
(* told of an error; not both of the first two, and each request is handed *)
(* out whether or not the stream was dropped meanwhile (RequestGuard's     *)
(* life in process_request).  DESTROY is disarmed on purpose, and no       *)
(* BATCH_FORGET is ever answered, before or after INIT ("FUSE_BATCH_FORGET *)
(* must never receive a reply"); how many requests it becomes is           *)
(* DeliveredExactlyOnce.  For a FORGET see NoReplyToForget.                *)
NothingUnaccounted ==
    \A u \in Unique :
        state[u] = "handled" =>
            /\ \/ msg[u].op \in {"BatchForget", "Destroy"}
               \/ u \in answered \cup reported
               \/ delivered[u] + Queued(u) = 1
            /\ u \in answered =>
                  msg[u].op # "BatchForget" /\ delivered[u] + Queued(u) = 0

(* "FUSE_FORGET must never receive a reply" (the arm of Opcode::Forget in  *)
(* process_request).  The code does not keep this: when the body is too    *)
(* short it returns early, and the armed guard answers.                    *)
NoReplyToForget == \A u \in Unique : msg[u].op = "Forget" => u \notin answered

is_terminated == finished

(* is_terminated() tells the truth: the stream is finished only when       *)
(* nothing is left to hand out, and exactly when the last poll said None.  *)
TerminatedIsTrue ==
    /\ is_terminated => pending = <<>>
    /\ pc = "idle" => (is_terminated <=> last = "end")

(* Between two polls only Forgets of a batch wait in `pending', so a Fuse  *)
(* dropped at that point throws away no request that anybody waits on.     *)
OnlyForgetsLeftBehind ==
    pc \in Polled =>
        \A i \in 1..Len(pending) : msg[pending[i].from].op = "BatchForget"

(* The data of a Write request is never overwritten by a later read while  *)
(* the request is alive ("allocate a fresh one instead of clobbering the   *)
(* in-flight data").                                                       *)
WriteDataIntact == clobbered = {}

(* The watcher's JoinHandle is never polled after it has completed, which  *)
(* would panic ("prevents us from polling the handle again").              *)
JoinHandleNotRepolled ==
    pc = "top" /\ pending = <<>> /\ ~finished => ~joined

(* A sleeping stream cannot miss its wake-up: both wakers are registered   *)
(* and neither event has passed unseen, and whenever the kernel has a      *)
(* message or has ended the connection, the event that will wake the       *)
(* stream is still on its way.                                             *)
NoLostWakeup ==
    pc = "parked" /\ ~woken =>
        /\ reader /\ joiner
        /\ "IN" \notin readiness /\ watcher = "waiting"
        /\ up /\ Unread # {} => edge
        /\ ~up => edge \/ "ERR" \in readiness

(* An unmount ends the stream, even one that sleeps (tests/mount.rs: "The  *)
(* handler should complete after unmount.").                               *)
UnmountEndsStream ==
    (~up /\ pc # "building") ~> (last = "end" \/ pc = "dropped")

(* A message is not left in the kernel's queue while the session lives.    *)
QueuedIsRead ==
    \A u \in Unique :
        state[u] = "queued" ~>
            \/ state[u] # "queued"
            \/ ~up \/ finished \/ pc = "dropped"
=============================================================================
