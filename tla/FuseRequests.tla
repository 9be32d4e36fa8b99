---------------------------- MODULE FuseRequests ----------------------------
(***************************************************************************)
(* The reply protocol of requests.rs: what happens to a request between    *)
(* the moment the session wraps it in a RequestGuard and the moment the    *)
(* guard is gone.  Every request type owns a guard, made of the kernel's   *)
(* `unique' and a counted reference to the /dev/fuse descriptor.  A reply  *)
(* either writes while the guard is armed and disarms it afterwards, or    *)
(* disarms (and so drops the descriptor reference) first and then writes   *)
(* to the bare descriptor number.  Dropping an armed guard writes ENOSYS.  *)
(*                                                                         *)
(* Requests may be held by different tasks and threads, so the steps of    *)
(* different requests interleave with each other, with the end of the      *)
(* stream and with the kernel.                                             *)
(***************************************************************************)
EXTENDS Naturals

CONSTANTS
    Unique,       \* the kernel's request identifiers in play
    Traffic,      \* the request variants the session may yield
    WriteErrors   \* may writev on a healthy device fail for another reason?

(* enum Request *)
Variant ==
    {"Lookup", "Forget", "Getattr", "Setattr", "Statfs", "Readdir",
     "ReaddirPlus", "Mkdir", "Create", "Mknod", "Open", "Release", "Read",
     "Unlink", "Rmdir", "Write", "Readlink", "Rename", "ListXAttrSize",
     "ListXAttr", "GetXAttrSize", "GetXAttr"}

ASSUME TrafficAssumption == Traffic \subseteq Variant
ASSUME WriteErrorsAssumption == WriteErrors \in BOOLEAN

VARIABLES
    variant,    \* variant[u]: which request type carries u ("none": unread)
    pc,         \* pc[u]: where the code that owns u's guard is
    sending,    \* sending[u]: the message about to be passed to writev
    result,     \* result[u]: what the consumer's reply or fail returned
    written,    \* written[u]: every message passed to writev for u
    stream,     \* Fuse is alive and holds a reference to the descriptor
    watcher,    \* the POLLERR task is alive and holds a reference
    fdnum,      \* what the descriptor number stands for in this process
    stray,      \* requests whose message went to a number that was not ours
    connected,  \* kernel: the FUSE connection is up
    kern,       \* kern[u]: state of the request in the kernel
    answer      \* answer[u]: the outcome the kernel gave to the requester

requestVars == <<variant, pc, sending, result, written>>
fdVars == <<stream, watcher, fdnum, stray>>
kernelVars == <<connected, kern, answer>>
vars == <<requestVars, fdVars, kernelVars>>

-----------------------------------------------------------------------------
(* Messages.  "data" and "vectored" are the consumer's success reply sent  *)
(* with send_reply and send_reply_vectored, "errno" is the code passed to  *)
(* fail(), the others are codes chosen by the library.                     *)
Success == {"data", "vectored"}
Message == Success \cup {"errno", "ERANGE", "EIO", "ENOSYS"}

(* The replies that map ENOENT to ReplyError::Cancelled. *)
CancellableVariant == {"Lookup", "Open", "Create"}

(***************************************************************************)
(* pc[u]:                                                                  *)
(*   "idle"      not yet read from the device                              *)
(*   "held"      owned by the session's queue or the consumer, guard armed *)
(*   "replying"  in send_reply, guard still armed                          *)
(*   "dropping"  in RequestGuard::drop with unique # 0                     *)
(*   "spent"     guard disarmed, its descriptor reference still held       *)
(*   "bare"      guard gone, message still to be written to the raw number *)
(*   "done"      nothing left to do                                        *)
(***************************************************************************)
Guarded == {"held", "replying", "dropping", "spent"}

(* Arc<OwnedFd>: the descriptor is open exactly as long as one of these is. *)
Referenced ==
    stream \/ watcher \/ \E u \in Unique : pc[u] \in Guarded

(* Mutant of HeldBesides: a guard keeps the number but no reference. *)
HeldBesidesGuards(u) == stream \/ watcher

(* Who would still hold the descriptor if u's guard were gone. *)
HeldBesides(u) ==
    stream \/ watcher \/ \E v \in Unique \ {u} : pc[v] \in Guarded

(* The kernel ends every request that still waits for the daemon. *)
CancelWaiting ==
    [u \in Unique |-> IF kern[u] = "waiting" THEN "cancelled" ELSE kern[u]]

(* Dropping an Arc<OwnedFd>: the last one closes the descriptor, and       *)
(* closing the device aborts the connection.                               *)
ReleaseFd(shared) ==
    \/ /\ shared
       /\ UNCHANGED <<fdnum, connected, kern>>
    \/ /\ ~shared
       /\ fdnum' = "closed"
       /\ connected' = FALSE
       /\ kern' = CancelWaiting

Init ==
    /\ variant = [u \in Unique |-> "none"]
    /\ pc = [u \in Unique |-> "idle"]
    /\ sending = [u \in Unique |-> "none"]
    /\ result = [u \in Unique |-> "none"]
    /\ written = [u \in Unique |-> {}]
    /\ stream = TRUE /\ watcher = TRUE
    /\ fdnum = "device" /\ stray = {}
    /\ connected = TRUE
    /\ kern = [u \in Unique |-> "unsent"]
    /\ answer = [u \in Unique |-> "none"]

(* The session reads request u and wraps it: RequestGuard::new.  FORGET is *)
(* the one message the kernel sends without waiting for an answer.         *)
Yield(u) ==
    /\ stream /\ connected
    /\ kern[u] = "unsent"
    /\ \E v \in Traffic :
        /\ variant' = [variant EXCEPT ![u] = v]
        /\ kern' = [kern EXCEPT ![u] =
                      IF v = "Forget" THEN "oneway" ELSE "waiting"]
    /\ pc' = [pc EXCEPT ![u] = "held"]
    /\ UNCHANGED <<sending, result, written, fdVars, connected, answer>>

-----------------------------------------------------------------------------
(* The ways a reply method begins. *)

Owns(u, variants) == pc[u] = "held" /\ variant[u] \in variants

Start(u, step, m) ==
    /\ pc' = [pc EXCEPT ![u] = step]
    /\ sending' = [sending EXCEPT ![u] = m]

(* reply_ok and reply_ok_cancellable: write first, disarm if it worked. *)
ReplyOk(u) ==
    /\ Start(u, "replying", "data")
    /\ UNCHANGED <<variant, result, written, fdVars, kernelVars>>

(* Mutant of DropGuard: the error code is forgotten. *)
DropGuardNoCode(u) ==
    /\ Start(u, "dropping", "none")
    /\ UNCHANGED <<variant, result, written, fdVars, kernelVars>>

(* RequestGuard::drop of an armed guard. *)
DropGuard(u) ==
    /\ Start(u, "dropping", "ENOSYS")
    /\ UNCHANGED <<variant, result, written, fdVars, kernelVars>>

(* A reply method that refuses its argument: Err, and self is dropped. *)
Reject(u) ==
    /\ Start(u, "dropping", "ENOSYS")
    /\ result' = [result EXCEPT ![u] = "Io"]
    /\ UNCHANGED <<variant, written, fdVars, kernelVars>>

(* RequestGuard::disarm() consumes the guard, and with it the reference to *)
(* the descriptor, before the message is written to the raw number.        *)
DisarmThenSend(u, m) ==
    /\ Start(u, "bare", m)
    /\ ReleaseFd(HeldBesides(u))
    /\ UNCHANGED <<variant, result, written, stream, watcher, stray, answer>>

(* reply_err *)
ReplyErr(u, m) == DisarmThenSend(u, m)

-----------------------------------------------------------------------------
(* The request types' own methods, in the order of the source. *)

LookupReply(u) == Owns(u, {"Lookup"}) /\ ReplyOk(u)

(* Mutant of DropRequest: dropping a guard disarms it. *)
DropRequestDisarmed(u) ==
    /\ Owns(u, Variant \ {"Forget", "Readdir", "ReaddirPlus"})
    /\ pc' = [pc EXCEPT ![u] = "spent"]
    /\ UNCHANGED <<variant, sending, result, written, fdVars, kernelVars>>

(* What dropping a request does where a type does not say otherwise. *)
DropRequest(u) ==
    /\ Owns(u, Variant \ {"Forget", "Readdir", "ReaddirPlus"})
    /\ DropGuard(u)

(* Forget: reply(), fail() and drop all come down to Drop, which disarms. *)
ForgetDrop(u) ==
    /\ Owns(u, {"Forget"})
    /\ pc' = [pc EXCEPT ![u] = "spent"]
    /\ UNCHANGED <<variant, sending, result, written, fdVars, kernelVars>>

GetattrReply(u) == Owns(u, {"Getattr"}) /\ ReplyOk(u)

StatfsReply(u) == Owns(u, {"Statfs"}) /\ ReplyOk(u)

(* Readdir and ReaddirPlus: reply() sends the buffer, a drop without a     *)
(* reply sends EIO.                                                        *)
ReaddirReply(u) == Owns(u, {"Readdir", "ReaddirPlus"}) /\ ReplyOk(u)

ReaddirDrop(u) == Owns(u, {"Readdir", "ReaddirPlus"}) /\ ReplyErr(u, "EIO")

MkdirReply(u) == Owns(u, {"Mkdir"}) /\ ReplyOk(u)

CreateReply(u) == Owns(u, {"Create"}) /\ DisarmThenSend(u, "vectored")

MknodReply(u) == Owns(u, {"Mknod"}) /\ ReplyOk(u)

OpenReply(u) == Owns(u, {"Open"}) /\ ReplyOk(u)

ReleaseReply(u) == Owns(u, {"Release"}) /\ ReplyOk(u)

(* Read: more data than was asked for is refused. *)
ReadReply(u) == Owns(u, {"Read"}) /\ (ReplyOk(u) \/ Reject(u))

ReadReplyVectored(u) ==
    /\ Owns(u, {"Read"})
    /\ DisarmThenSend(u, "vectored") \/ Reject(u)

SetattrReply(u) == Owns(u, {"Setattr"}) /\ ReplyOk(u)

UnlinkReply(u) == Owns(u, {"Unlink"}) /\ ReplyOk(u)

RmdirReply(u) == Owns(u, {"Rmdir"}) /\ ReplyOk(u)

RenameReply(u) == Owns(u, {"Rename"}) /\ ReplyOk(u)

(* Write: a count above the request's size is refused. *)
WriteReply(u) == Owns(u, {"Write"}) /\ (ReplyOk(u) \/ Reject(u))

(* Readlink: a target with a NUL in it is refused. *)
ReadlinkReply(u) == Owns(u, {"Readlink"}) /\ (ReplyOk(u) \/ Reject(u))

(* The size queries: a size above u32::MAX is refused. *)
ListXAttrSizeReply(u) ==
    Owns(u, {"ListXAttrSize"}) /\ (ReplyOk(u) \/ Reject(u))

GetXAttrSizeReply(u) ==
    Owns(u, {"GetXAttrSize"}) /\ (ReplyOk(u) \/ Reject(u))

(* The value queries: data above the caller's buffer size fails ERANGE. *)
ListXAttrReply(u) ==
    Owns(u, {"ListXAttr"}) /\ (ReplyOk(u) \/ ReplyErr(u, "ERANGE"))

GetXAttrReply(u) ==
    Owns(u, {"GetXAttr"}) /\ (ReplyOk(u) \/ ReplyErr(u, "ERANGE"))

(* FuseRequest::fail and io_fail, forwarded by Request::fail; for Forget   *)
(* it is ForgetDrop.                                                       *)
Fail(u) == Owns(u, Variant \ {"Forget"}) /\ ReplyErr(u, "errno")

-----------------------------------------------------------------------------
(* writev on the FUSE device, one message per call: "taken" hands the      *)
(* message to the requester, "gone" is ENOENT, because the kernel no       *)
(* longer knows the request or the connection is down.  The other errors   *)
(* leave the request waiting ("refused") or end it with EIO ("spoiled").   *)
Outcomes(u) ==
    IF connected /\ kern[u] = "waiting"
    THEN {"taken"} \cup (IF WriteErrors THEN {"refused", "spoiled"} ELSE {})
    ELSE {"gone"}

(* The same on a number that may have been closed, or closed and reused:   *)
(* EBADF, or whatever the file now behind the number answers.              *)
RawOutcomes(u) ==
    CASE fdnum = "device" -> Outcomes(u)
      [] fdnum = "closed" -> {"failed"}
      [] fdnum = "foreign" -> {"swallowed", "gone", "failed"}

(* The kernel's side of one writev for u. *)
Deliver(u, outcome) ==
    /\ written' = [written EXCEPT ![u] = @ \cup {sending[u]}]
    /\ kern' = [kern EXCEPT ![u] =
                  IF outcome \in {"taken", "spoiled"} THEN "answered" ELSE @]
    /\ answer' = [answer EXCEPT ![u] =
                    CASE outcome = "taken" -> sending[u]
                      [] outcome = "spoiled" -> "EIO"
                      [] OTHER -> @]

(* Mutant of Returned: ENOENT passes for success. *)
ReturnedOkIfGone(u, outcome) ==
    IF outcome \in {"taken", "swallowed", "gone"} THEN "Ok" ELSE "Io"

(* io::Result, mapped by cancellable() where the method's type says so. *)
Returned(u, outcome) ==
    CASE outcome \in {"taken", "swallowed"} -> "Ok"
      [] /\ outcome = "gone"
         /\ variant[u] \in CancellableVariant
         /\ sending[u] \in Success -> "Cancelled"
      [] OTHER -> "Io"

(* Mutant of SendGuarded: the guard is not disarmed after the reply. *)
SendGuardedStaysArmed(u) ==
    /\ pc[u] = "replying"
    /\ \E outcome \in Outcomes(u) :
        /\ Deliver(u, outcome)
        /\ result' = [result EXCEPT ![u] = Returned(u, outcome)]
        /\ Start(u, "dropping", "ENOSYS")
    /\ UNCHANGED <<variant, fdVars, connected>>

(* send_reply inside reply_ok or reply_ok_cancellable, and what follows:   *)
(* Ok and Cancelled disarm the guard, any other error leaves it armed and  *)
(* the end of the method drops it.                                         *)
SendGuarded(u) ==
    /\ pc[u] = "replying"
    /\ \E outcome \in Outcomes(u) :
        /\ Deliver(u, outcome)
        /\ result' = [result EXCEPT ![u] = Returned(u, outcome)]
        /\ \/ /\ Returned(u, outcome) \in {"Ok", "Cancelled"}
              /\ pc' = [pc EXCEPT ![u] = "spent"]
              /\ UNCHANGED sending
           \/ /\ Returned(u, outcome) = "Io"
              /\ Start(u, "dropping", "ENOSYS")
    /\ UNCHANGED <<variant, fdVars, connected>>

(* send_error_reply inside RequestGuard::drop; its result is ignored. *)
SendEnosys(u) ==
    /\ pc[u] = "dropping"
    /\ \E outcome \in Outcomes(u) : Deliver(u, outcome)
    /\ pc' = [pc EXCEPT ![u] = "spent"]
    /\ UNCHANGED <<variant, sending, result, fdVars, connected>>

(* The descriptor reference goes when the fields of the guard are dropped. *)
ReleaseGuard(u) ==
    /\ pc[u] = "spent"
    /\ pc' = [pc EXCEPT ![u] = "done"]
    /\ ReleaseFd(HeldBesides(u))
    /\ UNCHANGED <<variant, sending, result, written, stream, watcher, stray,
                   answer>>

(* send_reply or send_reply_vectored on the raw number kept by reply_err,  *)
(* Create::reply or Read::reply_vectored, with no guard left.  Nobody sees *)
(* the result of the EIO that a dropped Readdir sends.                     *)
SendBare(u) ==
    /\ pc[u] = "bare"
    /\ \E outcome \in RawOutcomes(u) :
        /\ Deliver(u, outcome)
        /\ result' = [result EXCEPT ![u] =
                        IF sending[u] = "EIO" THEN @ ELSE Returned(u, outcome)]
    /\ stray' = IF fdnum = "device" THEN stray ELSE stray \cup {u}
    /\ pc' = [pc EXCEPT ![u] = "done"]
    /\ UNCHANGED <<variant, sending, stream, watcher, fdnum, connected>>

-----------------------------------------------------------------------------
(* Fuse::drop gives up the stream's reference; the task that watches for   *)
(* POLLERR gives up its own once aborted or once the connection is down.   *)
DropFuse ==
    /\ stream
    /\ stream' = FALSE
    /\ ReleaseFd(watcher \/ \E u \in Unique : pc[u] \in Guarded)
    /\ UNCHANGED <<requestVars, watcher, stray, answer>>

WatcherExit ==
    /\ watcher
    /\ ~stream \/ ~connected
    /\ watcher' = FALSE
    /\ ReleaseFd(stream \/ \E u \in Unique : pc[u] \in Guarded)
    /\ UNCHANGED <<requestVars, stream, stray, answer>>

(* Some other thread opens a file and is given the closed number. *)
ReuseFd ==
    /\ fdnum = "closed"
    /\ fdnum' = "foreign"
    /\ UNCHANGED <<requestVars, stream, watcher, stray, kernelVars>>

(* The kernel gives up on one request, or on the connection. *)
KernelCancel(u) ==
    /\ kern[u] = "waiting"
    /\ kern' = [kern EXCEPT ![u] = "cancelled"]
    /\ UNCHANGED <<requestVars, fdVars, connected, answer>>

KernelAbort ==
    /\ connected
    /\ connected' = FALSE
    /\ kern' = CancelWaiting
    /\ UNCHANGED <<requestVars, fdVars, answer>>

-----------------------------------------------------------------------------
(* What the consumer may do with a request it holds. *)
ConsumerStep(u) ==
    \/ LookupReply(u) \/ DropRequest(u) \/ ForgetDrop(u) \/ GetattrReply(u)
    \/ StatfsReply(u) \/ ReaddirReply(u) \/ ReaddirDrop(u) \/ MkdirReply(u)
    \/ CreateReply(u) \/ MknodReply(u) \/ OpenReply(u) \/ ReleaseReply(u)
    \/ ReadReply(u) \/ ReadReplyVectored(u) \/ SetattrReply(u)
    \/ UnlinkReply(u) \/ RmdirReply(u) \/ RenameReply(u) \/ WriteReply(u)
    \/ ReadlinkReply(u) \/ ListXAttrSizeReply(u) \/ GetXAttrSizeReply(u)
    \/ ListXAttrReply(u) \/ GetXAttrReply(u) \/ Fail(u)

(* What a call that has begun goes on to do. *)
CallStep(u) ==
    SendGuarded(u) \/ SendEnosys(u) \/ SendBare(u) \/ ReleaseGuard(u)

Next ==
    \/ \E u \in Unique :
        Yield(u) \/ ConsumerStep(u) \/ CallStep(u) \/ KernelCancel(u)
    \/ DropFuse \/ WatcherExit \/ ReuseFd \/ KernelAbort

Spec == Init /\ [][Next]_vars

(* A reply that has begun runs to its end: it never waits for anything. *)
FairSpec == Spec /\ \A u \in Unique : WF_vars(CallStep(u))

-----------------------------------------------------------------------------
(* Every variable stays within the values the code can give it. *)
TypeOK ==
    /\ variant \in [Unique -> Variant \cup {"none"}]
    /\ pc \in [Unique -> Guarded \cup {"idle", "bare", "done"}]
    /\ sending \in [Unique -> Message \cup {"none"}]
    /\ result \in [Unique -> {"none", "Ok", "Cancelled", "Io"}]
    /\ written \in [Unique -> SUBSET Message]
    /\ stream \in BOOLEAN /\ watcher \in BOOLEAN /\ connected \in BOOLEAN
    /\ fdnum \in {"device", "closed", "foreign"}
    /\ stray \subseteq Unique
    /\ kern \in [Unique ->
                   {"unsent", "waiting", "oneway", "answered", "cancelled"}]
    /\ answer \in [Unique -> Message \cup {"none"}]

(* The descriptor is open exactly while somebody holds a reference, so no  *)
(* write under a live guard can miss the device and no reference leaks     *)
(* (RequestGuard, Fuse and the watcher share one Arc<OwnedFd>).            *)
FdLifetime == Referenced <=> fdnum = "device"

(* No message is ever written for a FORGET, whichever of reply, fail and   *)
(* drop ends it ("FUSE_FORGET must never receive a reply").                *)
ForgetUnanswered ==
    \A u \in Unique : variant[u] = "Forget" => written[u] = {}

(* What a reply method returns agrees with what the requester was told: Ok *)
(* if and only if the kernel took the consumer's own message, so after     *)
(* Cancelled or Io no lookup was counted and no Release will come          *)
(* (ReplyError's contract).  Requests in stray are the exception.          *)
ResultTruthful ==
    \A u \in Unique \ stray :
        /\ result[u] = "Ok" => answer[u] = sending[u] /\ answer[u] # "ENOSYS"
        /\ result[u] \in {"Cancelled", "Io"} =>
               answer[u] \in {"none", "EIO", "ENOSYS"}

(* A request is abandoned while the kernel still waits for it only after a *)
(* write was refused, and if the reply was sent under the guard only after *)
(* the ENOSYS fallback was refused as well.                                *)
NoSilentDrop ==
    \A u \in Unique :
        pc[u] \in {"spent", "done"} /\ kern[u] = "waiting" =>
            /\ written[u] # {}
            /\ "data" \in written[u] => "ENOSYS" \in written[u]

(* Once the consumer's reply was taken, or reported as Cancelled, nothing  *)
(* else is written for that request: the guard is disarmed.  For a FORGET  *)
(* nothing is written at all.                                              *)
SingleReply ==
    /\ ForgetUnanswered
    /\ \A u \in Unique \ stray :
          result[u] \in {"Ok", "Cancelled"} =>
              \E m \in Message \ {"ENOSYS"} : written[u] = {m}

(* A message can miss the device only at the very end: the stream and its  *)
(* watcher are gone, no guard is left, and the message came from one of    *)
(* the replies that disarm before they write.                              *)
StrayOnlyAtTeardown ==
    stray # {} =>
        /\ ~Referenced
        /\ \A u \in stray : written[u] \cap {"data", "ENOSYS"} = {}

(* Every reply is written to the FUSE device ("Reply functions write       *)
(* directly to the FUSE device file descriptor", requests.rs:3).           *)
RepliesReachDevice == stray = {}

(* No requester waits for ever for a request that the consumer has let go  *)
(* of, unless the device refused what was written for it, under the guard  *)
(* both the reply and the ENOSYS after it.                                 *)
LetGoIsSettled ==
    \A u \in Unique :
        pc[u] \notin {"idle", "held"} /\ kern[u] = "waiting"
            ~> \/ kern[u] # "waiting"
               \/ /\ pc[u] = "done" /\ written[u] # {}
                  /\ "data" \in written[u] => "ENOSYS" \in written[u]
=============================================================================
