------------------------- MODULE FuseSessionProofs -------------------------
(***************************************************************************)
(* Proofs about FuseSession, for any messages, any programs and any bound  *)
(* on I/O errors.                                                          *)
(***************************************************************************)
EXTENDS FuseSession, FiniteSetTheorems, TLAPS

-----------------------------------------------------------------------------
(* Facts about the operators the stream is built from. *)

(* The arms of process_request name a Request, and DESTROY, INIT and the   *)
(* two forgets have no arm of the form `Opcode::X if self.ops.y'.          *)
LEMMA ArmsType ==
    ASSUME NEW op, NEW arm \in Arms(op)
    PROVE  arm.variant \in Variant
<1> USE DEF Arm, Variant
<1>1. ASSUME op \in DOMAIN LookupArms, arm = LookupArms[op]
      PROVE  arm.variant \in Variant
  BY <1>1 DEF LookupArms
<1>2. ASSUME op \in DOMAIN NodeArms, arm = NodeArms[op]
      PROVE  arm.variant \in Variant
  BY <1>2 DEF NodeArms
<1>3. ASSUME op \in DOMAIN NameArms, arm = NameArms[op]
      PROVE  arm.variant \in Variant
  BY <1>3 DEF NameArms
<1>4. ASSUME op \in DOMAIN FileArms, arm = FileArms[op]
      PROVE  arm.variant \in Variant
  BY <1>4 DEF FileArms
<1>5. ASSUME op \in DOMAIN DirArms, arm = DirArms[op]
      PROVE  arm.variant \in Variant
  BY <1>5 DEF DirArms
<1>6. ASSUME op \in DOMAIN XattrArms, arm = XattrArms[op]
      PROVE  arm.variant \in Variant
  BY <1>6 DEF XattrArms
<1> QED
  BY <1>1, <1>2, <1>3, <1>4, <1>5, <1>6 DEF Arms

LEMMA Ungated ==
    ASSUME NEW op \in {"Destroy", "Init", "Forget", "BatchForget"}
    PROVE  Arms(op) = {}
BY DEF Arms, LookupArms, NodeArms, NameArms, FileArms, DirArms, XattrArms

(* The queue of requests: what is counted, and what handing one out and    *)
(* queueing some change about it.                                          *)
Entry == [from : Unique, variant : Variant]
Entries(q, u) == {i \in 1..Len(q) : q[i].from = u}

LEMMA EntriesFinite ==
    ASSUME NEW q \in Seq(Entry), NEW u
    PROVE  IsFiniteSet(Entries(q, u)) /\ Cardinality(Entries(q, u)) \in Nat
<1>1. IsFiniteSet(1..Len(q))
  BY FS_Interval
<1>2. Entries(q, u) \subseteq 1..Len(q)
  BY DEF Entries
<1> QED
  BY <1>1, <1>2, FS_Subset, FS_CardinalityType

LEMMA NoEntries ==
    ASSUME NEW u
    PROVE  Cardinality(Entries(<<>>, u)) = 0
<1>1. Entries(<<>>, u) = {}
  BY DEF Entries
<1> QED
  BY <1>1, FS_EmptySet

LEMMA TailEntries ==
    ASSUME NEW q \in Seq(Entry), q # <<>>, NEW u
    PROVE  /\ Cardinality(Entries(Tail(q), u)) \in Nat
           /\ Head(q).from = u =>
                 Cardinality(Entries(q, u)) = Cardinality(Entries(Tail(q), u)) + 1
           /\ Head(q).from # u =>
                 Cardinality(Entries(q, u)) = Cardinality(Entries(Tail(q), u))
<1> DEFINE f == [i \in Entries(Tail(q), u) |-> i + 1]
           Later == Entries(q, u) \ {1}
<1>1. Tail(q) \in Seq(Entry) /\ Len(Tail(q)) = Len(q) - 1
      /\ \A i \in 1..Len(Tail(q)) : Tail(q)[i] = q[i + 1]
  OBVIOUS
<1>2. f \in Bijection(Entries(Tail(q), u), Later)
  <2>1. \A i \in Entries(Tail(q), u) : i + 1 \in Later
    BY <1>1 DEF Entries
  <2>2. \A j \in Later : j - 1 \in Entries(Tail(q), u) /\ (j - 1) + 1 = j
    BY <1>1 DEF Entries
  <2>3. Entries(Tail(q), u) \subseteq Nat
    BY DEF Entries
  <2>4. f \in Injection(Entries(Tail(q), u), Later)
    BY <2>1, <2>3 DEF Injection, IsInjective
  <2>5. f \in Surjection(Entries(Tail(q), u), Later)
    BY <2>1, <2>2 DEF Surjection
  <2> QED
    BY <2>4, <2>5 DEF Bijection
<1>3. IsFiniteSet(Entries(q, u)) /\ IsFiniteSet(Entries(Tail(q), u))
      /\ Cardinality(Entries(q, u)) \in Nat
      /\ Cardinality(Entries(Tail(q), u)) \in Nat
  BY <1>1, EntriesFinite
<1>4. IsFiniteSet(Later)
  BY <1>3, FS_Subset
<1>5. Cardinality(Later) = Cardinality(Entries(Tail(q), u))
  BY <1>2, <1>3, <1>4, FS_Bijection DEF ExistsBijection
<1>6. 1 \in Entries(q, u) <=> Head(q).from = u
  <2>1. Len(q) \in Nat /\ Len(q) # 0 /\ Head(q) = q[1]
    OBVIOUS
  <2>2. 1 \in 1..Len(q)
    BY <2>1
  <2> QED
    BY <2>1, <2>2 DEF Entries
<1>7. Cardinality(Later) = IF 1 \in Entries(q, u) THEN Cardinality(Entries(q, u)) - 1
                           ELSE Cardinality(Entries(q, u))
  BY <1>3, FS_RemoveElement
<1> HIDE DEF Later
<1> QED
  BY <1>3, <1>5, <1>6, <1>7

(* `Push' onto an empty queue. *)
LEMMA PushEntries ==
    ASSUME NEW u \in Unique, NEW v \in Variant, NEW k \in Nat,
           pending = <<>>, Push(u, v, k)
    PROVE  /\ pending' \in Seq(Entry)
           /\ Len(pending') = k
           /\ \A i \in 1..k : pending'[i].from = u
           /\ Cardinality(Entries(pending', u)) = k
           /\ \A w : w # u => Cardinality(Entries(pending', w)) = 0
<1> DEFINE s == [i \in 1..k |-> [from |-> u, variant |-> v]]
<1>1. s \in Seq(Entry) /\ Len(s) = k
  BY DEF Entry
<1>2. pending' = s
  BY <1>1 DEF Push
<1> HIDE DEF s
<1>3. \A i \in 1..k : s[i].from = u
  BY DEF s
<1>4. Entries(pending', u) = 1..k
  BY <1>1, <1>2, <1>3 DEF Entries
<1>5. ASSUME NEW w, w # u PROVE Cardinality(Entries(pending', w)) = 0
  <2>1. Entries(pending', w) = {}
    BY <1>1, <1>2, <1>3, <1>5 DEF Entries
  <2> QED
    BY <2>1, FS_EmptySet
<1>6. Cardinality(1..k) = k
  BY FS_Interval
<1> QED
  BY <1>1, <1>2, <1>3, <1>4, <1>5, <1>6

-----------------------------------------------------------------------------
(***************************************************************************)
(* The seven handlers of process_request come down to four outcomes for    *)
(* the message in the buffer; the proofs go by those.                      *)
(***************************************************************************)
Processed(u) ==
    /\ InBuffer(u) /\ Finish(u)
    /\ init_done' \in BOOLEAN /\ faults' \in 0..MaxFaults
    /\ UNCHANGED <<ops, clobbered, msg, delivered, up, tokioVars>>

(* An error for the consumer, with or without an answer to the kernel. *)
Reported(u) ==
    /\ Report(u)
    /\ \/ UNCHANGED answered
       \/ AnswerEnosys(u) /\ msg[u].op # "BatchForget"
    /\ UNCHANGED <<finished, pending, buf, home, arcs>>

(* Answered by the session: INIT, or ENOSYS. *)
Answered(u) ==
    /\ Proceed /\ AnswerEnosys(u)
    /\ msg[u].op \notin {"Forget", "BatchForget"} /\ EnabledArms(u) = {}
    /\ UNCHANGED <<finished, pending, buf, home, arcs>>

Destroyed(u) ==
    /\ Proceed /\ finished' = TRUE
    /\ msg[u].op = "Destroy" /\ EnabledArms(u) = {}
    /\ UNCHANGED <<answered, pending, buf, home, arcs>>

(* Requests for the consumer. *)
Enqueued(u) ==
    /\ Proceed
    /\ \E v \in Variant :
        \/ msg[u].op = "BatchForget" /\ Push(u, v, msg[u].n)
        \/ msg[u].op = "Forget" /\ Push(u, v, 1)
        \/ /\ msg[u].op \notin {"Forget", "BatchForget"} /\ EnabledArms(u) # {}
           /\ Push(u, v, 1)
    /\ KeepBuffer(u) \/ UNCHANGED <<buf, home, arcs>>
    /\ UNCHANGED <<finished, answered>>

Outcome(u) ==
    Processed(u) /\ (Reported(u) \/ Answered(u) \/ Destroyed(u) \/ Enqueued(u))

LEMMA EnabledUngated ==
    ASSUME NEW u, EnabledArms(u) # {}
    PROVE  msg[u].op \notin {"Destroy", "Init", "Forget", "BatchForget"}
BY Ungated DEF EnabledArms

LEMMA ProcessOutcome ==
    ASSUME TypeOK, NEW u \in Unique, ProcessStep(u)
    PROVE  Outcome(u)
<1> USE DEF Outcome, Processed, kernelVars, Dispatched
<1>1. init_done \in BOOLEAN /\ faults \in 0..MaxFaults
  BY DEF TypeOK
<1>2. CASE ProcessBadHeader(u)
  BY <1>1, <1>2 DEF ProcessBadHeader, Reported, fuseVars, bufVars
<1>3. CASE HandleInit(u)
  <2>1. faults > 0 => faults - 1 \in 0..MaxFaults
    BY <1>1, MaxFaultsAssumption
  <2>2. CASE Report(u) /\ UNCHANGED <<init_done, answered>>
    BY <1>1, <1>3, <2>1, <2>2 DEF HandleInit, Reported, bufVars, Report, Return
  <2>3. CASE /\ msg[u].op = "Init" /\ init_done' = TRUE /\ UNCHANGED faults
             /\ answered' = answered \cup {u} /\ Proceed
    <3>1. EnabledArms(u) = {}
      BY <2>3, EnabledUngated
    <3> QED
      BY <1>1, <1>3, <2>3, <3>1 DEF HandleInit, Answered, AnswerEnosys, bufVars
  <2> QED
    BY <1>3, <2>2, <2>3 DEF HandleInit
<1>4. CASE ProcessDestroy(u)
  <2>1. EnabledArms(u) = {}
    BY <1>4, EnabledUngated DEF ProcessDestroy
  <2> QED
    BY <1>1, <1>4, <2>1 DEF ProcessDestroy, Destroyed, bufVars
<1>5. CASE ProcessForget(u)
  <2>1. CASE AnswerEnosys(u) /\ Report(u) /\ UNCHANGED pending /\ msg[u].shape = "cut"
    BY <1>1, <1>5, <2>1 DEF ProcessForget, Reported, bufVars
  <2>2. CASE Push(u, "Forget", 1) /\ Proceed /\ UNCHANGED answered
    <3>1. Enqueued(u)
      BY <1>5, <2>2 DEF ProcessForget, Enqueued, Variant, bufVars
    <3> QED
      BY <1>1, <1>5, <3>1 DEF ProcessForget, bufVars
  <2> QED
    BY <1>5, <2>1, <2>2 DEF ProcessForget
<1>6. CASE ProcessBatchForget(u)
  <2>1. CASE Report(u) /\ UNCHANGED pending
    BY <1>1, <1>6, <2>1 DEF ProcessBatchForget, Reported, bufVars
  <2>2. CASE Push(u, "Forget", msg[u].n) /\ Proceed
    <3>1. Enqueued(u)
      BY <1>6, <2>2 DEF ProcessBatchForget, Enqueued, Variant, bufVars
    <3> QED
      BY <1>1, <1>6, <3>1 DEF ProcessBatchForget, bufVars
  <2> QED
    BY <1>6, <2>1, <2>2 DEF ProcessBatchForget
<1>7. CASE ProcessEnabled(u)
  <2>1. PICK arm \in EnabledArms(u) :
          \/ /\ AnswerEnosys(u) /\ Report(u)
             /\ UNCHANGED <<pending, bufVars>>
          \/ /\ Push(u, VariantOf(arm, msg[u]), 1)
             /\ KeepBuffer(u) \/ UNCHANGED <<buf, home, arcs>>
             /\ Proceed
             /\ UNCHANGED <<answered, clobbered>>
    BY <1>7 DEF ProcessEnabled
  <2>2. msg[u].op \notin {"Forget", "BatchForget"} /\ EnabledArms(u) # {}
    BY <2>1, EnabledUngated
  <2>3. VariantOf(arm, msg[u]) \in Variant
    BY <2>1, ArmsType DEF EnabledArms, VariantOf, Variant
  <2>4. CASE AnswerEnosys(u) /\ Report(u) /\ UNCHANGED <<pending, bufVars>>
    BY <1>1, <1>7, <2>2, <2>4 DEF ProcessEnabled, Reported, bufVars
  <2>5. CASE /\ Push(u, VariantOf(arm, msg[u]), 1)
             /\ KeepBuffer(u) \/ UNCHANGED <<buf, home, arcs>>
             /\ Proceed
             /\ UNCHANGED <<answered, clobbered>>
    BY <1>1, <1>7, <2>2, <2>3, <2>5 DEF ProcessEnabled, Enqueued
  <2> QED
    BY <2>1, <2>4, <2>5
<1>8. CASE ProcessOther(u)
  BY <1>1, <1>8 DEF ProcessOther, Answered, fuseVars, bufVars, Opcode
<1> QED
  BY <1>2, <1>3, <1>4, <1>5, <1>6, <1>7, <1>8 DEF ProcessStep

-----------------------------------------------------------------------------
(***************************************************************************)
(* The inductive invariant, in four parts.                                 *)
(*                                                                         *)
(* What poll_next has and has not done, by where it is: at most one        *)
(* message is between read(2) and its dispatch; the queue is empty from    *)
(* the moment the loop passes it until a message is dispatched, holds one  *)
(* request or the Forgets of a batch at the head of the loop, and Forgets  *)
(* only once one has been handed out; and the end is remembered.           *)
(***************************************************************************)
OneInBuffer ==
    /\ \A u \in Unique : state[u] = "buffer" => pc = "process"
    /\ \A u, v \in Unique : state[u] = "buffer" /\ state[v] = "buffer" => u = v

OnlyForgets == \A i \in 1..Len(pending) : msg[pending[i].from].op = "BatchForget"

QueueByPhase ==
    /\ pc \notin {"top", "idle"} => pending = <<>>
    /\ pc = "idle" => OnlyForgets
    /\ pc = "top" => Len(pending) <= 1 \/ OnlyForgets
    /\ \A i \in 1..Len(pending) : state[pending[i].from] = "handled"

EndIsKept ==
    /\ finished => pending = <<>> /\ pc \in {"top", "idle", "dropped"}
    /\ pc = "idle" => (finished <=> last = "end")
    /\ pc = "building" => last = "none"
    /\ joined => finished

StreamInv == OneInBuffer /\ QueueByPhase /\ EndIsKept

(***************************************************************************)
(* The buffers: a live Write holds the Arc of the buffer its data lies in, *)
(* and that is not one that is still to be allocated.                      *)
(***************************************************************************)
BufferInv ==
    /\ clobbered = {}
    /\ \A u \in Unique : home[u] # 0 => u \in arcs /\ home[u] <= buf

(***************************************************************************)
(* The wakers: the JoinHandle's is registered before the readiness is      *)
(* looked at, and an event that is due is either still to be taken by the  *)
(* reactor or recorded in the readiness.                                   *)
(***************************************************************************)
WakersByPhase ==
    /\ pc \in {"ready", "parked"} /\ ~woken => joiner /\ watcher = "waiting"
    /\ pc = "parked" /\ ~woken => reader /\ "IN" \notin readiness

EventsRecorded ==
    /\ up /\ Unread # {} => edge \/ "IN" \in readiness
    /\ ~up => edge \/ "ERR" \in readiness

WakeInv == WakersByPhase /\ EventsRecorded

(***************************************************************************)
(* The books on every message: only a processed message has been answered  *)
(* or reported, what was answered never reaches the consumer, and the      *)
(* requests handed out and queued are those the message stands for.        *)
(***************************************************************************)
Accounted(u) ==
    /\ u \in answered \cup reported => state[u] = "handled"
    /\ u \in answered =>
          delivered[u] = 0 /\ Queued(u) = 0 /\ msg[u].op # "BatchForget"
    /\ state[u] = "handled" =>
          \/ msg[u].op \in {"BatchForget", "Destroy"}
          \/ u \in answered \cup reported
          \/ delivered[u] + Queued(u) = 1
    /\ pc # "dropped" =>
          delivered[u] + Queued(u) = IF state[u] = "handled" THEN Expected(u) ELSE 0

AccountInv ==
    /\ pc = "building" => \A u \in Unique : state[u] = "unsent"
    /\ \A u \in Unique : Accounted(u)

-----------------------------------------------------------------------------
(* Types. *)
LEMMA ProgramsType ==
    ASSUME NEW calls \in Programs
    PROVE  EnabledOps(calls) \subseteq EnabledOps(DOMAIN Enables)
BY ProgramsAssumption DEF EnabledOps

LEMMA TypeInit == Init => TypeOK
<1>1. DefaultOps \subseteq EnabledOps(DOMAIN Enables)
  BY DEF EnabledOps
<1>2. <<>> \in Seq([from : Unique, variant : Variant])
  OBVIOUS
<1>3. ASSUME Init
      PROVE  /\ init_done \in BOOLEAN /\ finished \in BOOLEAN /\ up \in BOOLEAN
             /\ edge \in BOOLEAN /\ fresh \in BOOLEAN /\ reader \in BOOLEAN
             /\ joiner \in BOOLEAN /\ woken \in BOOLEAN /\ joined \in BOOLEAN
  BY <1>3 DEF Init
<1>4. ASSUME Init
      PROVE  /\ msg \in [Unique -> Wire \cup {NoMessage}]
             /\ state \in [Unique -> {"unsent", "queued", "withdrawn", "buffer", "handled"}]
             /\ delivered \in [Unique -> Nat]
             /\ buf \in Nat \ {0} /\ home \in [Unique -> Nat]
             /\ arcs \subseteq {u \in Unique : home[u] # 0}
  BY <1>4 DEF Init
<1>5. MaxFaults \in 0..MaxFaults
  BY MaxFaultsAssumption
<1> QED
  BY <1>1, <1>2, <1>3, <1>4, <1>5 DEF Init, TypeOK

(* The steps of poll_next up to the dispatch, and of its caller. *)
LEMMA PollType ==
    ASSUME TypeOK,
           \/ \E calls \in Programs : Mount(calls)
           \/ StartPoll \/ PopPending \/ ReturnFinished \/ PollWatcher
           \/ PollReadReady \/ ReadStep \/ DropFuse
    PROVE  TypeOK'
<1> USE DEF TypeOK, Return, fuseVars, bufVars, msgVars, kernelVars, tokioVars
<1>1. ASSUME NEW calls \in Programs, Mount(calls) PROVE TypeOK'
  BY <1>1, ProgramsType DEF Mount
<1>2. CASE StartPoll
  <2>1. pc' = "top" /\ woken' = FALSE
    BY <1>2 DEF StartPoll
  <2>2. UNCHANGED <<ops, init_done, finished, pending, last, buf, home, arcs, clobbered>>
    BY <1>2 DEF StartPoll
  <2>3. UNCHANGED <<msg, state, delivered, answered, reported>>
    BY <1>2 DEF StartPoll
  <2>4. UNCHANGED <<up, faults, edge, readiness, fresh, reader, joiner, watcher, joined>>
    BY <1>2 DEF StartPoll
  <2> QED
    BY <2>1, <2>2, <2>3, <2>4, ZenonT(40)
<1>3. CASE PopPending
  <2>1. pending \in Seq(Entry) /\ pending # <<>>
    BY <1>3 DEF PopPending, Entry
  <2>2. Head(pending) \in Entry /\ Tail(pending) \in Seq(Entry)
    BY <2>1
  <2>3. delivered' \in [Unique -> Nat]
    BY <1>3, <2>2 DEF PopPending, Entry
  <2> QED
    BY <1>3, <2>2, <2>3, SMTT(30) DEF PopPending, Entry
<1>4. CASE ReturnFinished
  BY <1>4 DEF ReturnFinished
<1>5. CASE PollWatcher
  BY <1>5, ZenonT(40) DEF PollWatcher
<1>6. CASE PollReadReady
  <2>1. fresh' \in BOOLEAN /\ reader' \in BOOLEAN
    BY <1>6 DEF PollReadReady
  <2> QED
    BY <1>6, <2>1 DEF PollReadReady
<1>7. CASE ReadMessage
  BY <1>7 DEF ReadMessage, TakeBuffer, Unread
<1>8. CASE ReadWouldBlock
  BY <1>8 DEF ReadWouldBlock, TakeBuffer
<1>9. CASE ReadGone
  BY <1>9 DEF ReadGone, TakeBuffer
<1>10. CASE ReadError
  BY <1>10, MaxFaultsAssumption DEF ReadError, TakeBuffer
<1>11. CASE DropFuse
  <2>1. pending' \in Seq([from : Unique, variant : Variant])
    BY <1>11 DEF DropFuse
  <2>2. joiner' \in BOOLEAN
    BY <1>11 DEF DropFuse
  <2> QED
    BY <1>11, <2>1, <2>2 DEF DropFuse
<1> QED
  BY <1>1, <1>2, <1>3, <1>4, <1>5, <1>6, <1>7, <1>8, <1>9, <1>10, <1>11
     DEF ReadStep

LEMMA ProcessType ==
    ASSUME TypeOK, StreamInv, NEW u \in Unique, ProcessStep(u)
    PROVE  TypeOK'
<1> USE DEF TypeOK, Processed, tokioVars
<1>1. Outcome(u)
  BY ProcessOutcome
<1>2. pending = <<>> /\ msg[u].n \in Nat
  <2>1. pending = <<>>
    BY <1>1 DEF Outcome, InBuffer, StreamInv, QueueByPhase
  <2>2. msg[u] \in Wire \cup {NoMessage}
    OBVIOUS
  <2>3. NoMessage.n \in Nat
    BY DEF NoMessage
  <2> QED
    BY <2>1, <2>2, <2>3, WireAssumption
<1>3. state' \in [Unique -> {"unsent", "queued", "withdrawn", "buffer", "handled"}]
  BY <1>1 DEF Outcome, Finish
<1>4. CASE Reported(u)
  BY <1>1, <1>3, <1>4 DEF Outcome, Reported, Report, Return, AnswerEnosys
<1>5. CASE Answered(u)
  BY <1>1, <1>3, <1>5 DEF Outcome, Answered, AnswerEnosys, Proceed
<1>6. CASE Destroyed(u)
  BY <1>1, <1>3, <1>6 DEF Outcome, Destroyed, Proceed
<1>7. CASE Enqueued(u)
  <2>1. pending' \in Seq(Entry)
    BY <1>2, <1>7, PushEntries DEF Enqueued
  <2>2. /\ buf' \in Nat \ {0} /\ home' \in [Unique -> Nat]
        /\ arcs' \subseteq {w \in Unique : home'[w] # 0}
    BY <1>7, ZenonT(40) DEF Enqueued, KeepBuffer
  <2> QED
    BY <1>1, <1>3, <1>7, <2>1, <2>2, SMTT(30) DEF Outcome, Enqueued, Proceed, Entry
<1> QED
  BY <1>1, <1>4, <1>5, <1>6, <1>7 DEF Outcome

(* The consumer, the kernel, the reactor and the watcher. *)
LEMMA OutsideType ==
    ASSUME TypeOK,
           \/ \E u \in Unique : KernelStep(u) \/ FinishWrite(u)
           \/ KernelDown \/ React \/ WatcherExit
    PROVE  TypeOK'
<1> USE DEF TypeOK, fuseVars, bufVars, msgVars, kernelVars, tokioVars
<1>1. ASSUME NEW u \in Unique, KernelSend(u) PROVE TypeOK'
  BY <1>1 DEF KernelSend
<1>2. ASSUME NEW u \in Unique, KernelWithdraw(u) PROVE TypeOK'
  BY <1>2 DEF KernelWithdraw
<1>3. ASSUME NEW u \in Unique, FinishWrite(u) PROVE TypeOK'
  BY <1>3 DEF FinishWrite
<1>4. CASE KernelDown
  <2>1. up' \in BOOLEAN /\ edge' \in BOOLEAN
    BY <1>4 DEF KernelDown
  <2> QED
    BY <1>4, <2>1 DEF KernelDown
<1>5. CASE React
  <2>1. readiness' \subseteq {"IN", "ERR"}
    BY <1>5 DEF React, Events
  <2>2. /\ edge' \in BOOLEAN /\ fresh' \in BOOLEAN
        /\ woken' \in BOOLEAN /\ reader' \in BOOLEAN
    BY <1>5, Zenon DEF React
  <2> QED
    BY <1>5, <2>1, <2>2 DEF React
<1>6. CASE WatcherExit
  <2>1. woken' \in BOOLEAN /\ joiner' \in BOOLEAN
    BY <1>6, Zenon DEF WatcherExit
  <2> QED
    BY <1>6, <2>1 DEF WatcherExit
<1> QED
  BY <1>1, <1>2, <1>3, <1>4, <1>5, <1>6 DEF KernelStep

-----------------------------------------------------------------------------
(* StreamInv. *)
LEMMA QueueType ==
    ASSUME TypeOK
    PROVE  /\ pending \in Seq(Entry)
           /\ \A i \in 1..Len(pending) : pending[i].from \in Unique
<1>1. pending \in Seq(Entry)
  BY DEF TypeOK, Entry
<1>2. \A i \in 1..Len(pending) : pending[i] \in Entry
  BY <1>1
<1> QED
  BY <1>1, <1>2 DEF Entry

LEMMA StreamInit == Init => StreamInv
BY DEF Init, StreamInv, OneInBuffer, QueueByPhase, EndIsKept, OnlyForgets

(* Nothing that StreamInv speaks of, other than pc, has changed. *)
LEMMA StreamFrame ==
    ASSUME StreamInv, UNCHANGED <<pc, state, pending, msg, finished, last,
                                  joined>>
    PROVE  StreamInv'
BY DEF StreamInv, OneInBuffer, QueueByPhase, EndIsKept, OnlyForgets

LEMMA StreamPoll ==
    ASSUME TypeOK, StreamInv,
           \/ \E calls \in Programs : Mount(calls)
           \/ StartPoll \/ PopPending \/ ReturnFinished \/ PollWatcher
           \/ PollReadReady \/ ReadStep \/ DropFuse
    PROVE  StreamInv'
<1> USE DEF StreamInv, OneInBuffer, QueueByPhase, EndIsKept, OnlyForgets,
            Return, fuseVars, bufVars, msgVars, tokioVars, Polled
<1>1. ASSUME NEW calls \in Programs, Mount(calls) PROVE StreamInv'
  BY <1>1 DEF Mount
<1>2. CASE StartPoll
  BY <1>2 DEF StartPoll
<1>3. CASE PopPending
  <2>1. pending \in Seq(Entry) /\ pending # <<>>
    BY <1>3, QueueType DEF PopPending
  <2>2. /\ Len(pending') = Len(pending) - 1
        /\ \A i \in 1..Len(pending') :
              i + 1 \in 1..Len(pending) /\ pending'[i] = pending[i + 1]
    BY <1>3, <2>1 DEF PopPending
  <2>3. \A i \in 1..Len(pending') : state'[pending'[i].from] = "handled"
    BY <1>3, <2>2 DEF PopPending
  <2>4. OnlyForgets'
    <3>1. CASE OnlyForgets
      BY <1>3, <2>2, <3>1 DEF PopPending
    <3>2. CASE Len(pending) <= 1
      BY <2>1, <2>2, <3>2
    <3> QED
      BY <1>3, <3>1, <3>2 DEF PopPending
  <2>5. OneInBuffer'
    BY <1>3 DEF PopPending
  <2>6. EndIsKept'
    BY <1>3 DEF PopPending
  <2> QED
    BY <1>3, <2>3, <2>4, <2>5, <2>6 DEF PopPending
<1>4. CASE ReturnFinished
  BY <1>4 DEF ReturnFinished
<1>5. CASE PollWatcher
  BY <1>5 DEF PollWatcher
<1>6. CASE PollReadReady
  BY <1>6 DEF PollReadReady
<1>7. CASE ReadMessage
  <2>1. PICK u \in Unread : state' = [state EXCEPT ![u] = "buffer"]
    BY <1>7 DEF ReadMessage
  <2>2. OneInBuffer'
    BY <1>7, <2>1 DEF ReadMessage, TypeOK
  <2>3. pending' = <<>>
    BY <1>7 DEF ReadMessage
  <2> QED
    BY <1>7, <2>2, <2>3 DEF ReadMessage
<1>8. CASE ReadWouldBlock
  BY <1>8 DEF ReadWouldBlock
<1>9. CASE ReadGone
  BY <1>9 DEF ReadGone
<1>10. CASE ReadError
  BY <1>10 DEF ReadError
<1>11. CASE DropFuse
  BY <1>11 DEF DropFuse
<1> QED
  BY <1>1, <1>2, <1>3, <1>4, <1>5, <1>6, <1>7, <1>8, <1>9, <1>10, <1>11
     DEF ReadStep

LEMMA StreamProcess ==
    ASSUME TypeOK, StreamInv, NEW u \in Unique, ProcessStep(u)
    PROVE  StreamInv'
<1> USE DEF StreamInv, EndIsKept
<1>1. Outcome(u)
  BY ProcessOutcome
<1>2. /\ pc = "process" /\ pending = <<>> /\ finished = FALSE /\ joined' = FALSE
      /\ UNCHANGED msg
  BY <1>1 DEF Outcome, Processed, InBuffer, QueueByPhase, tokioVars, TypeOK
<1>3. pc' \in {"idle", "top"}
  BY <1>1 DEF Outcome, Reported, Answered, Destroyed, Enqueued, Report,
              Return, Proceed
<1>4. OneInBuffer'
  BY <1>1 DEF Outcome, Processed, InBuffer, Finish, OneInBuffer, TypeOK
<1>5. CASE UNCHANGED pending
  <2>1. QueueByPhase'
    BY <1>2, <1>5 DEF QueueByPhase, OnlyForgets
  <2>2. CASE Reported(u)
    BY <1>2, <1>4, <2>1, <2>2, <1>5 DEF Reported, Report, Return
  <2>3. CASE Answered(u) \/ Destroyed(u) \/ Enqueued(u)
    <3>1. pc' = "top"
      BY <2>3 DEF Answered, Destroyed, Enqueued, Proceed
    <3> QED
      BY <1>2, <1>4, <1>5, <2>1, <3>1
  <2> QED
    BY <1>1, <2>2, <2>3 DEF Outcome
<1>6. CASE Enqueued(u)
  <2>1. PICK v \in Variant, k \in Nat :
          Push(u, v, k) /\ (k <= 1 \/ msg[u].op = "BatchForget")
    <3>1. msg[u].n \in Nat
      <4>1. msg[u] \in Wire \cup {NoMessage}
        BY DEF TypeOK
      <4>2. NoMessage.n \in Nat
        BY DEF NoMessage
      <4> QED
        BY <4>1, <4>2, WireAssumption
    <3> QED
      BY <1>6, <3>1 DEF Enqueued
  <2>2. Len(pending') = k /\ \A i \in 1..Len(pending') : pending'[i].from = u
    BY <1>2, <2>1, PushEntries
  <2>3. pc' = "top" /\ finished' = FALSE
    BY <1>2, <1>6 DEF Enqueued, Proceed
  <2>4. state'[u] = "handled"
    BY <1>1 DEF Outcome, Processed, Finish, TypeOK
  <2>5. QueueByPhase'
    BY <1>2, <2>1, <2>2, <2>3, <2>4 DEF QueueByPhase, OnlyForgets
  <2> QED
    BY <1>2, <1>4, <2>3, <2>5
<1> QED
  BY <1>1, <1>5, <1>6 DEF Outcome, Reported, Answered, Destroyed

LEMMA StreamOutside ==
    ASSUME TypeOK, StreamInv,
           \/ \E u \in Unique : KernelStep(u) \/ FinishWrite(u)
           \/ KernelDown \/ React \/ WatcherExit
    PROVE  StreamInv'
<1> USE DEF fuseVars, bufVars, msgVars, kernelVars, tokioVars
<1>1. ASSUME NEW u \in Unique, state[u] # "handled", state[u] # "buffer",
             state'[u] \notin {"handled", "buffer"},
             \A w \in Unique \ {u} : state'[w] = state[w] /\ msg'[w] = msg[w],
             UNCHANGED <<pc, pending, finished, last, joined>>
      PROVE  StreamInv'
  <2>1. \A i \in 1..Len(pending) : pending[i].from \in Unique \ {u}
    BY <1>1, QueueType DEF StreamInv, QueueByPhase
  <2>2. OneInBuffer'
    BY <1>1 DEF StreamInv, OneInBuffer
  <2>3. OnlyForgets => OnlyForgets'
    BY <1>1, <2>1 DEF OnlyForgets
  <2> QED
    BY <1>1, <2>1, <2>2, <2>3 DEF StreamInv, QueueByPhase, EndIsKept
<1>2. ASSUME NEW u \in Unique, KernelSend(u) PROVE StreamInv'
  BY <1>1, <1>2 DEF KernelSend, TypeOK
<1>3. ASSUME NEW u \in Unique, KernelWithdraw(u) PROVE StreamInv'
  BY <1>1, <1>3 DEF KernelWithdraw, TypeOK
<1>4. ASSUME NEW u \in Unique, FinishWrite(u) PROVE StreamInv'
  BY <1>4, StreamFrame DEF FinishWrite
<1>5. CASE KernelDown \/ React \/ WatcherExit
  BY <1>5, StreamFrame DEF KernelDown, React, WatcherExit
<1> QED
  BY <1>2, <1>3, <1>4, <1>5 DEF KernelStep

-----------------------------------------------------------------------------
(* The first two parts together, and what they say of the stream. *)
LEMMA StreamNext ==
    ASSUME TypeOK, StreamInv, [Next]_vars
    PROVE  TypeOK' /\ StreamInv'
<1>1. CASE \/ \E calls \in Programs : Mount(calls)
           \/ StartPoll \/ PopPending \/ ReturnFinished \/ PollWatcher
           \/ PollReadReady \/ ReadStep \/ DropFuse
  BY <1>1, PollType, StreamPoll
<1>2. CASE \E u \in Unique : ProcessStep(u)
  BY <1>2, ProcessType, StreamProcess
<1>3. CASE \/ \E u \in Unique : KernelStep(u) \/ FinishWrite(u)
           \/ KernelDown \/ React \/ WatcherExit
  BY <1>3, OutsideType, StreamOutside
<1>4. CASE UNCHANGED vars
  <2>1. TypeOK'
    BY <1>4 DEF vars, TypeOK, fuseVars, bufVars, msgVars, kernelVars, tokioVars
  <2> QED
    BY <1>4, <2>1, StreamFrame DEF vars, fuseVars, bufVars, msgVars, tokioVars
<1> QED
  BY <1>1, <1>2, <1>3, <1>4 DEF Next, PollStep

LEMMA StreamAlways == Spec => [](TypeOK /\ StreamInv)
<1>1. Init => TypeOK /\ StreamInv
  BY TypeInit, StreamInit
<1>2. TypeOK /\ StreamInv /\ [Next]_vars => (TypeOK /\ StreamInv)'
  BY StreamNext
<1> QED
  BY <1>1, <1>2, PTL DEF Spec

(* Every variable keeps its type, for any messages and programs. *)
THEOREM SessionTypes == Spec => []TypeOK
BY StreamAlways, PTL

(* The stream ends once and for good: is_terminated() is true exactly when *)
(* poll_next has said None, and nothing is left to hand out then.          *)
THEOREM TerminationIsTold == Spec => []TerminatedIsTrue
<1>1. TypeOK /\ StreamInv => TerminatedIsTrue
  BY DEF StreamInv, EndIsKept, TerminatedIsTrue, is_terminated
<1> QED
  BY <1>1, StreamAlways, PTL

(* A Fuse that is dropped between two polls loses Forgets only. *)
THEOREM NoRequestLeftBehind == Spec => []OnlyForgetsLeftBehind
<1>1. TypeOK /\ StreamInv => OnlyForgetsLeftBehind
  BY DEF StreamInv, QueueByPhase, OnlyForgets, OnlyForgetsLeftBehind, Polled
<1> QED
  BY <1>1, StreamAlways, PTL

(* poll_next never polls the watcher's JoinHandle after it completed. *)
THEOREM JoinHandlePolledOnce == Spec => []JoinHandleNotRepolled
<1>1. TypeOK /\ StreamInv => JoinHandleNotRepolled
  BY DEF StreamInv, EndIsKept, JoinHandleNotRepolled
<1> QED
  BY <1>1, StreamAlways, PTL

-----------------------------------------------------------------------------
(* WakeInv. *)
LEMMA WakeInit == Init => WakeInv
BY DEF Init, WakeInv, WakersByPhase, EventsRecorded, Unread

(* The events stay recorded if no message and no shutdown comes in, and    *)
(* neither the edge nor the readiness is taken away.                       *)
LEMMA EventsFrame ==
    ASSUME EventsRecorded, UNCHANGED <<up, edge, readiness>>,
           Unread' \subseteq Unread
    PROVE  EventsRecorded'
BY DEF EventsRecorded

LEMMA WakePoll ==
    ASSUME TypeOK, StreamInv, WakeInv,
           \/ \E calls \in Programs : Mount(calls)
           \/ StartPoll \/ PopPending \/ ReturnFinished \/ PollWatcher
           \/ PollReadReady \/ ReadStep \/ DropFuse
    PROVE  WakeInv'
<1> USE DEF WakeInv, WakersByPhase, Return, Polled, fuseVars, bufVars, msgVars,
            kernelVars, tokioVars
<1>1. ASSUME NEW calls \in Programs, Mount(calls) PROVE WakeInv'
  BY <1>1, EventsFrame DEF Mount, Unread
<1>2. CASE StartPoll
  BY <1>2, EventsFrame DEF StartPoll, Unread
<1>3. CASE PopPending
  BY <1>3, EventsFrame DEF PopPending, Unread
<1>4. CASE ReturnFinished
  BY <1>4, EventsFrame DEF ReturnFinished, Unread
<1>5. CASE PollWatcher
  BY <1>5, EventsFrame DEF PollWatcher, Unread, TypeOK
<1>6. CASE PollReadReady
  BY <1>6, EventsFrame DEF PollReadReady, Unread
<1>7. CASE ReadMessage
  <2>1. Unread' \subseteq Unread
    BY <1>7 DEF ReadMessage, Unread, TypeOK
  <2> QED
    BY <1>7, <2>1, EventsFrame DEF ReadMessage
<1>8. CASE ReadWouldBlock
  <2>1. up' = up /\ up /\ Unread' = {}
    BY <1>8 DEF ReadWouldBlock, Unread
  <2>2. pc' = "top"
    BY <1>8 DEF ReadWouldBlock
  <2> QED
    BY <2>1, <2>2 DEF EventsRecorded
<1>9. CASE ReadGone
  BY <1>9, EventsFrame DEF ReadGone, Unread
<1>10. CASE ReadError
  BY <1>10, EventsFrame DEF ReadError, Unread
<1>11. CASE DropFuse
  BY <1>11, EventsFrame DEF DropFuse, Unread
<1> QED
  BY <1>1, <1>2, <1>3, <1>4, <1>5, <1>6, <1>7, <1>8, <1>9, <1>10, <1>11
     DEF ReadStep

LEMMA WakeProcess ==
    ASSUME TypeOK, WakeInv, NEW u \in Unique, ProcessStep(u)
    PROVE  WakeInv'
<1>1. Outcome(u)
  BY ProcessOutcome
<1>2. pc' \in {"idle", "top"}
  BY <1>1 DEF Outcome, Reported, Answered, Destroyed, Enqueued, Report,
              Return, Proceed
<1>3. Unread' \subseteq Unread
  BY <1>1 DEF Outcome, Processed, Finish, Unread, TypeOK
<1> QED
  BY <1>1, <1>2, <1>3, EventsFrame
     DEF Outcome, Processed, WakeInv, WakersByPhase, tokioVars

LEMMA WakeOutside ==
    ASSUME TypeOK, WakeInv,
           \/ \E u \in Unique : KernelStep(u) \/ FinishWrite(u)
           \/ KernelDown \/ React \/ WatcherExit
    PROVE  WakeInv'
<1> USE DEF WakeInv, WakersByPhase, fuseVars, bufVars, msgVars, kernelVars, tokioVars
<1>1. ASSUME NEW u \in Unique, KernelSend(u) PROVE WakeInv'
  BY <1>1 DEF KernelSend, EventsRecorded
<1>2. ASSUME NEW u \in Unique, KernelWithdraw(u) PROVE WakeInv'
  <2>1. Unread' \subseteq Unread
    BY <1>2 DEF KernelWithdraw, Unread, TypeOK
  <2> QED
    BY <1>2, <2>1, EventsFrame DEF KernelWithdraw
<1>3. ASSUME NEW u \in Unique, FinishWrite(u) PROVE WakeInv'
  BY <1>3, EventsFrame DEF FinishWrite, Unread
<1>4. CASE KernelDown
  BY <1>4 DEF KernelDown, EventsRecorded
<1>5. CASE React
  <2>1. Unread' = Unread /\ up' = up
    BY <1>5 DEF React, Unread
  <2>2. EventsRecorded'
    BY <1>5, <2>1 DEF React, Events, EventsRecorded
  <2>3. WakersByPhase'
    BY <1>5 DEF React, Events, TypeOK
  <2> QED
    BY <2>2, <2>3
<1>6. CASE WatcherExit
  <2>1. WakersByPhase'
    BY <1>6 DEF WatcherExit, TypeOK
  <2> QED
    BY <1>6, <2>1, EventsFrame DEF WatcherExit, Unread
<1> QED
  BY <1>1, <1>2, <1>3, <1>4, <1>5, <1>6 DEF KernelStep

(* A sleeping stream never misses its wake-up. *)
THEOREM WakeupsAreKept == Spec => []NoLostWakeup
<1>1. TypeOK /\ StreamInv /\ WakeInv /\ [Next]_vars => WakeInv'
  <2>1. UNCHANGED vars /\ WakeInv => WakeInv'
    BY EventsFrame DEF vars, WakeInv, WakersByPhase, Unread, msgVars, kernelVars,
                       tokioVars
  <2> QED
    BY <2>1, WakePoll, WakeProcess, WakeOutside DEF Next, PollStep
<1>2. WakeInv => NoLostWakeup
  BY DEF WakeInv, WakersByPhase, EventsRecorded, NoLostWakeup
<1> QED
  BY <1>1, <1>2, WakeInit, StreamAlways, PTL DEF Spec

-----------------------------------------------------------------------------
(* BufferInv.  Either the buffer that is read into is held by no Write, or *)
(* it is a new one.                                                        *)
LEMMA BufferTaken ==
    ASSUME TypeOK, BufferInv, TakeBuffer
    PROVE  /\ \A u \in Unique : home[u] # buf'
           /\ \A u \in Unique : home[u] # 0 => u \in arcs' /\ home'[u] <= buf'
<1>1. /\ buf \in Nat \ {0} /\ home' = home /\ arcs' = arcs
      /\ \A u \in Unique : home[u] \in Nat
  BY DEF TypeOK, TakeBuffer
<1>2. CASE \E u \in arcs : home[u] = buf
  <2>1. buf' = buf + 1
    BY <1>2 DEF TakeBuffer
  <2>2. \A u \in Unique : home[u] <= buf
    BY <1>1 DEF BufferInv
  <2> QED
    BY <1>1, <2>1, <2>2 DEF BufferInv
<1>3. CASE ~ \E u \in arcs : home[u] = buf
  <2>1. buf' = buf
    BY <1>3 DEF TakeBuffer
  <2> QED
    BY <1>1, <1>3, <2>1 DEF BufferInv
<1> QED
  BY <1>2, <1>3

LEMMA BufferNext ==
    ASSUME TypeOK, BufferInv, [Next]_vars
    PROVE  BufferInv'
<1> USE DEF bufVars
<1>1. CASE UNCHANGED bufVars
  BY <1>1 DEF BufferInv
<1>2. CASE ReadMessage
  <2>1. clobbered' = {}
    BY <1>2, BufferTaken DEF ReadMessage, BufferInv
  <2> QED
    BY <1>2, <2>1, BufferTaken DEF ReadMessage, TakeBuffer, BufferInv
<1>3. CASE ReadWouldBlock \/ ReadGone \/ ReadError
  <2>1. TakeBuffer /\ UNCHANGED clobbered
    BY <1>3 DEF ReadWouldBlock, ReadGone, ReadError
  <2> QED
    BY <2>1, BufferTaken DEF TakeBuffer, BufferInv
<1>4. ASSUME NEW u \in Unique, ProcessStep(u) PROVE BufferInv'
  <2>1. UNCHANGED clobbered /\ (KeepBuffer(u) \/ UNCHANGED <<buf, home, arcs>>)
    BY <1>4, ProcessOutcome
       DEF Outcome, Processed, Reported, Answered, Destroyed, Enqueued
  <2>2. CASE KeepBuffer(u)
    BY <2>1, <2>2 DEF KeepBuffer, BufferInv, TypeOK
  <2> QED
    BY <1>1, <2>1, <2>2
<1>5. ASSUME NEW u \in Unique, FinishWrite(u) PROVE BufferInv'
  BY <1>5 DEF FinishWrite, BufferInv, TypeOK
<1>6. CASE \/ \E calls \in Programs : Mount(calls)
           \/ StartPoll \/ PopPending \/ ReturnFinished \/ PollWatcher
           \/ PollReadReady \/ DropFuse
  BY <1>1, <1>6 DEF Mount, StartPoll, PopPending, ReturnFinished, PollWatcher,
                    PollReadReady, DropFuse
<1>7. CASE (\E u \in Unique : KernelStep(u)) \/ KernelDown \/ React \/ WatcherExit
  BY <1>1, <1>7 DEF KernelStep, KernelSend, KernelWithdraw, KernelDown, React,
                    WatcherExit
<1>8. CASE UNCHANGED vars
  BY <1>1, <1>8 DEF vars
<1> QED
  BY <1>2, <1>3, <1>4, <1>5, <1>6, <1>7, <1>8 DEF Next, PollStep, ReadStep

(* The data of a Write request outlives every later read, for any number   *)
(* of Writes held at once: each has its Arc, so poll_next never takes a    *)
(* buffer that one of them lies in.                                        *)
THEOREM WritesKeepTheirData == Spec => []WriteDataIntact
<1>1. Init => BufferInv
  BY DEF Init, BufferInv
<1>2. BufferInv => WriteDataIntact
  BY DEF BufferInv, WriteDataIntact
<1> QED
  BY <1>1, <1>2, BufferNext, SessionTypes, PTL DEF Spec

-----------------------------------------------------------------------------
(* AccountInv. *)
LEMMA QueuedType ==
    ASSUME TypeOK, NEW u \in Unique
    PROVE  /\ Queued(u) = Cardinality(Entries(pending, u))
           /\ Queued(u) \in Nat /\ delivered[u] \in Nat /\ msg[u].n \in Nat
<1>1. Queued(u) = Cardinality(Entries(pending, u))
  BY DEF Queued, Entries
<1>2. Queued(u) \in Nat
  BY <1>1, QueueType, EntriesFinite
<1>3. msg[u] \in Wire \cup {NoMessage} /\ delivered[u] \in Nat
  BY DEF TypeOK
<1>4. NoMessage.n \in Nat
  BY DEF NoMessage
<1> QED
  BY <1>1, <1>2, <1>3, <1>4, WireAssumption

LEMMA QueuedSame ==
    ASSUME NEW u, UNCHANGED pending
    PROVE  Queued(u)' = Queued(u)
BY DEF Queued

LEMMA ExpectedSame ==
    ASSUME NEW u, msg'[u] = msg[u], ops' = ops, u \in reported' <=> u \in reported
    PROVE  Expected(u)' = Expected(u)
BY DEF Expected, EnabledArms

LEMMA AccountInit == Init => AccountInv
<1> SUFFICES ASSUME Init, NEW u \in Unique PROVE Accounted(u) /\ state[u] = "unsent"
  BY DEF AccountInv
<1>1. Queued(u) = 0
  BY NoEntries DEF Init, Queued, Entries
<1> QED
  BY <1>1 DEF Init, Accounted

(* What a step that leaves the books alone keeps. *)
LEMMA AccountFrame ==
    ASSUME TypeOK, AccountInv, pc # "building",
           pc = "dropped" => pc' = "dropped", pc' # "building",
           UNCHANGED <<ops, msg, delivered, answered, reported, pending>>,
           \A u \in Unique : state'[u] = "handled" <=> state[u] = "handled"
    PROVE  AccountInv'
<1> SUFFICES ASSUME NEW u \in Unique PROVE Accounted(u)'
  BY DEF AccountInv
<1>1. Queued(u)' = Queued(u) /\ Expected(u)' = Expected(u)
  BY QueuedSame, ExpectedSame
<1> QED
  BY <1>1 DEF AccountInv, Accounted

LEMMA AccountPoll ==
    ASSUME TypeOK, StreamInv, AccountInv,
           \/ \E calls \in Programs : Mount(calls)
           \/ StartPoll \/ PopPending \/ ReturnFinished \/ PollWatcher
           \/ PollReadReady \/ ReadStep \/ DropFuse
    PROVE  AccountInv'
<1> USE DEF Return, Polled, fuseVars, bufVars, msgVars, kernelVars, tokioVars
<1>1. ASSUME NEW calls \in Programs, Mount(calls) PROVE AccountInv'
  <2> SUFFICES ASSUME NEW u \in Unique PROVE Accounted(u)'
    BY <1>1 DEF AccountInv, Mount
  <2>1. Queued(u)' = Queued(u)
    BY <1>1, QueuedSame DEF Mount
  <2> QED
    BY <1>1, <2>1 DEF AccountInv, Accounted, Mount
<1>2. CASE StartPoll
  BY <1>2, AccountFrame DEF StartPoll
<1>3. CASE PopPending
  <2> SUFFICES ASSUME NEW u \in Unique PROVE Accounted(u)'
    BY <1>3 DEF AccountInv, PopPending
  <2>1. /\ pending \in Seq(Entry) /\ pending # <<>>
        /\ Head(pending) = pending[1] /\ 1 \in 1..Len(pending)
    BY <1>3, QueueType DEF PopPending
  <2>2. Head(pending).from \in Unique /\ state[Head(pending).from] = "handled"
    BY <2>1, QueueType DEF StreamInv, QueueByPhase
  <2>3. Expected(u)' = Expected(u)
    BY <1>3, ExpectedSame DEF PopPending
  <2>4. Queued(u)' = Cardinality(Entries(Tail(pending), u))
    BY <1>3 DEF PopPending, Queued, Entries
  <2>5. CASE u = Head(pending).from
    <3>1. Queued(u) = Queued(u)' + 1 /\ Queued(u)' \in Nat
      BY <2>1, <2>4, <2>5, TailEntries, QueuedType
    <3>2. delivered'[u] = delivered[u] + 1 /\ delivered[u] \in Nat
      BY <1>3, <2>5 DEF PopPending, TypeOK
    <3>3. u \notin answered
      BY <3>1, QueuedType DEF AccountInv, Accounted
    <3> QED
      BY <1>3, <2>3, <3>1, <3>2, <3>3, SMTT(30) DEF PopPending, AccountInv, Accounted
  <2>6. CASE u # Head(pending).from
    <3>1. Queued(u)' = Queued(u)
      BY <2>1, <2>4, <2>6, TailEntries, QueuedType
    <3>2. delivered'[u] = delivered[u]
      BY <1>3, <2>6 DEF PopPending, TypeOK
    <3> QED
      BY <1>3, <2>3, <3>1, <3>2 DEF PopPending, AccountInv, Accounted
  <2> QED
    BY <2>5, <2>6
<1>4. CASE ReturnFinished
  BY <1>4, AccountFrame DEF ReturnFinished
<1>5. CASE PollWatcher
  BY <1>5, AccountFrame DEF PollWatcher
<1>6. CASE PollReadReady
  BY <1>6, AccountFrame DEF PollReadReady
<1>7. CASE ReadMessage
  <2>1. \A u \in Unique : state'[u] = "handled" <=> state[u] = "handled"
    BY <1>7 DEF ReadMessage, Unread, TypeOK
  <2> QED
    BY <1>7, <2>1, AccountFrame DEF ReadMessage
<1>8. CASE ReadWouldBlock
  BY <1>8, AccountFrame DEF ReadWouldBlock
<1>9. CASE ReadGone
  BY <1>9, AccountFrame DEF ReadGone
<1>10. CASE ReadError
  BY <1>10, AccountFrame DEF ReadError
<1>11. CASE DropFuse
  <2> SUFFICES ASSUME NEW u \in Unique PROVE Accounted(u)'
    BY <1>11 DEF AccountInv, DropFuse
  <2>1. Queued(u)' = 0 /\ Expected(u)' = Expected(u)
    BY <1>11, NoEntries, ExpectedSame DEF DropFuse, Queued, Entries
  <2>2. msg[u].op # "BatchForget" => Queued(u) = 0
    <3>1. OnlyForgets
      BY <1>11 DEF DropFuse, StreamInv, QueueByPhase, OnlyForgets
    <3>2. msg[u].op # "BatchForget" => Entries(pending, u) = {}
      BY <3>1 DEF OnlyForgets, Entries
    <3> QED
      BY <3>2, FS_EmptySet, QueuedType
  <2> QED
    BY <1>11, <2>1, <2>2 DEF AccountInv, Accounted, DropFuse
<1> QED
  BY <1>1, <1>2, <1>3, <1>4, <1>5, <1>6, <1>7, <1>8, <1>9, <1>10, <1>11
     DEF ReadStep

(* The message u that is dispatched, and every other message w. *)
LEMMA AccountProcess ==
    ASSUME TypeOK, StreamInv, AccountInv, NEW u \in Unique, ProcessStep(u)
    PROVE  AccountInv'
<1>1. Outcome(u)
  BY ProcessOutcome
<1>2. pc = "process" /\ pending = <<>> /\ state[u] = "buffer"
  BY <1>1 DEF Outcome, Processed, InBuffer, StreamInv, QueueByPhase
<1>3. pc' \in {"idle", "top"}
  BY <1>1 DEF Outcome, Reported, Answered, Destroyed, Enqueued, Report,
              Return, Proceed
<1>4. /\ state'[u] = "handled"
      /\ \A w \in Unique \ {u} : state'[w] = state[w]
  BY <1>1 DEF Outcome, Processed, Finish, TypeOK
<1>5. /\ u \notin answered /\ u \notin reported
      /\ delivered[u] = 0 /\ Queued(u) = 0
  BY <1>2, QueuedType DEF AccountInv, Accounted
<1>6. ASSUME NEW w \in Unique \ {u} PROVE Accounted(w)'
  <2>1. Expected(w)' = Expected(w)
    BY <1>1, ExpectedSame DEF Outcome, Processed, Reported, Answered, Destroyed,
         Enqueued, Report, Proceed
  <2>2. Queued(w) = 0 /\ Queued(w)' = 0
    <3>1. Queued(w) = 0
      BY <1>2, NoEntries DEF Queued, Entries
    <3>2. CASE UNCHANGED pending
      BY <3>1, <3>2, QueuedSame
    <3>3. CASE Enqueued(u)
      <4>1. PICK v \in Variant, k \in Nat : Push(u, v, k)
        BY <3>3, QueuedType DEF Enqueued
      <4>2. Cardinality(Entries(pending', w)) = 0
        BY <1>2, <1>6, <4>1, PushEntries
      <4> QED
        BY <3>1, <4>2 DEF Queued, Entries
    <3> QED
      BY <1>1, <3>1, <3>2, <3>3 DEF Outcome, Reported, Answered, Destroyed
  <2>3. w \in answered' <=> w \in answered
    BY <1>1, <1>6 DEF Outcome, Reported, Answered, Destroyed, Enqueued, AnswerEnosys
  <2>4. w \in reported' <=> w \in reported
    BY <1>1, <1>6 DEF Outcome, Reported, Answered, Destroyed, Enqueued, Report, Proceed
  <2> QED
    BY <1>1, <1>2, <1>3, <1>4, <2>1, <2>2, <2>3, <2>4
       DEF Outcome, Processed, AccountInv, Accounted
<1>7. Accounted(u)'
  <2>1. delivered'[u] = 0 /\ msg'[u] = msg[u] /\ ops' = ops
    BY <1>1, <1>5 DEF Outcome, Processed
  <2>2. CASE Reported(u)
    <3>1. u \in reported' /\ Queued(u)' = 0
      BY <1>5, <2>2, QueuedSame DEF Reported, Report
    <3>2. Expected(u)' = 0
      BY <3>1 DEF Expected
    <3>3. u \in answered' => msg[u].op # "BatchForget"
      BY <1>5, <2>2 DEF Reported
    <3> QED
      BY <1>4, <2>1, <3>1, <3>2, <3>3 DEF Accounted
  <2>3. CASE Answered(u)
    <3>1. u \in answered' /\ u \notin reported' /\ Queued(u)' = 0
      BY <1>5, <2>3, QueuedSame DEF Answered, AnswerEnosys, Proceed
    <3>2. Expected(u)' = 0
      BY <2>1, <2>3, <3>1 DEF Answered, Expected, EnabledArms
    <3> QED
      BY <1>4, <2>1, <2>3, <3>1, <3>2 DEF Accounted, Answered
  <2>4. CASE Destroyed(u)
    <3>1. u \notin answered' /\ u \notin reported' /\ Queued(u)' = 0
      BY <1>5, <2>4, QueuedSame DEF Destroyed, Proceed
    <3>2. Expected(u)' = 0
      BY <2>1, <2>4, <3>1 DEF Destroyed, Expected, EnabledArms
    <3> QED
      BY <1>4, <2>1, <2>4, <3>1, <3>2 DEF Accounted, Destroyed
  <2>5. CASE Enqueued(u)
    <3>1. u \notin answered' /\ u \notin reported'
      BY <1>5, <2>5 DEF Enqueued, Proceed
    <3>2. PICK v \in Variant :
            \/ msg[u].op = "BatchForget" /\ Push(u, v, msg[u].n)
            \/ msg[u].op = "Forget" /\ Push(u, v, 1)
            \/ /\ msg[u].op \notin {"Forget", "BatchForget"} /\ EnabledArms(u) # {}
               /\ Push(u, v, 1)
      BY <2>5 DEF Enqueued
    <3>3. PICK k \in Nat : Push(u, v, k) /\ k = Expected(u)'
      BY <2>1, <3>1, <3>2, QueuedType DEF Expected, EnabledArms
    <3>4. Queued(u)' = k
      BY <1>2, <3>3, PushEntries DEF Queued, Entries
    <3>5. msg[u].op = "BatchForget" \/ Expected(u)' = 1
      BY <2>1, <3>1, <3>2 DEF Expected, EnabledArms
    <3> QED
      BY <1>4, <2>1, <3>1, <3>3, <3>4, <3>5 DEF Accounted
  <2> QED
    BY <1>1, <2>2, <2>3, <2>4, <2>5 DEF Outcome
<1> QED
  BY <1>3, <1>6, <1>7 DEF AccountInv

LEMMA AccountOutside ==
    ASSUME TypeOK, StreamInv, AccountInv,
           \/ \E u \in Unique : KernelStep(u) \/ FinishWrite(u)
           \/ KernelDown \/ React \/ WatcherExit
    PROVE  AccountInv'
<1> USE DEF fuseVars, bufVars, msgVars, kernelVars, tokioVars
<1>1. ASSUME UNCHANGED <<pc, ops, state, msg, delivered, answered, reported, pending>>
      PROVE  AccountInv'
  <2>1. ASSUME NEW u \in Unique PROVE Accounted(u)'
    <3>1. Queued(u)' = Queued(u) /\ Expected(u)' = Expected(u)
      BY <1>1, QueuedSame, ExpectedSame
    <3> QED
      BY <1>1, <3>1 DEF AccountInv, Accounted
  <2> QED
    BY <1>1, <2>1 DEF AccountInv
<1>2. ASSUME NEW u \in Unique, KernelSend(u) PROVE AccountInv'
  <2> SUFFICES ASSUME NEW w \in Unique PROVE Accounted(w)'
    BY <1>2 DEF AccountInv, KernelSend
  <2>1. Queued(w)' = Queued(w)
    BY <1>2, QueuedSame DEF KernelSend
  <2>2. CASE w = u
    <3>1. state[w] = "unsent" /\ state'[w] = "queued"
      BY <1>2, <2>2 DEF KernelSend, TypeOK
    <3> QED
      BY <1>2, <2>1, <3>1 DEF KernelSend, AccountInv, Accounted
  <2>3. CASE w # u
    <3>1. state'[w] = state[w] /\ msg'[w] = msg[w]
      BY <1>2, <2>3 DEF KernelSend, TypeOK
    <3>2. Expected(w)' = Expected(w)
      BY <1>2, <3>1, ExpectedSame DEF KernelSend
    <3> QED
      BY <1>2, <2>1, <3>1, <3>2 DEF KernelSend, AccountInv, Accounted
  <2> QED
    BY <2>2, <2>3
<1>3. ASSUME NEW u \in Unique, KernelWithdraw(u) PROVE AccountInv'
  <2>1. /\ pc # "building" /\ UNCHANGED pc
        /\ \A w \in Unique : state'[w] = "handled" <=> state[w] = "handled"
    BY <1>3 DEF KernelWithdraw, TypeOK, AccountInv
  <2> QED
    BY <1>3, <2>1, AccountFrame DEF KernelWithdraw
<1>4. ASSUME NEW u \in Unique, FinishWrite(u) PROVE AccountInv'
  BY <1>1, <1>4 DEF FinishWrite
<1>5. CASE KernelDown \/ React \/ WatcherExit
  BY <1>1, <1>5 DEF KernelDown, React, WatcherExit
<1> QED
  BY <1>2, <1>3, <1>4, <1>5 DEF KernelStep

LEMMA AccountAlways == Spec => [](TypeOK /\ AccountInv)
<1>1. TypeOK /\ StreamInv /\ AccountInv /\ [Next]_vars => AccountInv'
  <2>1. ASSUME AccountInv, UNCHANGED vars PROVE AccountInv'
    <3> USE <2>1 DEF vars, fuseVars, msgVars
    <3>1. ASSUME NEW u \in Unique PROVE Accounted(u)'
      <4>1. Queued(u)' = Queued(u) /\ Expected(u)' = Expected(u)
        BY QueuedSame, ExpectedSame
      <4> QED
        BY <4>1 DEF AccountInv, Accounted
    <3> QED
      BY <3>1 DEF AccountInv
  <2> QED
    BY <2>1, AccountPoll, AccountProcess, AccountOutside DEF Next, PollStep
<1> QED
  BY <1>1, AccountInit, StreamAlways, PTL DEF Spec

(* Every message that was read becomes exactly the requests it stands for, *)
(* for any traffic: none is lost between the queue and the consumer, and   *)
(* none is handed out twice.                                               *)
THEOREM EveryMessageDelivered == Spec => []DeliveredExactlyOnce
<1>1. AccountInv => DeliveredExactlyOnce
  BY DEF AccountInv, Accounted, DeliveredExactlyOnce
<1> QED
  BY <1>1, AccountAlways, PTL

(* No message is dropped silently and none is answered behind the          *)
(* consumer's back: what was neither answered nor reported has been handed *)
(* out or is about to be, also when the stream was dropped in between.     *)
THEOREM EveryMessageAccounted == Spec => []NothingUnaccounted
<1>1. TypeOK /\ AccountInv => NothingUnaccounted
  BY DEF TypeOK, AccountInv, Accounted, NothingUnaccounted
<1> QED
  BY <1>1, AccountAlways, PTL
=============================================================================
