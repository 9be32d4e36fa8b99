------------------------- MODULE FuseRequestsProofs -------------------------
(***************************************************************************)
(* Proofs about FuseRequests, for any set of requests and any traffic, and *)
(* that it implements ReplyContract.                                       *)
(***************************************************************************)
EXTENDS FuseRequestsRefine, TLAPS

(***************************************************************************)
(* The consumer's two dozen methods come down to five ways of giving up a  *)
(* held request; the proofs go by those.                                   *)
(***************************************************************************)
BeginReply(u) == Owns(u, Variant \ {"Forget"}) /\ ReplyOk(u)
BeginDrop(u) == Owns(u, Variant \ {"Forget"}) /\ DropGuard(u)
BeginReject(u) == Owns(u, Variant \ {"Forget"}) /\ Reject(u)
BeginBare(u) ==
    /\ Owns(u, Variant \ {"Forget"})
    /\ \E m \in {"vectored", "errno", "ERANGE", "EIO"} : DisarmThenSend(u, m)

Begin(u) ==
    BeginReply(u) \/ BeginDrop(u) \/ BeginReject(u) \/ BeginBare(u)
        \/ ForgetDrop(u)

(* Every step of a consumer is one of these. *)
LEMMA ConsumerBegins ==
    ASSUME NEW u \in Unique, ConsumerStep(u)
    PROVE  Begin(u)
<1> USE DEF Begin, Owns, Variant
<1>1. CASE LookupReply(u) \/ GetattrReply(u) \/ StatfsReply(u)
             \/ ReaddirReply(u) \/ MkdirReply(u) \/ MknodReply(u)
             \/ OpenReply(u) \/ ReleaseReply(u) \/ SetattrReply(u)
             \/ UnlinkReply(u) \/ RmdirReply(u) \/ RenameReply(u)
  BY <1>1 DEF LookupReply, GetattrReply, StatfsReply, ReaddirReply,
              MkdirReply, MknodReply, OpenReply, ReleaseReply, SetattrReply,
              UnlinkReply, RmdirReply, RenameReply, BeginReply
<1>2. CASE DropRequest(u)
  BY <1>2 DEF DropRequest, BeginDrop
<1>3. CASE ForgetDrop(u)
  BY <1>3
<1>4. CASE ReaddirDrop(u) \/ CreateReply(u) \/ Fail(u)
  BY <1>4 DEF ReaddirDrop, CreateReply, Fail, ReplyErr, BeginBare
<1>5. CASE ReadReply(u) \/ WriteReply(u) \/ ReadlinkReply(u)
             \/ ListXAttrSizeReply(u) \/ GetXAttrSizeReply(u)
  BY <1>5 DEF ReadReply, WriteReply, ReadlinkReply, ListXAttrSizeReply,
              GetXAttrSizeReply, BeginReply, BeginReject
<1>6. CASE ReadReplyVectored(u)
  BY <1>6 DEF ReadReplyVectored, BeginBare, BeginReject
<1>7. CASE ListXAttrReply(u) \/ GetXAttrReply(u)
  BY <1>7 DEF ListXAttrReply, GetXAttrReply, ReplyErr, BeginReply, BeginBare
<1> QED
  BY <1>1, <1>2, <1>3, <1>4, <1>5, <1>6, <1>7 DEF ConsumerStep

-----------------------------------------------------------------------------
(* A step of the specification, with the consumer's part rewritten. *)
LEMMA StepCases ==
    ASSUME Next
    PROVE  \/ \E u \in Unique :
               Yield(u) \/ Begin(u) \/ CallStep(u) \/ KernelCancel(u)
           \/ DropFuse \/ WatcherExit \/ ReuseFd \/ KernelAbort
BY ConsumerBegins DEF Next

(***************************************************************************)
(* The history of one request, by where its owner is.  TypeOK and the      *)
(* properties of FuseRequests are not inductive without it: what a write   *)
(* may do depends on what has been written, returned and answered before.  *)
(***************************************************************************)
Untouched(u) ==
    /\ written[u] = {} /\ result[u] = "none"
    /\ kern[u] # "answered" /\ answer[u] = "none"

History(u) ==
    /\ pc[u] = "idle" <=> kern[u] = "unsent"
    /\ pc[u] # "idle" => (variant[u] = "Forget" <=> kern[u] = "oneway")
    /\ kern[u] = "waiting" => connected
    /\ pc[u] \in {"idle", "held", "replying", "bare"} => Untouched(u)
    /\ pc[u] \in {"replying", "dropping", "bare"} => kern[u] # "oneway"
    /\ pc[u] = "replying" => sending[u] = "data"
    /\ pc[u] = "bare" => sending[u] \in {"vectored", "errno", "ERANGE", "EIO"}
    /\ pc[u] = "dropping" =>
         /\ sending[u] = "ENOSYS"
         /\ written[u] \subseteq {"data"}
         /\ result[u] \in {"none", "Io"}
         /\ answer[u] \in {"none", "EIO"}
    /\ kern[u] = "oneway" => Untouched(u)

LEMMA TypeInit == Init => TypeOK
BY DEF Init, TypeOK

(* What the kernel does to requests keeps their type. *)
LEMMA CancelWaitingType ==
    ASSUME TypeOK
    PROVE  /\ CancelWaiting \in
                 [Unique -> {"unsent", "waiting", "oneway", "answered", "cancelled"}]
           /\ \A v \in Unique : CancelWaiting[v] =
                 IF kern[v] = "waiting" THEN "cancelled" ELSE kern[v]
BY DEF TypeOK, CancelWaiting

(* Giving up a reference keeps the types of what it changes. *)
LEMMA ReleaseFdType ==
    ASSUME TypeOK, NEW shared, ReleaseFd(shared)
    PROVE  /\ fdnum' \in {"device", "closed", "foreign"}
           /\ connected' \in BOOLEAN
           /\ kern' \in [Unique ->
                   {"unsent", "waiting", "oneway", "answered", "cancelled"}]
BY CancelWaitingType DEF ReleaseFd, TypeOK

(* One writev keeps the types of what it changes. *)
LEMMA DeliverType ==
    ASSUME TypeOK, NEW u \in Unique, NEW outcome,
           sending[u] \in Message, Deliver(u, outcome)
    PROVE  /\ written' \in [Unique -> SUBSET Message]
           /\ kern' \in [Unique ->
                   {"unsent", "waiting", "oneway", "answered", "cancelled"}]
           /\ answer' \in [Unique -> Message \cup {"none"}]
<1>1. "EIO" \in Message
  BY DEF Message
<1>2. written' \in [Unique -> SUBSET Message]
  BY DEF TypeOK, Deliver
<1>3. kern' \in [Unique ->
                {"unsent", "waiting", "oneway", "answered", "cancelled"}]
  BY DEF TypeOK, Deliver
<1>4. answer' \in [Unique -> Message \cup {"none"}]
  BY <1>1 DEF TypeOK, Deliver
<1> QED
  BY <1>2, <1>3, <1>4

LEMMA TypeStep ==
    ASSUME TypeOK, \A u \in Unique : History(u), [Next]_vars
    PROVE  TypeOK'
<1> USE DEF TypeOK, Guarded
<1>1. CASE UNCHANGED vars
  BY <1>1 DEF vars, requestVars, fdVars, kernelVars
<1>2. ASSUME NEW u \in Unique, Yield(u) PROVE TypeOK'
  BY <1>2, TrafficAssumption DEF Yield, fdVars
<1>3. ASSUME NEW u \in Unique, BeginReply(u) PROVE TypeOK'
  BY <1>3 DEF BeginReply, ReplyOk, Start, Message, Success, fdVars, kernelVars
<1>4. ASSUME NEW u \in Unique, BeginDrop(u) PROVE TypeOK'
  BY <1>4 DEF BeginDrop, DropGuard, Start, Message, Success, fdVars, kernelVars
<1>5. ASSUME NEW u \in Unique, BeginReject(u) PROVE TypeOK'
  BY <1>5 DEF BeginReject, Reject, Start, Message, Success, fdVars, kernelVars
<1>6. ASSUME NEW u \in Unique, BeginBare(u) PROVE TypeOK'
  <2>1. PICK m \in {"vectored", "errno", "ERANGE", "EIO"} : DisarmThenSend(u, m)
    BY <1>6 DEF BeginBare
  <2>2. m \in Message
    BY DEF Message, Success
  <2>3. ReleaseFd(HeldBesides(u))
    BY <2>1 DEF DisarmThenSend
  <2> QED
    BY <2>1, <2>2, <2>3, ReleaseFdType DEF DisarmThenSend, Start
<1>7. ASSUME NEW u \in Unique, ForgetDrop(u) PROVE TypeOK'
  BY <1>7 DEF ForgetDrop, fdVars, kernelVars
<1>8. ASSUME NEW u \in Unique, SendGuarded(u) PROVE TypeOK'
  <2>1. sending[u] \in Message /\ "ENOSYS" \in Message
    BY <1>8 DEF SendGuarded, History, Message, Success
  <2>2. PICK outcome \in Outcomes(u) :
          /\ Deliver(u, outcome)
          /\ result' = [result EXCEPT ![u] = Returned(u, outcome)]
          /\ \/ pc' = [pc EXCEPT ![u] = "spent"] /\ sending' = sending
             \/ Start(u, "dropping", "ENOSYS")
    BY <1>8 DEF SendGuarded
  <2>3. Returned(u, outcome) \in {"none", "Ok", "Cancelled", "Io"}
    BY DEF Returned
  <2> QED
    BY <1>8, <2>1, <2>2, <2>3, DeliverType DEF SendGuarded, Start, fdVars
<1>9. ASSUME NEW u \in Unique, SendEnosys(u) PROVE TypeOK'
  <2>1. sending[u] \in Message
    BY <1>9 DEF SendEnosys, History, Message, Success
  <2> QED
    BY <1>9, <2>1, DeliverType DEF SendEnosys, fdVars
<1>10. ASSUME NEW u \in Unique, SendBare(u) PROVE TypeOK'
  <2>1. sending[u] \in Message
    BY <1>10 DEF SendBare, History, Message, Success
  <2>2. PICK outcome \in RawOutcomes(u) :
          /\ Deliver(u, outcome)
          /\ result' = [result EXCEPT ![u] =
                          IF sending[u] = "EIO" THEN @ ELSE Returned(u, outcome)]
    BY <1>10 DEF SendBare
  <2>3. Returned(u, outcome) \in {"none", "Ok", "Cancelled", "Io"}
    BY DEF Returned
  <2> QED
    BY <1>10, <2>1, <2>2, <2>3, DeliverType DEF SendBare
<1>11. ASSUME NEW u \in Unique, ReleaseGuard(u) PROVE TypeOK'
  BY <1>11, ReleaseFdType DEF ReleaseGuard
<1>12. ASSUME NEW u \in Unique, KernelCancel(u) PROVE TypeOK'
  BY <1>12 DEF KernelCancel, requestVars, fdVars
<1>13. CASE DropFuse
  BY <1>13, ReleaseFdType DEF DropFuse, requestVars
<1>16. CASE WatcherExit
  BY <1>16, ReleaseFdType DEF WatcherExit, requestVars
<1>14. CASE ReuseFd
  BY <1>14 DEF ReuseFd, requestVars, kernelVars
<1>15. CASE KernelAbort
  BY <1>15, CancelWaitingType DEF KernelAbort, requestVars, fdVars
<1> QED
  BY <1>1, <1>2, <1>3, <1>4, <1>5, <1>6, <1>7, <1>8, <1>9, <1>10, <1>11,
     <1>12, <1>13, <1>14, <1>15, <1>16, StepCases DEF Begin, CallStep


-----------------------------------------------------------------------------
(* The descriptor. *)

(* Steps that change neither who holds a reference nor the descriptor. *)
LEMMA FdKept ==
    ASSUME FdLifetime, UNCHANGED <<stream, watcher, fdnum>>,
           \A v \in Unique : pc'[v] \in Guarded <=> pc[v] \in Guarded
    PROVE  FdLifetime'
BY DEF FdLifetime, Referenced

(* The same for a step of one request. *)
LEMMA FdKeptBy ==
    ASSUME TypeOK, FdLifetime, UNCHANGED <<stream, watcher, fdnum>>,
           NEW u \in Unique, NEW x, pc' = [pc EXCEPT ![u] = x],
           x \in Guarded <=> pc[u] \in Guarded
    PROVE  FdLifetime'
<1>1. \A v \in Unique : pc'[v] \in Guarded <=> pc[v] \in Guarded
  BY DEF TypeOK
<1> QED
  BY <1>1, FdKept

(* A guard gives up its reference, and the last one closes the descriptor. *)
LEMMA FdReleased ==
    ASSUME TypeOK, FdLifetime, UNCHANGED <<stream, watcher>>,
           NEW u \in Unique, NEW x, x \notin Guarded, pc[u] \in Guarded,
           pc' = [pc EXCEPT ![u] = x], ReleaseFd(HeldBesides(u))
    PROVE  FdLifetime'
<1>1. fdnum = "device"
  BY DEF FdLifetime, Referenced
<1>2. HeldBesides(u) <=> Referenced'
  BY DEF HeldBesides, Referenced, TypeOK
<1> QED
  BY <1>1, <1>2 DEF ReleaseFd, FdLifetime

LEMMA FdStep ==
    ASSUME TypeOK, FdLifetime, [Next]_vars
    PROVE  FdLifetime'
<1>1. CASE UNCHANGED vars
  BY <1>1 DEF vars, requestVars, fdVars, FdLifetime, Referenced
<1>2. ASSUME NEW u \in Unique, Yield(u) PROVE FdLifetime'
  BY <1>2 DEF Yield, fdVars, FdLifetime, Referenced
<1>3. ASSUME NEW u \in Unique, BeginReply(u) PROVE FdLifetime'
  BY <1>3, FdKeptBy DEF BeginReply, Owns, ReplyOk, Start, fdVars, Guarded
<1>4. ASSUME NEW u \in Unique, BeginDrop(u) PROVE FdLifetime'
  BY <1>4, FdKeptBy DEF BeginDrop, Owns, DropGuard, Start, fdVars, Guarded
<1>5. ASSUME NEW u \in Unique, BeginReject(u) PROVE FdLifetime'
  BY <1>5, FdKeptBy DEF BeginReject, Owns, Reject, Start, fdVars, Guarded
<1>6. ASSUME NEW u \in Unique, BeginBare(u) PROVE FdLifetime'
  BY <1>6, FdReleased DEF BeginBare, Owns, DisarmThenSend, Start, Guarded
<1>7. ASSUME NEW u \in Unique, ForgetDrop(u) PROVE FdLifetime'
  BY <1>7, FdKeptBy DEF ForgetDrop, Owns, fdVars, Guarded
<1>8. ASSUME NEW u \in Unique, SendGuarded(u) PROVE FdLifetime'
  <2>1. PICK x \in {"spent", "dropping"} : pc' = [pc EXCEPT ![u] = x]
    BY <1>8 DEF SendGuarded, Start
  <2> QED
    BY <1>8, <2>1, FdKeptBy DEF SendGuarded, fdVars, Guarded
<1>9. ASSUME NEW u \in Unique, SendEnosys(u) PROVE FdLifetime'
  BY <1>9, FdKeptBy DEF SendEnosys, fdVars, Guarded
<1>10. ASSUME NEW u \in Unique, SendBare(u) PROVE FdLifetime'
  BY <1>10, FdKeptBy DEF SendBare, Guarded
<1>11. ASSUME NEW u \in Unique, ReleaseGuard(u) PROVE FdLifetime'
  BY <1>11, FdReleased DEF ReleaseGuard, Guarded
<1>12. ASSUME NEW u \in Unique, KernelCancel(u) PROVE FdLifetime'
  BY <1>12, FdKept DEF KernelCancel, requestVars, fdVars
<1>13. CASE DropFuse
  <2>1. fdnum = "device"
    BY <1>13 DEF DropFuse, FdLifetime, Referenced
  <2>2. Referenced' <=> (watcher \/ \E u \in Unique : pc[u] \in Guarded)
    BY <1>13 DEF DropFuse, Referenced, requestVars
  <2> QED
    BY <1>13, <2>1, <2>2 DEF DropFuse, ReleaseFd, FdLifetime
<1>14. CASE WatcherExit
  <2>1. fdnum = "device"
    BY <1>14 DEF WatcherExit, FdLifetime, Referenced
  <2>2. Referenced' <=> (stream \/ \E u \in Unique : pc[u] \in Guarded)
    BY <1>14 DEF WatcherExit, Referenced, requestVars
  <2> QED
    BY <1>14, <2>1, <2>2 DEF WatcherExit, ReleaseFd, FdLifetime
<1>15. CASE ReuseFd
  BY <1>15 DEF ReuseFd, FdLifetime, Referenced, requestVars
<1>16. CASE KernelAbort
  BY <1>16, FdKept DEF KernelAbort, requestVars, fdVars
<1> QED
  BY <1>1, <1>2, <1>3, <1>4, <1>5, <1>6, <1>7, <1>8, <1>9, <1>10, <1>11,
     <1>12, <1>13, <1>14, <1>15, <1>16, StepCases DEF Begin, CallStep

-----------------------------------------------------------------------------
(***************************************************************************)
(* The outcome of one request: the per-request parts of ResultTruthful,    *)
(* SingleReply, NoSilentDrop and StrayOnlyAtTeardown.                      *)
(***************************************************************************)
Outcome(u) ==
    /\ u \notin stray =>
         /\ result[u] = "Ok" => answer[u] = sending[u] /\ answer[u] # "ENOSYS"
         /\ result[u] \in {"Cancelled", "Io"} =>
                answer[u] \in {"none", "EIO", "ENOSYS"}
         /\ result[u] \in {"Ok", "Cancelled"} =>
                \E m \in Message \ {"ENOSYS"} : written[u] = {m}
    /\ pc[u] \in {"spent", "done"} /\ kern[u] = "waiting" =>
         /\ written[u] # {}
         /\ "data" \in written[u] => "ENOSYS" \in written[u]
    /\ u \in stray =>
         pc[u] = "done" /\ written[u] \cap {"data", "ENOSYS"} = {}

Good(u) == History(u) /\ Outcome(u)

(* Nothing about v changes, except that the kernel may give up on it. *)
Spared(v) ==
    /\ pc'[v] = pc[v] /\ variant'[v] = variant[v]
    /\ sending'[v] = sending[v] /\ result'[v] = result[v]
    /\ written'[v] = written[v] /\ answer'[v] = answer[v]
    /\ v \in stray' <=> v \in stray
    /\ \/ kern'[v] = kern[v] /\ (kern[v] = "waiting" => connected' = connected)
       \/ kern[v] = "waiting" /\ kern'[v] = "cancelled"

LEMMA SparedStaysGood ==
    ASSUME NEW v \in Unique, Good(v), Spared(v)
    PROVE  Good(v)'
<1>1. History(v)'
  BY DEF Good, History, Untouched, Spared
<1>2. Outcome(v)'
  BY DEF Good, Outcome, Spared
<1> QED
  BY <1>1, <1>2 DEF Good

(* Giving up a reference never makes a request wait again. *)
LEMMA ReleaseFdSpares ==
    ASSUME TypeOK, NEW shared, ReleaseFd(shared), NEW v \in Unique
    PROVE  \/ kern'[v] = kern[v] /\ (kern[v] = "waiting" => connected' = connected)
           \/ kern[v] = "waiting" /\ kern'[v] = "cancelled"
BY CancelWaitingType DEF ReleaseFd

LEMMA GoodBegin ==
    ASSUME TypeOK, NEW v \in Unique, Good(v), NEW u \in Unique, Begin(u)
    PROVE  Good(v)'
<1> USE DEF TypeOK, Guarded
<1>1. CASE BeginReply(u)
  <2>1. CASE v # u
    BY <1>1, <2>1, SparedStaysGood
       DEF BeginReply, ReplyOk, Start, Spared, fdVars, kernelVars
  <2>2. CASE v = u
    BY <1>1, <2>2 DEF BeginReply, Owns, ReplyOk, Start, fdVars, kernelVars,
                      Good, History, Outcome, Untouched
  <2> QED
    BY <2>1, <2>2
<1>2. CASE BeginDrop(u)
  <2>1. CASE v # u
    BY <1>2, <2>1, SparedStaysGood
       DEF BeginDrop, DropGuard, Start, Spared, fdVars, kernelVars
  <2>2. CASE v = u
    BY <1>2, <2>2 DEF BeginDrop, Owns, DropGuard, Start, fdVars, kernelVars,
                      Good, History, Outcome, Untouched
  <2> QED
    BY <2>1, <2>2
<1>3. CASE BeginReject(u)
  <2>1. CASE v # u
    BY <1>3, <2>1, SparedStaysGood
       DEF BeginReject, Reject, Start, Spared, fdVars, kernelVars
  <2>2. CASE v = u
    BY <1>3, <2>2 DEF BeginReject, Owns, Reject, Start, fdVars, kernelVars,
                      Good, History, Outcome, Untouched
  <2> QED
    BY <2>1, <2>2
<1>4. CASE BeginBare(u)
  <2>1. PICK m \in {"vectored", "errno", "ERANGE", "EIO"} : DisarmThenSend(u, m)
    BY <1>4 DEF BeginBare
  <2>2. \/ kern'[v] = kern[v] /\ (kern[v] = "waiting" => connected' = connected)
        \/ kern[v] = "waiting" /\ kern'[v] = "cancelled"
    BY <2>1, ReleaseFdSpares DEF DisarmThenSend
  <2>3. CASE v # u
    BY <2>1, <2>2, <2>3, SparedStaysGood DEF DisarmThenSend, Start, Spared
  <2>4. CASE v = u
    BY <1>4, <2>1, <2>2, <2>4
       DEF BeginBare, Owns, DisarmThenSend, Start, Good, History, Outcome,
           Untouched
  <2> QED
    BY <2>3, <2>4
<1>5. CASE ForgetDrop(u)
  <2>1. CASE v # u
    BY <1>5, <2>1, SparedStaysGood DEF ForgetDrop, Spared, fdVars, kernelVars
  <2>2. CASE v = u
    BY <1>5, <2>2 DEF ForgetDrop, Owns, fdVars, kernelVars,
                      Good, History, Outcome, Untouched
  <2> QED
    BY <2>1, <2>2
<1> QED
  BY <1>1, <1>2, <1>3, <1>4, <1>5 DEF Begin

(* What one writev does, request by request. *)
LEMMA DeliverEffect ==
    ASSUME TypeOK, NEW u \in Unique, NEW outcome, Deliver(u, outcome)
    PROVE  /\ written'[u] = written[u] \cup {sending[u]}
           /\ kern'[u] = IF outcome \in {"taken", "spoiled"} THEN "answered"
                                                            ELSE kern[u]
           /\ outcome = "taken" => answer'[u] = sending[u]
           /\ outcome = "spoiled" => answer'[u] = "EIO"
           /\ outcome \notin {"taken", "spoiled"} => answer'[u] = answer[u]
           /\ \A v \in Unique \ {u} :
                /\ written'[v] = written[v]
                /\ kern'[v] = kern[v]
                /\ answer'[v] = answer[v]
<1>1. written'[u] = written[u] \cup {sending[u]}
  BY DEF TypeOK, Deliver
<1>2. kern'[u] = IF outcome \in {"taken", "spoiled"} THEN "answered"
                                                     ELSE kern[u]
  BY DEF TypeOK, Deliver
<1>3. /\ outcome = "taken" => answer'[u] = sending[u]
      /\ outcome = "spoiled" => answer'[u] = "EIO"
      /\ outcome \notin {"taken", "spoiled"} => answer'[u] = answer[u]
  BY DEF TypeOK, Deliver
<1>4. \A v \in Unique \ {u} :
        /\ written'[v] = written[v]
        /\ kern'[v] = kern[v]
        /\ answer'[v] = answer[v]
  BY DEF TypeOK, Deliver
<1> QED
  BY <1>1, <1>2, <1>3, <1>4

(* What a write on the device can come to. *)
LEMMA OutcomeCases ==
    ASSUME NEW u \in Unique, NEW outcome \in Outcomes(u)
    PROVE  \/ outcome \in {"taken", "refused", "spoiled"}
           \/ outcome = "gone" /\ ~(connected /\ kern[u] = "waiting")
BY DEF Outcomes

LEMMA GoodCall ==
    ASSUME TypeOK, NEW v \in Unique, Good(v), NEW u \in Unique, CallStep(u)
    PROVE  Good(v)'
<1>1. CASE SendGuarded(u)
  <2>1. PICK outcome \in Outcomes(u) :
          /\ Deliver(u, outcome)
          /\ result' = [result EXCEPT ![u] = Returned(u, outcome)]
          /\ \/ /\ Returned(u, outcome) \in {"Ok", "Cancelled"}
                /\ pc' = [pc EXCEPT ![u] = "spent"]
                /\ UNCHANGED sending
             \/ /\ Returned(u, outcome) = "Io"
                /\ Start(u, "dropping", "ENOSYS")
    BY <1>1 DEF SendGuarded
  <2>2. CASE v # u
    BY <1>1, <2>1, <2>2, DeliverEffect, SparedStaysGood
       DEF SendGuarded, Start, Spared, fdVars, TypeOK
  <2>3. CASE v = u
    <3>1. /\ sending[u] = "data" /\ Untouched(u) /\ kern[u] # "oneway"
          /\ "data" \in Message \ {"ENOSYS"}
      BY <1>1, <2>3 DEF SendGuarded, Good, History, Message, Success
    <3>2. written'[u] = {"data"} /\ variant'[u] = variant[u]
          /\ stray' = stray /\ connected' = connected
      BY <1>1, <2>1, <3>1, DeliverEffect DEF SendGuarded, Untouched, fdVars
    <3>3. result'[u] = Returned(u, outcome)
      BY <2>1 DEF TypeOK
    <3>4. u \notin stray
      BY <1>1, <2>3 DEF SendGuarded, Good, Outcome
    <3>5. CASE Returned(u, outcome) \in {"Ok", "Cancelled"}
      <4>1. pc'[u] = "spent" /\ sending'[u] = "data"
        BY <2>1, <3>1, <3>5 DEF TypeOK, Start
      <4>2. \/ outcome = "taken" /\ result'[u] = "Ok"
            \/ /\ outcome = "gone" /\ result'[u] = "Cancelled"
               /\ ~(connected /\ kern[u] = "waiting")
        BY <3>3, <3>5, OutcomeCases DEF Returned
      <4> QED
        BY <1>1, <2>1, <2>3, <3>1, <3>2, <3>4, <4>1, <4>2, DeliverEffect
           DEF SendGuarded, Good, History, Outcome, Untouched
    <3>6. CASE Returned(u, outcome) = "Io"
      <4>1. pc'[u] = "dropping" /\ sending'[u] = "ENOSYS"
        BY <2>1, <3>6 DEF TypeOK, Start
      <4>2. outcome # "taken"
        BY <3>6 DEF Returned
      <4> QED
        BY <1>1, <2>1, <2>3, <3>1, <3>2, <3>3, <3>4, <3>6, <4>1, <4>2,
           DeliverEffect
           DEF SendGuarded, Good, History, Outcome, Untouched
    <3> QED
      BY <2>1, <3>5, <3>6
  <2> QED
    BY <2>2, <2>3
<1>2. CASE SendEnosys(u)
  <2>1. PICK outcome \in Outcomes(u) : Deliver(u, outcome)
    BY <1>2 DEF SendEnosys
  <2>2. CASE v # u
    BY <1>2, <2>1, <2>2, DeliverEffect, SparedStaysGood
       DEF SendEnosys, Spared, fdVars, TypeOK
  <2>3. CASE v = u
    <3>1. pc'[u] = "spent"
      BY <1>2 DEF SendEnosys, TypeOK
    <3> QED
      BY <1>2, <2>1, <2>3, <3>1, DeliverEffect, OutcomeCases
         DEF SendEnosys, fdVars, Good, History, Outcome, Untouched
  <2> QED
    BY <2>2, <2>3
<1>3. CASE SendBare(u)
  <2>1. PICK outcome \in RawOutcomes(u) :
          /\ Deliver(u, outcome)
          /\ result' = [result EXCEPT ![u] =
                          IF sending[u] = "EIO" THEN @ ELSE Returned(u, outcome)]
    BY <1>3 DEF SendBare
  <2>2. v # u => (v \in stray' <=> v \in stray)
    BY <1>3 DEF SendBare
  <2>3. CASE v # u
    BY <1>3, <2>1, <2>2, <2>3, DeliverEffect, SparedStaysGood
       DEF SendBare, Spared, TypeOK
  <2>4. CASE v = u
    <3>1. /\ sending[u] \in {"vectored", "errno", "ERANGE", "EIO"}
          /\ Untouched(u) /\ kern[u] # "oneway" /\ kern[u] # "unsent"
      BY <1>3, <2>4 DEF SendBare, Good, History
    <3>2. /\ pc'[u] = "done" /\ sending'[u] = sending[u]
          /\ variant'[u] = variant[u] /\ connected' = connected
          /\ written'[u] = {sending[u]}
      BY <1>3, <2>1, <3>1, DeliverEffect DEF SendBare, Untouched, TypeOK
    <3>3. sending[u] \in Message \ {"ENOSYS"}
      BY <3>1 DEF Message, Success
    <3>4. u \notin stray' => outcome \in Outcomes(u)
      BY <1>3, <2>1 DEF SendBare, RawOutcomes
    <3>5. result'[u] \in {"none", Returned(u, outcome)}
      BY <2>1, <3>1 DEF TypeOK, Untouched
    <3>6. History(u)'
      BY <1>3, <2>1, <2>4, <3>1, <3>2, DeliverEffect
         DEF Good, History, Untouched
    <3>7. Outcome(u)'
      <4>1. Returned(u, outcome) = "Ok" /\ u \notin stray' => outcome = "taken"
        BY <3>4, OutcomeCases DEF Returned
      <4>2. Returned(u, outcome) \in {"Cancelled", "Io"} => outcome # "taken"
        BY DEF Returned
      <4> QED
        BY <2>1, <3>1, <3>2, <3>3, <3>5, <4>1, <4>2, DeliverEffect
           DEF Outcome, Untouched
    <3> QED
      BY <2>4, <3>6, <3>7 DEF Good
  <2> QED
    BY <2>3, <2>4
<1>4. CASE ReleaseGuard(u)
  <2>1. \/ kern'[v] = kern[v] /\ (kern[v] = "waiting" => connected' = connected)
        \/ kern[v] = "waiting" /\ kern'[v] = "cancelled"
    BY <1>4, ReleaseFdSpares DEF ReleaseGuard
  <2>2. CASE v # u
    BY <1>4, <2>1, <2>2, SparedStaysGood DEF ReleaseGuard, Spared, TypeOK
  <2>3. CASE v = u
    BY <1>4, <2>1, <2>3
       DEF ReleaseGuard, TypeOK, Good, History, Outcome, Untouched
  <2> QED
    BY <2>2, <2>3
<1> QED
  BY <1>1, <1>2, <1>3, <1>4 DEF CallStep

(* Everything else that can happen to a request. *)
LEMMA GoodElse ==
    ASSUME TypeOK, NEW v \in Unique, Good(v),
           \/ \E u \in Unique : Yield(u) \/ KernelCancel(u)
           \/ DropFuse \/ WatcherExit \/ ReuseFd \/ KernelAbort
           \/ UNCHANGED vars
    PROVE  Good(v)'
<1>1. ASSUME NEW u \in Unique, Yield(u) PROVE Good(v)'
  <2>1. CASE v # u
    BY <1>1, <2>1, SparedStaysGood DEF Yield, Spared, fdVars, TypeOK
  <2>2. CASE v = u
    <3>1. /\ pc'[u] = "held" /\ connected /\ connected' = connected
          /\ kern'[u] = IF variant'[u] = "Forget" THEN "oneway" ELSE "waiting"
      BY <1>1 DEF Yield, TypeOK
    <3> QED
      BY <1>1, <2>2, <3>1
         DEF Yield, fdVars, Good, History, Outcome, Untouched
  <2> QED
    BY <2>1, <2>2
<1>2. ASSUME NEW u \in Unique, KernelCancel(u) PROVE Good(v)'
  BY <1>2, SparedStaysGood
     DEF KernelCancel, Spared, requestVars, fdVars, TypeOK
<1>3. CASE DropFuse
  <2>1. \/ kern'[v] = kern[v] /\ (kern[v] = "waiting" => connected' = connected)
        \/ kern[v] = "waiting" /\ kern'[v] = "cancelled"
    BY <1>3, ReleaseFdSpares DEF DropFuse
  <2> QED
    BY <1>3, <2>1, SparedStaysGood DEF DropFuse, Spared, requestVars
<1>4. CASE WatcherExit
  <2>1. \/ kern'[v] = kern[v] /\ (kern[v] = "waiting" => connected' = connected)
        \/ kern[v] = "waiting" /\ kern'[v] = "cancelled"
    BY <1>4, ReleaseFdSpares DEF WatcherExit
  <2> QED
    BY <1>4, <2>1, SparedStaysGood DEF WatcherExit, Spared, requestVars
<1>5. CASE ReuseFd
  BY <1>5, SparedStaysGood DEF ReuseFd, Spared, requestVars, kernelVars
<1>6. CASE KernelAbort
  BY <1>6, CancelWaitingType, SparedStaysGood
     DEF KernelAbort, Spared, requestVars, fdVars
<1>7. CASE UNCHANGED vars
  BY <1>7, SparedStaysGood DEF vars, Spared, requestVars, fdVars, kernelVars
<1> QED
  BY <1>1, <1>2, <1>3, <1>4, <1>5, <1>6, <1>7

-----------------------------------------------------------------------------
(* A message goes astray only once the descriptor is closed, for good. *)
StrayLate == stray # {} => fdnum # "device"

LEMMA StrayStep ==
    ASSUME StrayLate, [Next]_vars
    PROVE  StrayLate'
<1> USE DEF StrayLate, ReleaseFd, fdVars, kernelVars, requestVars
<1>1. CASE UNCHANGED vars
  BY <1>1 DEF vars
<1>2. ASSUME NEW u \in Unique, Yield(u) \/ KernelCancel(u) PROVE StrayLate'
  BY <1>2 DEF Yield, KernelCancel
<1>3. ASSUME NEW u \in Unique, Begin(u) PROVE StrayLate'
  BY <1>3 DEF Begin, BeginReply, BeginDrop, BeginReject, BeginBare, ForgetDrop,
              ReplyOk, DropGuard, Reject, DisarmThenSend
<1>4. ASSUME NEW u \in Unique, CallStep(u) PROVE StrayLate'
  BY <1>4 DEF CallStep, SendGuarded, SendEnosys, SendBare, ReleaseGuard
<1>5. CASE DropFuse \/ WatcherExit \/ ReuseFd \/ KernelAbort
  BY <1>5 DEF DropFuse, WatcherExit, ReuseFd, KernelAbort
<1> QED
  BY <1>1, <1>2, <1>3, <1>4, <1>5, StepCases

(***************************************************************************)
(* The inductive invariant and what follows from it.                       *)
(***************************************************************************)
IndInv ==
    /\ TypeOK
    /\ FdLifetime
    /\ \A u \in Unique : Good(u)
    /\ StrayLate

LEMMA IndInvInit == Init => IndInv
<1> SUFFICES ASSUME Init PROVE IndInv
  OBVIOUS
<1>1. TypeOK
  BY TypeInit
<1>2. FdLifetime
  BY DEF Init, FdLifetime, Referenced
<1>3. \A u \in Unique : Good(u)
  BY DEF Init, Good, History, Outcome, Untouched
<1> QED
  BY <1>1, <1>2, <1>3 DEF IndInv, StrayLate, Init

LEMMA IndInvStep == IndInv /\ [Next]_vars => IndInv'
<1> SUFFICES ASSUME IndInv, [Next]_vars PROVE IndInv'
  OBVIOUS
<1>1. TypeOK'
  BY TypeStep DEF IndInv, Good
<1>2. FdLifetime'
  BY FdStep DEF IndInv
<1>3. ASSUME NEW v \in Unique PROVE Good(v)'
  BY StepCases, GoodBegin, GoodCall, GoodElse DEF IndInv
<1>4. StrayLate'
  BY StrayStep DEF IndInv
<1> QED
  BY <1>1, <1>2, <1>3, <1>4 DEF IndInv

LEMMA IndInvAlways == Spec => []IndInv
BY IndInvInit, IndInvStep, PTL DEF Spec

(* Every variable keeps its type in every behaviour. *)
THEOREM TypeCorrect == Spec => []TypeOK
BY IndInvAlways, PTL DEF IndInv

(* The device descriptor is open exactly while the stream, the watcher or  *)
(* some guard refers to it: RequestGuard's Arc<OwnedFd> works.             *)
THEOREM FdLifetimeHolds == Spec => []FdLifetime
BY IndInvAlways, PTL DEF IndInv

(* A reply method's result is true, whatever the kernel and the other      *)
(* requests do meanwhile, unless its message missed the device.            *)
THEOREM ResultsAreTrue == Spec => []ResultTruthful
<1>1. IndInv => ResultTruthful
  BY DEF IndInv, Good, Outcome, ResultTruthful
<1> QED
  BY <1>1, IndInvAlways, PTL

(* A request that was answered by its consumer is answered once, and no   *)
(* code path writes a message for a FORGET.                                *)
THEOREM RepliesAreSingle == Spec => []SingleReply
<1>1. IndInv => ForgetUnanswered
  BY DEF IndInv, Good, History, Untouched, ForgetUnanswered
<1>2. IndInv => SingleReply
  BY <1>1 DEF IndInv, Good, Outcome, SingleReply
<1> QED
  BY <1>2, IndInvAlways, PTL

(* No request is let go of without an attempt to answer it, and no guarded *)
(* reply fails without its ENOSYS fallback.                                *)
THEOREM NoRequestDroppedSilently == Spec => []NoSilentDrop
<1>1. IndInv => NoSilentDrop
  BY DEF IndInv, Good, Outcome, NoSilentDrop
<1> QED
  BY <1>1, IndInvAlways, PTL

(* A message misses the device only after stream, watcher and all guards   *)
(* are gone, and only from a reply that disarms before it writes.          *)
THEOREM StrayAtTeardownOnly == Spec => []StrayOnlyAtTeardown
<1>1. IndInv => StrayOnlyAtTeardown
  BY DEF IndInv, TypeOK, Good, Outcome, StrayLate, FdLifetime,
         StrayOnlyAtTeardown
<1> QED
  BY <1>1, IndInvAlways, PTL
-----------------------------------------------------------------------------
(***************************************************************************)
(* FuseRequests implements ReplyContract.                                  *)
(***************************************************************************)
got == [u \in Unique |-> GotOf(u)]
told == [u \in Unique |-> ToldOf(u)]

(* The requester's view moves only when the kernel's record of it does. *)
LEMMA GotKept ==
    ASSUME NEW v, kern'[v] = kern[v], answer'[v] = answer[v]
    PROVE  GotOf(v)' = GotOf(v)
BY DEF GotOf

LEMMA ToldKept ==
    ASSUME NEW v, result'[v] = result[v], v \in stray' <=> v \in stray
    PROVE  ToldOf(v)' = ToldOf(v)
BY DEF ToldOf

LEMMA GotSpared ==
    ASSUME NEW v \in Unique, Spared(v)
    PROVE  \/ GotOf(v)' = GotOf(v)
           \/ GotOf(v) = "waiting" /\ GotOf(v)' = "substitute"
<1>1. CASE kern'[v] = kern[v]
  BY <1>1, GotKept DEF Spared
<1>2. CASE kern[v] = "waiting" /\ kern'[v] = "cancelled"
  BY <1>2 DEF GotOf
<1> QED
  BY <1>1, <1>2 DEF Spared

(* Steps in which no consumer learns anything. *)
LEMMA SilentStep ==
    ASSUME \A v \in Unique : ToldOf(v)' = ToldOf(v),
           \A v \in Unique :
              \/ GotOf(v)' = GotOf(v)
              \/ GotOf(v) = "waiting" /\ GotOf(v)' = "substitute"
    PROVE  Contract!Next
<1> DEFINE S == {v \in Unique : GotOf(v) = "waiting" /\ GotOf(v)' = "substitute"}
<1>1. S \in SUBSET {v \in Unique : got[v] = "waiting"}
  BY DEF got
<1>2. got' = [v \in Unique |-> IF v \in S THEN "substitute" ELSE got[v]]
  BY DEF got
<1>3. told' = told
  BY DEF told
<1> QED
  BY <1>1, <1>2, <1>3 DEF Contract!Next, Contract!Substitute, got, told

(* Steps in which one consumer learns the outcome of its reply. *)
LEMMA ReplyStep ==
    ASSUME NEW u \in Unique,
           \A v \in Unique \ {u} :
              GotOf(v)' = GotOf(v) /\ ToldOf(v)' = ToldOf(v),
           ToldOf(u) = "nothing",
           \/ /\ GotOf(u) = "waiting"
              /\ GotOf(u)' = "reply" /\ ToldOf(u)' = "Ok"
           \/ /\ GotOf(u) = "substitute"
              /\ GotOf(u)' = "substitute" /\ ToldOf(u)' = "Cancelled"
           \/ /\ GotOf(u) \in {"waiting", "substitute"}
              /\ GotOf(u)' \in {GotOf(u), "substitute"} /\ ToldOf(u)' = "Io"
    PROVE  Contract!Next
<1>1. /\ got' = [got EXCEPT ![u] = GotOf(u)']
      /\ told' = [told EXCEPT ![u] = ToldOf(u)']
      /\ got[u] = GotOf(u) /\ told[u] = ToldOf(u)
  BY DEF got, told
<1>2. GotOf(u)' = GotOf(u) => got' = got
  BY DEF got
<1>3. CASE GotOf(u)' = "reply" /\ ToldOf(u)' = "Ok"
  <2>1. Contract!Settle(u)
    BY <1>1, <1>3 DEF Contract!Settle, got, told
  <2> QED
    BY <2>1 DEF Contract!Next
<1>4. CASE GotOf(u) = "substitute" /\ ToldOf(u)' = "Cancelled"
  <2>1. Contract!Miss(u)
    BY <1>1, <1>2, <1>4 DEF Contract!Miss, got, told
  <2> QED
    BY <2>1 DEF Contract!Next
<1>5. CASE ToldOf(u)' = "Io"
  <2>1. Contract!Miss(u)
    BY <1>1, <1>2, <1>5 DEF Contract!Miss, got, told
  <2> QED
    BY <2>1 DEF Contract!Next
<1> QED
  BY <1>3, <1>4, <1>5

LEMMA RefineBegin ==
    ASSUME IndInv, NEW u \in Unique, Begin(u)
    PROVE  Contract!Next
<1> USE DEF Owns
<1>1. CASE BeginReject(u)
  <2>1. \A v \in Unique \ {u} : GotOf(v)' = GotOf(v) /\ ToldOf(v)' = ToldOf(v)
    BY <1>1, GotKept, ToldKept
       DEF BeginReject, Reject, fdVars, kernelVars, IndInv, TypeOK
  <2>2. /\ result[u] = "none" /\ result'[u] = "Io"
        /\ kern[u] \in {"waiting", "cancelled"}
        /\ kern'[u] = kern[u] /\ answer'[u] = answer[u] /\ stray' = stray
    BY <1>1 DEF BeginReject, Reject, fdVars, kernelVars, IndInv, TypeOK, Good,
                History, Untouched
  <2>3. /\ ToldOf(u) = "nothing" /\ ToldOf(u)' = "Io"
        /\ GotOf(u) \in {"waiting", "substitute"} /\ GotOf(u)' = GotOf(u)
    BY <2>2 DEF ToldOf, GotOf
  <2> QED
    BY <2>1, <2>3, ReplyStep
<1>2. CASE BeginReply(u) \/ BeginDrop(u) \/ ForgetDrop(u)
  <2>1. UNCHANGED <<result, stray, kern, answer>>
    BY <1>2 DEF BeginReply, BeginDrop, ForgetDrop, ReplyOk, DropGuard, fdVars,
                kernelVars
  <2> QED
    BY <2>1, GotKept, ToldKept, SilentStep
<1>3. CASE BeginBare(u)
  <2>1. UNCHANGED <<result, stray, answer>> /\ ReleaseFd(HeldBesides(u))
    BY <1>3 DEF BeginBare, DisarmThenSend
  <2>2. ASSUME NEW v \in Unique
        PROVE  \/ GotOf(v)' = GotOf(v)
               \/ GotOf(v) = "waiting" /\ GotOf(v)' = "substitute"
    BY <2>1, ReleaseFdSpares, GotKept DEF IndInv, GotOf
  <2> QED
    BY <2>1, <2>2, ToldKept, SilentStep
<1> QED
  BY <1>1, <1>2, <1>3 DEF Begin

LEMMA RefineSendGuarded ==
    ASSUME IndInv, NEW u \in Unique, SendGuarded(u)
    PROVE  Contract!Next
<1>1. PICK outcome \in Outcomes(u) :
        /\ Deliver(u, outcome)
        /\ result' = [result EXCEPT ![u] = Returned(u, outcome)]
  BY DEF SendGuarded
<1>2. \A v \in Unique \ {u} : GotOf(v)' = GotOf(v) /\ ToldOf(v)' = ToldOf(v)
  BY <1>1, DeliverEffect, GotKept, ToldKept
     DEF SendGuarded, fdVars, IndInv, TypeOK
<1>3. /\ kern[u] \in {"waiting", "cancelled"} /\ sending[u] = "data"
      /\ kern[u] = "waiting" => connected
      /\ result[u] = "none" /\ u \notin stray /\ stray' = stray
      /\ result'[u] = Returned(u, outcome)
  BY <1>1 DEF SendGuarded, fdVars, IndInv, TypeOK, Good, History, Outcome,
              Untouched
<1>4. ToldOf(u) = "nothing" /\ ToldOf(u)' = Returned(u, outcome)
  BY <1>3 DEF ToldOf, Returned
<1>5. \/ outcome = "taken" /\ kern[u] = "waiting"
      \/ outcome \in {"refused", "spoiled"} /\ kern[u] = "waiting"
      \/ outcome = "gone" /\ kern[u] = "cancelled"
  BY <1>1, <1>3 DEF Outcomes
<1>6. CASE outcome = "taken"
  <2>1. /\ GotOf(u) = "waiting" /\ GotOf(u)' = "reply"
        /\ Returned(u, outcome) = "Ok"
    BY <1>1, <1>3, <1>5, <1>6, DeliverEffect DEF GotOf, Returned, IndInv
  <2> QED
    BY <1>2, <1>4, <2>1, ReplyStep
<1>7. CASE outcome \in {"refused", "spoiled"}
  <2>1. /\ GotOf(u) = "waiting" /\ GotOf(u)' \in {"waiting", "substitute"}
        /\ Returned(u, outcome) = "Io"
    BY <1>1, <1>3, <1>5, <1>7, DeliverEffect DEF GotOf, Returned, IndInv
  <2> QED
    BY <1>2, <1>4, <2>1, ReplyStep
<1>8. CASE outcome = "gone"
  <2>1. /\ GotOf(u) = "substitute" /\ GotOf(u)' = "substitute"
        /\ Returned(u, outcome) \in {"Cancelled", "Io"}
    BY <1>1, <1>3, <1>5, <1>8, DeliverEffect DEF GotOf, Returned, IndInv
  <2> QED
    BY <1>2, <1>4, <2>1, ReplyStep
<1> QED
  BY <1>5, <1>6, <1>7, <1>8

LEMMA RefineSendEnosys ==
    ASSUME IndInv, NEW u \in Unique, SendEnosys(u)
    PROVE  Contract!Next
<1>1. PICK outcome \in Outcomes(u) : Deliver(u, outcome)
  BY DEF SendEnosys
<1>2. sending[u] = "ENOSYS"
  BY DEF SendEnosys, IndInv, Good, History
<1>3. ASSUME NEW v \in Unique
      PROVE  \/ GotOf(v)' = GotOf(v)
             \/ GotOf(v) = "waiting" /\ GotOf(v)' = "substitute"
  <2>1. CASE v # u
    BY <1>1, <2>1, DeliverEffect, GotKept DEF IndInv
  <2>2. CASE v = u /\ outcome \in {"taken", "spoiled"}
    <3>1. kern[u] = "waiting"
      BY <1>1, <2>2 DEF Outcomes
    <3> QED
      BY <1>1, <1>2, <2>2, <3>1, DeliverEffect DEF IndInv, GotOf
  <2>3. CASE v = u /\ outcome \notin {"taken", "spoiled"}
    BY <1>1, <2>3, DeliverEffect, GotKept DEF IndInv
  <2> QED
    BY <2>1, <2>2, <2>3
<1> QED
  BY <1>3, ToldKept, SilentStep DEF SendEnosys, fdVars

LEMMA RefineSendBare ==
    ASSUME IndInv, NEW u \in Unique, SendBare(u)
    PROVE  Contract!Next
<1>1. PICK outcome \in RawOutcomes(u) :
        /\ Deliver(u, outcome)
        /\ result' = [result EXCEPT ![u] =
                        IF sending[u] = "EIO" THEN @ ELSE Returned(u, outcome)]
  BY DEF SendBare
<1>2. \A v \in Unique \ {u} : GotOf(v)' = GotOf(v) /\ ToldOf(v)' = ToldOf(v)
  BY <1>1, DeliverEffect, GotKept, ToldKept DEF SendBare, IndInv, TypeOK
<1>3. /\ kern[u] \in {"waiting", "cancelled"}
      /\ sending[u] \in {"vectored", "errno", "ERANGE", "EIO"}
      /\ kern[u] = "waiting" => connected
      /\ result[u] = "none" /\ u \notin stray
      /\ u \in stray' <=> fdnum # "device"
  BY <1>1 DEF SendBare, IndInv, TypeOK, Good, History, Outcome, Untouched
<1>4. ToldOf(u) = "nothing"
  BY <1>3 DEF ToldOf
<1>5. fdnum = "device" =>
        \/ outcome = "taken" /\ kern[u] = "waiting"
        \/ outcome \in {"refused", "spoiled"} /\ kern[u] = "waiting"
        \/ outcome = "gone" /\ kern[u] = "cancelled"
  BY <1>1, <1>3 DEF RawOutcomes, Outcomes
<1>6. fdnum # "device" => outcome \in {"failed", "swallowed", "gone"}
  BY <1>1 DEF RawOutcomes, IndInv, TypeOK
<1>7. CASE sending[u] = "EIO"
  <2>1. result'[u] = "none"
    BY <1>1, <1>3, <1>7 DEF IndInv, TypeOK
  <2>2. ToldOf(u)' = "nothing"
    BY <2>1 DEF ToldOf
  <2>3. \/ GotOf(u)' = GotOf(u)
        \/ GotOf(u) = "waiting" /\ GotOf(u)' = "substitute"
    BY <1>1, <1>3, <1>5, <1>6, <1>7, DeliverEffect DEF IndInv, GotOf
  <2> QED
    BY <1>2, <1>4, <2>2, <2>3, SilentStep
<1>8. CASE sending[u] # "EIO"
  <2>1. result'[u] = Returned(u, outcome)
    BY <1>1, <1>8 DEF IndInv, TypeOK
  <2>2. CASE fdnum # "device"
    <3>1. ToldOf(u)' = "Io"
      BY <1>3, <2>1, <2>2 DEF ToldOf, Returned
    <3>2. /\ GotOf(u) \in {"waiting", "substitute"}
          /\ GotOf(u)' = GotOf(u)
      BY <1>1, <1>3, <1>6, <2>2, DeliverEffect DEF GotOf, IndInv
    <3> QED
      BY <1>2, <1>4, <3>1, <3>2, ReplyStep
  <2>3. CASE fdnum = "device"
    <3>1. ToldOf(u)' = Returned(u, outcome)
      BY <1>3, <2>1, <2>3 DEF ToldOf, Returned
    <3>2. CASE outcome = "taken"
      <4>1. /\ GotOf(u) = "waiting" /\ GotOf(u)' = "reply"
            /\ Returned(u, outcome) = "Ok"
        BY <1>1, <1>3, <1>5, <1>8, <2>3, <3>2, DeliverEffect
           DEF GotOf, Returned, IndInv
      <4> QED
        BY <1>2, <1>4, <3>1, <4>1, ReplyStep
    <3>3. CASE outcome \in {"refused", "spoiled"}
      <4>1. /\ GotOf(u) = "waiting" /\ GotOf(u)' \in {"waiting", "substitute"}
            /\ Returned(u, outcome) = "Io"
        BY <1>1, <1>3, <1>5, <2>3, <3>3, DeliverEffect
           DEF GotOf, Returned, IndInv
      <4> QED
        BY <1>2, <1>4, <3>1, <4>1, ReplyStep
    <3>4. CASE outcome = "gone"
      <4>1. /\ GotOf(u) = "substitute" /\ GotOf(u)' = "substitute"
            /\ Returned(u, outcome) \in {"Cancelled", "Io"}
        BY <1>1, <1>3, <1>5, <2>3, <3>4, DeliverEffect
           DEF GotOf, Returned, IndInv
      <4> QED
        BY <1>2, <1>4, <3>1, <4>1, ReplyStep
    <3> QED
      BY <1>5, <2>3, <3>2, <3>3, <3>4
  <2> QED
    BY <2>2, <2>3
<1> QED
  BY <1>7, <1>8

LEMMA RefineYield ==
    ASSUME IndInv, NEW u \in Unique, Yield(u)
    PROVE  Contract!Next
<1>1. \A v \in Unique : ToldOf(v)' = ToldOf(v)
  BY ToldKept DEF Yield, fdVars
<1>2. \A v \in Unique \ {u} : GotOf(v)' = GotOf(v)
  BY GotKept DEF Yield, IndInv, TypeOK
<1>3. GotOf(u) = "unsent" /\ GotOf(u)' \in {"waiting", "oneway"}
  BY DEF Yield, IndInv, TypeOK, GotOf
<1>4. got' = [got EXCEPT ![u] = GotOf(u)'] /\ got[u] = "unsent" /\ told' = told
  BY <1>1, <1>2, <1>3 DEF got, told
<1>5. Contract!Arrive(u)
  BY <1>3, <1>4 DEF Contract!Arrive, got, told
<1> QED
  BY <1>5 DEF Contract!Next

(* The steps that leave every request alone or cut it off. *)
LEMMA RefineElse ==
    ASSUME IndInv,
           \/ \E u \in Unique : ReleaseGuard(u) \/ KernelCancel(u)
           \/ DropFuse \/ WatcherExit \/ ReuseFd \/ KernelAbort
    PROVE  Contract!Next
<1>1. UNCHANGED <<result, stray, answer>>
  BY DEF ReleaseGuard, KernelCancel, DropFuse, WatcherExit, ReuseFd,
         KernelAbort, requestVars, fdVars, kernelVars
<1>2. ASSUME NEW v \in Unique
      PROVE  \/ kern'[v] = kern[v]
             \/ kern[v] = "waiting" /\ kern'[v] = "cancelled"
  <2>1. CASE \E u \in Unique : ReleaseGuard(u)
    BY <2>1, ReleaseFdSpares DEF ReleaseGuard, IndInv
  <2>2. CASE DropFuse
    BY <2>2, ReleaseFdSpares DEF DropFuse, IndInv
  <2>3. CASE WatcherExit
    BY <2>3, ReleaseFdSpares DEF WatcherExit, IndInv
  <2>4. CASE \E u \in Unique : KernelCancel(u)
    BY <2>4 DEF KernelCancel, IndInv, TypeOK
  <2>5. CASE ReuseFd
    BY <2>5 DEF ReuseFd, kernelVars
  <2>6. CASE KernelAbort
    BY <2>6, CancelWaitingType DEF KernelAbort, IndInv
  <2> QED
    BY <2>1, <2>2, <2>3, <2>4, <2>5, <2>6
<1>3. ASSUME NEW v \in Unique
      PROVE  \/ GotOf(v)' = GotOf(v)
             \/ GotOf(v) = "waiting" /\ GotOf(v)' = "substitute"
  BY <1>1, <1>2, GotKept DEF GotOf
<1> QED
  BY <1>1, <1>3, ToldKept, SilentStep

LEMMA RefineInit == Init => Contract!Init
BY DEF Init, Contract!Init, GotOf, ToldOf

LEMMA RefineStep ==
    IndInv /\ [Next]_vars => [Contract!Next]_Contract!vars
<1> SUFFICES ASSUME IndInv, [Next]_vars PROVE [Contract!Next]_Contract!vars
  OBVIOUS
<1>1. CASE UNCHANGED vars
  <2>1. got' = got /\ told' = told
    BY <1>1 DEF vars, requestVars, fdVars, kernelVars, got, told, GotOf, ToldOf
  <2> QED
    BY <2>1 DEF Contract!vars, got, told
<1>2. CASE Next
  BY <1>2, StepCases, RefineYield, RefineBegin, RefineSendGuarded,
     RefineSendEnosys, RefineSendBare, RefineElse DEF CallStep
<1> QED
  BY <1>1, <1>2

(* The reply protocol keeps the contract between consumer and requester:   *)
(* what a reply method returns and how the request ends are decided in one *)
(* step, for every set of requests and every interleaving.                 *)
THEOREM ContractHolds == Spec => ImplementsContract
<1>1. Contract!Init /\ [][Contract!Next]_Contract!vars => ImplementsContract
  BY DEF ImplementsContract, Contract!Spec
<1> QED
  BY <1>1, RefineInit, RefineStep, IndInvAlways, PTL DEF Spec
=============================================================================
