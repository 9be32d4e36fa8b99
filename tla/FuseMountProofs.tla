-------------------------- MODULE FuseMountProofs --------------------------
(***************************************************************************)
(* Proofs about FuseMount, for any mounts on the path, any set of steps    *)
(* that may fail and any bound on the mounts.                              *)
(***************************************************************************)
EXTENDS FuseMount, TLAPS

(* This session is not mounted. *)
NotMounted == \A i \in DOMAIN table : table[i] # "ours"

(***************************************************************************)
(* What mount() and the helper have and have not done, by where they are.  *)
(* MountSafety is not inductive without it: that a second way to mount is  *)
(* taken only while nothing is mounted, and that the descriptor is where   *)
(* it should be, follows from the order of the steps.                      *)
(***************************************************************************)
MountOrder ==
    /\ pc \in {"start", "direct", "pair", "spawn"} => helper = "none" /\ NotMounted
    /\ helper = "running" => NotMounted

DeviceOwner ==
    /\ pc \in {"start", "direct", "pair", "spawn", "wait", "recv"} => ~fd
    /\ pc \in {"start", "direct", "pair", "mounted", "live"} => sock \in {"none", "closed"}
    /\ pc \in {"failed", "dropped"} \/ ~running => ~fd /\ sock \in {"none", "closed"}

(* Who else has a clone of the device: nobody before mount() returns, no   *)
(* watcher at work after Fuse::drop, and nobody after the exit.            *)
CloneOwner ==
    /\ pc \notin {"live", "dropped"} => watcher = "none" /\ guards = 0
    /\ pc = "dropped" => watcher # "running"
    /\ ~running => watcher \in {"none", "gone"} /\ guards = 0

IndInv == TypeOK /\ MountedOnce /\ MountOrder /\ DeviceOwner /\ CloneOwner

-----------------------------------------------------------------------------
(* What a mount, an unmount and a detach do to the stack. *)
LEMMA PushType ==
    ASSUME NEW k \in Kind, table \in Seq(Kind), table' = Append(table, k)
    PROVE  /\ table' \in Seq(Kind)
           /\ MountedOnce /\ (k # "ours" \/ NotMounted) => MountedOnce'
           /\ k # "ours" /\ NotMounted => NotMounted'
BY DEF MountedOnce, NotMounted

LEMMA PopType ==
    ASSUME table \in Seq(Kind), table # <<>>, table' = Front(table)
    PROVE  /\ table' \in Seq(Kind)
           /\ MountedOnce => MountedOnce'
           /\ NotMounted => NotMounted'
BY DEF MountedOnce, NotMounted, Front

LEMMA DetachType ==
    ASSUME table \in Seq(Kind), table' = Detach(table)
    PROVE  /\ table' \in Seq(Kind)
           /\ MountedOnce => MountedOnce'
           /\ NotMounted => NotMounted'
BY PopType DEF Detach, MountedOnce, NotMounted

(* A stack that is left alone keeps what is said of it. *)
LEMMA SameTable ==
    ASSUME UNCHANGED table
    PROVE  /\ MountedOnce => MountedOnce'
           /\ NotMounted => NotMounted'
BY DEF MountedOnce, NotMounted

-----------------------------------------------------------------------------
LEMMA IndInit == Init => IndInv
<1> SUFFICES ASSUME Init PROVE IndInv
  OBVIOUS
<1>1. table \in Seq(Kind) /\ NotMounted
  BY KindsAssumption DEF Init, NotMounted, Kind
<1>2. guards \in 0..MaxGuards
  BY BoundAssumption DEF Init
<1>3. TypeOK
  BY <1>1, <1>2 DEF Init, TypeOK, Phase
<1> QED
  BY <1>1, <1>3 DEF Init, IndInv, MountedOnce, NotMounted, MountOrder, DeviceOwner,
     CloneOwner

(* Every early return of mount() closes what it owns. *)
LEMMA ReturnErrInd ==
    ASSUME IndInv, ReturnErr, pc \notin {"live", "dropped"},
           UNCHANGED <<caller, priv, busy, table, helper, unmounter, running, clones>>
    PROVE  IndInv'
<1>1. pc' = "failed" /\ fd' = FALSE
  BY DEF ReturnErr, Goto
<1>2. sock \in {"none", "empty", "fd", "closed"} /\ sock' \in {"none", "closed"}
  BY DEF ReturnErr, IndInv, TypeOK
<1>3. UNCHANGED <<caller, priv, busy, table, helper, unmounter, running, watcher, guards>>
  BY DEF clones
<1>4. TypeOK'
  BY <1>1, <1>2, <1>3, ZenonT(40) DEF IndInv, TypeOK, Phase
<1>5. MountedOnce' /\ MountOrder'
  BY <1>1, <1>3, SameTable DEF IndInv, MountOrder
<1>6. DeviceOwner'
  BY <1>1, <1>2 DEF DeviceOwner
<1>7. CloneOwner'
  BY <1>1, <1>3 DEF IndInv, CloneOwner
<1> QED
  BY <1>4, <1>5, <1>6, <1>7 DEF IndInv

(* The steps of mount() itself. *)
LEMMA MountStepInd ==
    ASSUME IndInv, MountStep
    PROVE  IndInv'
<1> USE DEF IndInv, TypeOK, Phase, MountOrder, DeviceOwner, CloneOwner, At, Goto, clones
<1>1. CASE Canonicalize
  <2>1. CASE ReturnErr
    BY <1>1, <2>1, ReturnErrInd DEF Canonicalize
  <2>2. CASE Goto("direct") /\ UNCHANGED <<fd, sock>>
    BY <1>1, <2>2, SameTable DEF Canonicalize
  <2> QED
    BY <1>1, <2>1, <2>2 DEF Canonicalize
<1>2. CASE DirectMount
  BY <1>2, PushType DEF DirectMount, Kind
<1>3. CASE DirectRefused
  BY <1>3, SameTable DEF DirectRefused
<1>4. CASE DirectFails
  BY <1>4, ReturnErrInd DEF DirectFails
<1>5. CASE SocketPair
  <2>1. CASE ReturnErr
    BY <1>5, <2>1, ReturnErrInd, SameTable DEF SocketPair
  <2>2. CASE Goto("spawn") /\ sock' = "empty" /\ UNCHANGED fd
    BY <1>5, <2>2, SameTable DEF SocketPair
  <2> QED
    BY <1>5, <2>1, <2>2 DEF SocketPair
<1>6. CASE Spawn
  <2>1. CASE ReturnErr
    BY <1>6, <2>1, ReturnErrInd, SameTable DEF Spawn
  <2>2. CASE Goto("wait") /\ helper' = "running" /\ UNCHANGED <<fd, sock>>
    BY <1>6, <2>2, SameTable DEF Spawn
  <2> QED
    BY <1>6, <2>1, <2>2 DEF Spawn
<1>7. CASE Wait
  <2>1. CASE ReturnErr
    BY <1>7, <2>1, ReturnErrInd, SameTable DEF Wait
  <2>2. CASE helper = "good" /\ Goto("recv") /\ UNCHANGED <<fd, sock>>
    BY <1>7, <2>2, SameTable DEF Wait
  <2> QED
    BY <1>7, <2>1, <2>2 DEF Wait
<1>8. CASE RecvFd
  <2>1. CASE ReturnErr
    BY <1>8, <2>1, ReturnErrInd, SameTable DEF RecvFd
  <2>2. CASE fd' = TRUE /\ sock' = "closed" /\ Goto("mounted")
    BY <1>8, <2>2, SameTable DEF RecvFd
  <2> QED
    BY <1>8, <2>1, <2>2 DEF RecvFd
<1>9. CASE Configure
  <2>1. CASE ReturnErr
    BY <1>9, <2>1, ReturnErrInd, SameTable DEF Configure
  <2>2. CASE Goto("live") /\ watcher' = "running" /\ UNCHANGED <<fd, sock>>
    BY <1>9, <2>2, SameTable DEF Configure
  <2> QED
    BY <1>9, <2>1, <2>2 DEF Configure
<1> QED
  BY <1>1, <1>2, <1>3, <1>4, <1>5, <1>6, <1>7, <1>8, <1>9 DEF MountStep

(* The steps of the helper. *)
LEMMA HelperStepInd ==
    ASSUME IndInv, HelperStep
    PROVE  IndInv'
<1> USE DEF IndInv, TypeOK, Phase, MountOrder, DeviceOwner, CloneOwner, clones
<1>1. CASE HelperMounts
  BY <1>1, PushType DEF HelperMounts, Kind
<1>2. CASE HelperSends
  BY <1>2, SameTable, DetachType DEF HelperSends
<1>3. CASE HelperExits
  BY <1>3, SameTable DEF HelperExits
<1> QED
  BY <1>1, <1>2, <1>3 DEF HelperStep

(* Dropping the Fuse, its unmount thread, and everybody else. *)
LEMMA OtherStepInd ==
    ASSUME IndInv,
           \/ CancelCaller \/ TakeRequest \/ SettleRequest \/ WatcherEnds
           \/ DropFuse \/ RunUnmounter \/ UnmounterEnds
           \/ OtherMount \/ OtherUnmount \/ Exit
    PROVE  IndInv'
<1> USE DEF IndInv, TypeOK, Phase, MountOrder, DeviceOwner, CloneOwner, clones
<1>1. CASE CancelCaller
  BY <1>1, SameTable DEF CancelCaller
<1>2. CASE DropFuse
  <2>1. /\ table' \in Seq(Kind)
        /\ MountedOnce'
        /\ NotMounted => NotMounted'
    BY <1>2, SameTable, DetachType DEF DropFuse
  <2>2. watcher' \in {"none", "aborted", "gone"} /\ UNCHANGED guards
    BY <1>2 DEF DropFuse, Abort
  <2>3. pc' = "dropped" /\ running /\ UNCHANGED running
    BY <1>2 DEF DropFuse, At, Goto
  <2>4. TypeOK'
    BY <1>2, <2>1, <2>2, <2>3, ZenonT(40) DEF DropFuse
  <2>5. CloneOwner'
    BY <2>2, <2>3
  <2> QED
    BY <1>2, <2>1, <2>3, <2>4, <2>5 DEF DropFuse, At, Goto
<1>3. CASE RunUnmounter
  BY <1>3, SameTable DEF RunUnmounter
<1>4. CASE UnmounterEnds
  BY <1>4, SameTable, PopType DEF UnmounterEnds, Detachable
<1>5. CASE OtherMount
  BY <1>5, PushType, KindsAssumption DEF OtherMount
<1>6. CASE OtherUnmount
  BY <1>6, PopType DEF OtherUnmount
<1>7. CASE Exit
  <2>1. ~fd' /\ sock' \in {"none", "closed"}
    BY <1>7 DEF Exit
  <2>2. watcher' \in {"none", "gone"} /\ guards' = 0
    BY <1>7 DEF Exit
  <2>3. guards' \in 0..MaxGuards
    BY <2>2, BoundAssumption
  <2>4. TypeOK'
    <3>1. fd' \in BOOLEAN /\ running' \in BOOLEAN
      BY <1>7 DEF Exit
    <3>2. UNCHANGED <<pc, caller, priv, busy, table, helper, unmounter>>
      BY <1>7 DEF Exit
    <3>3. TypeOK
      BY DEF IndInv
    <3> HIDE DEF IndInv, Phase, MountOrder, DeviceOwner, CloneOwner, clones
    <3> QED
      BY <3>1, <3>2, <3>3, <2>1, <2>2, <2>3
  <2>5. CloneOwner'
    BY <1>7, <2>2 DEF Exit
  <2> QED
    BY <1>7, <2>1, <2>4, <2>5, SameTable DEF Exit
<1>8. CASE TakeRequest
  <2>1. guards' \in 0..MaxGuards
    BY <1>8, BoundAssumption DEF TakeRequest
  <2> QED
    BY <1>8, <2>1, SameTable DEF TakeRequest, At
<1>9. CASE SettleRequest
  <2>1. guards' \in 0..MaxGuards
    BY <1>9, BoundAssumption DEF SettleRequest
  <2>2. pc \in {"live", "dropped"} /\ running
    BY <1>9 DEF SettleRequest
  <2> QED
    BY <1>9, <2>1, <2>2, SameTable DEF SettleRequest
<1>10. CASE WatcherEnds
  BY <1>10, SameTable DEF WatcherEnds
<1> QED
  BY <1>1, <1>2, <1>3, <1>4, <1>5, <1>6, <1>7, <1>8, <1>9, <1>10

LEMMA IndInvAlways == Spec => []IndInv
<1>1. IndInv /\ UNCHANGED vars => IndInv'
  BY SameTable DEF vars, clones, IndInv, TypeOK, MountOrder, DeviceOwner, CloneOwner
<1>2. IndInv /\ [Next]_vars => IndInv'
  BY <1>1, MountStepInd, HelperStepInd, OtherStepInd DEF Next
<1> QED
  BY <1>2, IndInit, PTL DEF Spec

(* Whatever fails in mount(), in the helper or in the program, and         *)
(* whatever others mount on the path: the session is mounted at most once, *)
(* a mount() that failed or an exited program leaves nobody waiting for an *)
(* answer, and after Fuse::drop only the requests the consumer still has   *)
(* and the watcher that was told to go refer to the device.                *)
THEOREM MountIsSafe == Spec => []MountSafety
<1>1. IndInv => MountSafety
  BY DEF IndInv, TypeOK, MountSafety, NobodyWaits, DeviceOwner, CloneOwner, Referenced
<1> QED
  BY <1>1, IndInvAlways, PTL
=============================================================================
