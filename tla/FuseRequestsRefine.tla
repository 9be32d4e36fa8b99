-------------------------- MODULE FuseRequestsRefine --------------------------
(* FuseRequests implements ReplyContract. *)
EXTENDS FuseRequests

(* The requester's view.  ENOSYS, and an EIO, are never the consumer's. *)
GotOf(u) ==
    CASE kern[u] \in {"unsent", "oneway", "waiting"} -> kern[u]
      [] kern[u] = "cancelled" -> "substitute"
      [] kern[u] = "answered" ->
            IF answer[u] \in {"ENOSYS", "EIO"} THEN "substitute" ELSE "reply"

(* The consumer's view.  A message that missed the device is mapped to an  *)
(* error: see StrayOnlyAtTeardown for when that can happen.                *)
ToldOf(u) ==
    CASE u \in stray /\ result[u] # "none" -> "Io"
      [] result[u] = "none" -> "nothing"
      [] OTHER -> result[u]

Contract == INSTANCE ReplyContract WITH
    got <- [u \in Unique |-> GotOf(u)],
    told <- [u \in Unique |-> ToldOf(u)]

(* The guards, the drop handlers and the order of disarming and writing    *)
(* keep the promise of ReplyContract: the value a reply method returns and *)
(* the outcome of the request in the kernel are decided in one step.       *)
ImplementsContract == Contract!Spec
=============================================================================
