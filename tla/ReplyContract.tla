---------------------------- MODULE ReplyContract ----------------------------
(***************************************************************************)
(* What requests.rs promises about one request, without guards, messages   *)
(* and descriptors.  Two parties learn an outcome: the requester in the    *)
(* kernel, and the consumer through the value its reply method returns.    *)
(* The promise is that the two never disagree: the consumer is told Ok in  *)
(* the very step in which its own message settles the request, and a       *)
(* request settled any other way is never reported as Ok.                  *)
(***************************************************************************)
CONSTANT Unique

VARIABLES
    got,    \* got[u]: what the requester learnt
    told    \* told[u]: what the consumer learnt

vars == <<got, told>>

(* "unsent" and "waiting" come before an outcome; "reply" is the message   *)
(* the consumer chose, "substitute" one the library or the kernel chose;   *)
(* nobody waits for the outcome of a "oneway" request.                     *)
Got == {"unsent", "oneway", "waiting", "reply", "substitute"}
Told == {"nothing", "Ok", "Cancelled", "Io"}

Init ==
    /\ got = [u \in Unique |-> "unsent"]
    /\ told = [u \in Unique |-> "nothing"]

Arrive(u) ==
    /\ got[u] = "unsent"
    /\ \E g \in {"waiting", "oneway"} : got' = [got EXCEPT ![u] = g]
    /\ UNCHANGED told

(* The consumer's reply settles the request, and the consumer knows. *)
Settle(u) ==
    /\ got[u] = "waiting" /\ told[u] = "nothing"
    /\ got' = [got EXCEPT ![u] = "reply"]
    /\ told' = [told EXCEPT ![u] = "Ok"]

(* The reply does not go through.  Cancelled means that the request was    *)
(* already settled otherwise; an I/O error may itself have settled it.     *)
Miss(u) ==
    /\ told[u] = "nothing"
    /\ \/ /\ got[u] = "substitute"
          /\ told' = [told EXCEPT ![u] = "Cancelled"]
          /\ UNCHANGED got
       \/ /\ got[u] \in {"waiting", "substitute"}
          /\ told' = [told EXCEPT ![u] = "Io"]
          /\ got' = got \/ got' = [got EXCEPT ![u] = "substitute"]

(* The library's fallback, or the kernel, settles requests by itself.      *)
Substitute ==
    /\ \E S \in SUBSET {u \in Unique : got[u] = "waiting"} :
        got' = [u \in Unique |-> IF u \in S THEN "substitute" ELSE got[u]]
    /\ UNCHANGED told

Next ==
    \/ \E u \in Unique : Arrive(u) \/ Settle(u) \/ Miss(u)
    \/ Substitute

Spec == Init /\ [][Next]_vars
=============================================================================
