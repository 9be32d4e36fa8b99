--------------------------- MODULE MCConversions ----------------------------
(* The bodies of the messages and the attributes in one run.  They share   *)
(* no state, so that their interleaving adds nothing: the messages of      *)
(* WireFormat are explored on every connection before a file's attributes  *)
(* are first asked for, the attributes on one connection, between two      *)
(* messages.                                                               *)
(*                                                                         *)
(* Names of one to three bytes, among them one that begins another.  The   *)
(* page sizes of Linux machines at both ends, and a sysconf that fails;    *)
(* kernels older and younger than the crate's protocol version, with every *)
(* choice of the capabilities that decide about messages.                  *)
(*                                                                         *)
(* Seconds and sizes of 4 bits, nanoseconds of 3 bits with 5 of them in a  *)
(* second; values on either side of every edge: 7 is the largest positive  *)
(* i64, 8 and 15 are negative as i64, 5 nanoseconds are a second.          *)
EXTENDS WireFormat, Attributes

MCNames     == {<<97>>, <<97, 98>>, <<98, 97, 99>>}
MCPageSizes == {0, 4096, 65536}
MCMinors    == {23, 41}
MCOffers    ==
  {InitFlags \ s : s \in SUBSET {"BIG_WRITES", "MAX_PAGES", "DO_READDIRPLUS", "READDIRPLUS_AUTO"}}

Value(perm, id, size, secs, atimensec, mtimensec) ==
  [perm |-> perm, id |-> id, size |-> size, secs |-> secs,
   atimensec |-> atimensec, mtimensec |-> mtimensec]

MCValues ==
  {Value({"u+w"}, 1, 7, 7, 4, 0), Value({}, 0, 8, 8, 5, 4), Value({"u+x"}, 2, 15, 15, 7, 5),
   Value({"u+w"}, 0, 0, 0, 0, 1)}
MCClock == {[secs |-> 3, nsecs |-> 0], [secs |-> 3, nsecs |-> 2]}
MCTimeouts == {-3, 0, 7, 79, 80, 400}

(* No attribute has been asked for, or set. *)
FileUntouched == phase = "idle" /\ count = 0

(* The connection on which they are, with everything offered and enabled.  *)
Connected ==
  /\ offer = [minor |-> 41, flags |-> InitFlags] /\ page = 4096
  /\ ops = {"readdirplus", "open"}
  /\ pc = "kernel" /\ Quiet

ConversionsInit == Init /\ AttributesInit

ConversionsNext ==
  \/ FileUntouched /\ Next /\ UNCHANGED attrVars
  \/ Connected /\ AttributesNext /\ UNCHANGED vars

ConversionsSpec == ConversionsInit /\ [][ConversionsNext]_<<vars, attrVars>>
=============================================================================
