----------------------------- MODULE MCListings -----------------------------
(* The two listings in one run.  They share no state, so that their        *)
(* interleaving adds nothing: each is explored while the other is at rest, *)
(* and the fairness of each is asked for only then.                        *)
(*                                                                         *)
(* Four names whose entries take 32, 48, 40 and 32 bytes (128 more in a    *)
(* READDIRPLUS reply), so that a shorter one may still fit where a longer  *)
(* one did not; buffers for one entry, and for two or three.               *)
(*                                                                         *)
(* Three attributes with names of one, two and three bytes.                *)
EXTENDS DirListing, XattrList

MCNameLen == <<1, 20, 9, 4, 2, 1>>
MCDirs    == {2}
MCReaddirSizes     == {48, 112}
MCReaddirPlusSizes == {176, 344}
MCAttrLen == <<1, 2, 3>>

(* An empty directory has been listed to its end, in two replies. *)
ListingAtRest ==
  /\ files = {} /\ stable = {} /\ created = 0 /\ removed = 0
  /\ pc = "idle" /\ next = 0 /\ plus = FALSE /\ buf = new(0)
  /\ pos = 2 /\ got = <<DotDot, Dot>> /\ ended = TRUE

(* The attributes of a file that has none have been asked for. *)
XattrAtRest ==
  /\ attrs = {} /\ changes = 0
  /\ hint = 0 /\ caller = "done" /\ result = << >>
  /\ listed = {} /\ size = 0 /\ response = << >> /\ todo = {}

ListingsInit == (Init /\ XattrAtRest) \/ (ListingAtRest /\ XattrInit)

ListingDoes(action) == XattrAtRest /\ action /\ UNCHANGED xattrVars
XattrDoes(action) == ListingAtRest /\ action /\ UNCHANGED vars

ListingsNext == ListingDoes(Next) \/ XattrDoes(XattrNext)

allVars == <<vars, xattrVars>>

ListingsSpec ==
  /\ ListingsInit /\ [][ListingsNext]_allVars
  /\ WF_allVars(ListingDoes(Daemon)) /\ WF_allVars(ListingDoes(Readdir))
  /\ WF_allVars(XattrDoes(FileSystem)) /\ WF_allVars(XattrDoes(ListXAttrSize \/ ListXAttr))
=============================================================================
