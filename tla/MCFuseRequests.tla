--------------------------- MODULE MCFuseRequests ---------------------------
(* Small instances of FuseRequests for TLC. *)
EXTENDS FuseRequestsRefine, TLC

CONSTANTS u1, u2

(* One variant for each way of ending a request. *)
Representatives ==
    {"Lookup", "Forget", "Readdir", "Create", "Read", "GetXAttr"}

(* Requests are interchangeable and the variants that are not among the    *)
(* representatives behave like one of them, so it is enough to meet every  *)
(* variant in the first request and every representative in the second.    *)
SecondIsRepresentative == variant[u2] \in Representatives \cup {"none"}
=============================================================================
