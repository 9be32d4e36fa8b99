------------------------------ MODULE MCTmpFs ------------------------------
(* Instances of TmpFs for TLC.                                             *)
EXTENDS TmpFs, TLC

CONSTANTS a, b

NameSymmetry == Permutations(Name)

AllKinds == RequestKind

(* The requests whose reply maps ENOENT to Cancelled. *)
Cancellable == {"Lookup", "Create", "Open"}
=============================================================================
