---------------------------- MODULE MCFuseMount ----------------------------
(* An instance of FuseMount for TLC.                                       *)
EXTENDS FuseMount

AnyBelow == {<<>>, <<"foreign">>, <<"peer">>}
AllFaults == Step
=============================================================================
