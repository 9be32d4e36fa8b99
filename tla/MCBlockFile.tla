---------------------------- MODULE MCBlockFile ----------------------------
(* Instances of BlockFile for TLC.                                         *)
EXTENDS BlockFile, TLC

(* Buffers of both bytes up to two blocks, and one that is longer than an  *)
(* extent may be.                                                          *)
MCBuffers == {<<1>>, <<2, 1>>, <<1, 2, 2>>, <<2, 2, 1, 1, 2, 1, 2>>}
=============================================================================
