---------------------------- MODULE MCFileIndex ----------------------------
(***************************************************************************)
(* Instances of FileIndex for TLC.                                         *)
(***************************************************************************)
EXTENDS FileIndex

(* 2 << 30 as an int, scaled.                                              *)
NegativeMax == -16
=============================================================================
