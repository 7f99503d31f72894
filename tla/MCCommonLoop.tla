---------------------------- MODULE MCCommonLoop ----------------------------
(* TLC instances of CommonLoop; the bounds are in the .cfg files.            *)
EXTENDS CommonLoop
=============================================================================
