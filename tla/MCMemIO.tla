------------------------------ MODULE MCMemIO ------------------------------
(* Instances of MemIO for TLC.                                             *)
EXTENDS MemIO, TLC
=============================================================================
