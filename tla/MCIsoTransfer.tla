---------------------------- MODULE MCIsoTransfer ----------------------------
(***************************************************************************)
(* Instances of IsoTransfer for TLC.                                       *)
(***************************************************************************)
EXTENDS IsoTransfer

CONSTANTS c1, c2, noFile
=============================================================================
