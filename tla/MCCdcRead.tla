---------------------------- MODULE MCCdcRead ----------------------------
(* CdcRead for model checking: its constants are numbers, given in the .cfg. *)
EXTENDS CdcRead
==========================================================================
