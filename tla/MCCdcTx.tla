------------------------------ MODULE MCCdcTx ------------------------------
(* CdcTx for TLC: the bounds are in the configuration files. *)
EXTENDS CdcTx
=============================================================================
