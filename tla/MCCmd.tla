------------------------------- MODULE MCCmd -------------------------------
(* The model of Cmd that TLC checks; the values are in the .cfg files. *)
EXTENDS Cmd
=============================================================================
