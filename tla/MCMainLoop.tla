---------------------------- MODULE MCMainLoop ----------------------------
(* The model of MainLoop that TLC checks; the values are in the .cfg files. *)
EXTENDS MainLoop
=============================================================================
