----------------------------- MODULE MCDevice -----------------------------
(* Device with the build's lamp sequences; the rest is in the .cfg file. *)
EXTENDS Device
===========================================================================
