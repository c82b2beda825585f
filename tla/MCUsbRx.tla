------------------------------ MODULE MCUsbRx ------------------------------
(* UsbRx for TLC: the bounds are in the configuration files. *)
EXTENDS UsbRx
=============================================================================
