----------------------------- MODULE MCFirmware ------------------------------
(* The firmware's main loop and watchdog on a small instance. *)
EXTENDS FirmwareProofs
=============================================================================
