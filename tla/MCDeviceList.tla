---------------------------- MODULE MCDeviceList -----------------------------
(* An instance of DeviceList for TLC. *)
EXTENDS DeviceList

CONSTANTS d1, d2
=============================================================================
