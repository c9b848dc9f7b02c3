--------------------------- MODULE MCDevicesSerial ---------------------------
(* Instances of DevicesSerial for TLC.                                      *)
EXTENDS DevicesSerial, MCDevices
=============================================================================
