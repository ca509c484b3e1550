--------------------------- MODULE MCDeviceConfig ---------------------------
(* DeviceConfig for TLC: two names, one room and every type. *)
EXTENDS DeviceConfig

=============================================================================
