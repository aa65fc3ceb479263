---------------------------- MODULE MCDeviceTrust ----------------------------
(* Two devices, one of which asks the other to pair.                         *)
EXTENDS DeviceTrust, TLC

CONSTANTS a, b, ab

MCFrom == ab :> a
MCTo == ab :> b
==============================================================================
