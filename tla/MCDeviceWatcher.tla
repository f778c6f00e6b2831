-------------------------- MODULE MCDeviceWatcher --------------------------
(***************************************************************************)
(* Small instances of DeviceWatcher.                                       *)
(***************************************************************************)
EXTENDS DeviceWatcher

CONSTANTS k1, k2, w1, w2
=============================================================================
